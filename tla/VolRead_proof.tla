--------------------------- MODULE VolRead_proof ---------------------------
(* vol_read puts no byte in the wrong place, for any device, window, sector *)
(* size and range, and whatever the device transfers.                       *)
(* The second part is about the tree of volumes such a device is divided    *)
(* into: closing it never uses a volume that is not there, the file system  *)
(* found is the first one in it, and when none is found none is overlooked. *)
EXTENDS VolRead, PartitionTree, FiniteSetTheorems, SequenceTheorems, WellFoundedInduction, TLAPS

USE RangesAssumption, SectorsAssumption

Volumes == [device : DeviceSizes, offset : Offsets, length : Lengths, blksz : SectorSizes]

\* The size that Request leaves, seen from later: cut at the end of the window.
Within == vol.length # 0 => start + size <= vol.length

\* What is known at each place of vol_read.  Until Copy the caller's buffer is as
\* it was; behind Fetch the first read_blocks sectors of the read buffer hold the
\* device from Position on.
Inductive ==
  /\ vol \in Volumes /\ start \in Nat /\ size \in Nat
  /\ DOMAIN buf \subseteq Nat /\ Asked \in Nat
  /\ pc \in {"check", "fetch", "copy"} =>
       read_blocks \in Int /\ \A j \in DOMAIN buf : buf[j] = Untouched
  /\ pc = "fetch" =>
       Within /\ block_count \in Nat /\ DOMAIN read_buffer = 0..(block_count * vol.blksz - 1)
  /\ pc = "copy" =>
       /\ Within /\ read_blocks >= -1
       /\ \A j \in Nat : j < read_blocks * vol.blksz =>
            j \in DOMAIN read_buffer /\ read_buffer[j] = Position + j
  /\ pc = "done" => RightPlace
  /\ pc \in {"check", "fetch", "copy", "done"}

LEMMA LeastIs ==
  ASSUME NEW a \in Int, NEW b \in Int
  PROVE  Least(a, b) = IF a <= b THEN a ELSE b
<1>1. \E x \in {a, b} : \A y \in {a, b} : x <= y
  OBVIOUS
<1> QED
  BY <1>1 DEF Least, Min

\* The product of two natural numbers is one.
LEMMA Products ==
  ASSUME NEW a \in Nat, NEW b \in Nat
  PROVE  a * b \in Nat
OBVIOUS

\* A position is that of its sector and its place in it.
LEMMA Sectors ==
  ASSUME NEW a \in Nat, NEW b \in Nat \ {0}
  PROVE  /\ (a \div b) * b + (a % b) = a
         /\ a % b \in 0..(b - 1)
         /\ a \div b \in Nat /\ (a \div b) * b \in Nat
<1>1. (a \div b) * b + (a % b) = a /\ a % b \in 0..(b - 1) /\ a \div b \in Nat
  OBVIOUS
<1>2. (a \div b) * b \in Nat
  <2>1. b \in Nat
    OBVIOUS
  <2> QED
    BY <1>1, <2>1, Products, Zenon
<1> QED
  BY <1>1, <1>2, Zenon

\* A remainder is never more than the number itself.
LEMMA RemainderAtMost ==
  ASSUME NEW a \in Nat, NEW b \in Nat \ {0}
  PROVE  a % b \in Nat /\ a % b <= a
OBVIOUS

LEMMA InitInductive == Init => Inductive
<1> SUFFICES ASSUME Init PROVE Inductive
  OBVIOUS
<1>1. /\ vol \in Volumes /\ start \in Nat /\ size \in Nat /\ pc = "check" /\ read_blocks = 0
      /\ buf = [j \in 0..(size - 1) |-> Untouched]
  BY DEF Init, Volumes
<1>2. DOMAIN buf = 0..(size - 1) /\ DOMAIN buf \subseteq Nat
  BY <1>1
<1>3. Asked \in Nat
  <2>1. Cardinality(0..(size - 1)) = IF 0 > size - 1 THEN 0 ELSE (size - 1) - 0 + 1
    BY <1>1, FS_Interval
  <2> QED
    BY <1>1, <1>2, <2>1 DEF Asked
<1> QED
  BY <1>1, <1>2, <1>3 DEF Inductive

LEMMA IgnoreInductive == Inductive /\ Ignore => Inductive'
<1> SUFFICES ASSUME Inductive, Ignore PROVE Inductive'
  OBVIOUS
<1>1. pc = "check" /\ pc' = "done" /\ UNCHANGED <<vol, start, size, read_blocks, buf>>
  BY DEF Ignore, request
<1>2. RightPlace'
  BY <1>1 DEF Inductive, RightPlace
<1> QED
  BY <1>1, <1>2 DEF Inductive, Asked

LEMMA RequestInductive == Inductive /\ Request => Inductive'
<1> SUFFICES ASSUME Inductive, Request PROVE Inductive'
  OBVIOUS
<1>1. /\ pc = "check" /\ pc' = "fetch" /\ UNCHANGED <<vol, start, buf, read_blocks>>
      /\ ~BeyondEnd /\ Cut > 0 /\ size' = Cut
      /\ block_count' = size' \div vol.blksz + (IF (start + size') % vol.blksz # 0 THEN 1 ELSE 0)
      /\ DOMAIN read_buffer' = 0..(block_count' * vol.blksz - 1)
  BY DEF Request, request
<1>2. vol.length \in Nat /\ vol.blksz \in Nat \ {0} /\ start \in Nat /\ Asked \in Nat
  BY DEF Inductive, Volumes
<1>3. Cut \in Int /\ (vol.length # 0 => start + Cut <= vol.length)
  BY <1>1, <1>2, LeastIs DEF Cut, BeyondEnd
<1>4. size' \in Nat /\ Within'
  BY <1>1, <1>2, <1>3 DEF Within
<1>5. block_count' \in Nat
  <2>1. size' \div vol.blksz \in Nat
    BY <1>2, <1>4, Sectors
  <2> QED
    BY <1>1, <2>1
<1> QED
  BY <1>1, <1>4, <1>5 DEF Inductive, Asked

LEMMA FetchInductive == Inductive /\ Fetch => Inductive'
<1> SUFFICES ASSUME Inductive, Fetch PROVE Inductive'
  OBVIOUS
<1>1. /\ pc = "fetch" /\ pc' = "copy" /\ UNCHANGED <<vol, start, size, buf, block_count>>
      /\ Within /\ block_count \in Nat /\ DOMAIN read_buffer = 0..(block_count * vol.blksz - 1)
  BY DEF Fetch, request, Inductive
<1>2. PICK n \in Transfers :
        /\ read_buffer' = [j \in DOMAIN read_buffer |->
                             IF j < n THEN Position + j ELSE read_buffer[j]]
        /\ read_blocks' = IF n > 0 THEN n \div vol.blksz ELSE n
  BY DEF Fetch
<1>3. vol.blksz \in Nat \ {0} /\ vol.offset \in Nat /\ vol.device \in Nat /\ start \in Nat
  BY DEF Inductive, Volumes
<1>4. n \in Int /\ n >= -1 /\ n <= block_count * vol.blksz
  <2> DEFINE whole == block_count * vol.blksz
             left == vol.device - Position
             most == Max({0, Least(whole, left)})
  <2>1. whole \in Nat /\ left \in Int
    <3>1. start_block * vol.blksz \in Nat
      BY <1>3, Sectors, Zenon DEF start_block
    <3>2. vol.blksz \in Nat
      BY <1>3
    <3>3. block_count * vol.blksz \in Nat
      BY <1>1, <3>2, Products, Zenon
    <3> QED
      BY <1>3, <3>1, <3>3 DEF Position
  <2>2. Least(whole, left) \in Int /\ Least(whole, left) <= whole
    BY <2>1, LeastIs
  <2>3. \E x \in {0, Least(whole, left)} : \A y \in {0, Least(whole, left)} : x >= y
    BY <2>2
  <2>4. most \in {0, Least(whole, left)} /\ most >= 0
    BY <2>3 DEF Max
  <2>5. most \in Nat /\ most <= whole
    BY <2>1, <2>2, <2>4
  <2>6. n \in -1..most \/ n = most
    BY DEF Transfers
  <2> HIDE DEF whole, most
  <2>7. n \in Int /\ n >= -1 /\ n <= whole
    BY <2>1, <2>5, <2>6
  <2> QED
    BY <2>7 DEF whole
<1>5. n > 0 => n \div vol.blksz \in Nat /\ (n \div vol.blksz) * vol.blksz \in Nat
                /\ (n \div vol.blksz) * vol.blksz <= n
  <2>1. n > 0 => n \in Nat
    BY <1>4
  <2>2. n > 0 => /\ (n \div vol.blksz) * vol.blksz + (n % vol.blksz) = n
                 /\ n % vol.blksz \in 0..(vol.blksz - 1) /\ n \div vol.blksz \in Nat
    BY <1>3, <2>1, Sectors, Zenon
  <2> QED
    BY <1>3, <1>4, <2>2
<1>6. read_blocks' \in Int /\ read_blocks' >= -1
  BY <1>2, <1>4, <1>5
<1>7. ASSUME NEW j \in Nat, j < read_blocks' * vol.blksz
      PROVE  j \in DOMAIN read_buffer' /\ read_buffer'[j] = Position + j
  <2>1. n > 0
    BY <1>2, <1>3, <1>4, <1>7
  <2>2. j < n
    <3>1. read_blocks' = n \div vol.blksz
      BY <1>2, <2>1
    <3> QED
      BY <1>4, <1>5, <1>7, <2>1, <3>1
  <2>3. j \in DOMAIN read_buffer
    BY <1>1, <1>3, <1>4, <2>2
  <2> QED
    BY <1>2, <2>2, <2>3
<1> QED
  BY <1>1, <1>7, <1>6 DEF Inductive, Within, Asked, Position, start_block

\* What Copy takes from the read buffer is the byte that is wanted there; where the
\* difference wraps around there is nothing to take, or the seek failed.
LEMMA CopyInductive == Inductive /\ Copy => Inductive'
<1> SUFFICES ASSUME Inductive, Copy PROVE Inductive'
  OBVIOUS
<1>1. /\ pc = "copy" /\ pc' = "done" /\ UNCHANGED <<vol, start, read_blocks, read_buffer>>
      /\ buf' = [j \in DOMAIN buf |->
                   IF read_blocks # 0 /\ j < Copied THEN BufferByte(byte_offset + j) ELSE buf[j]]
      /\ size' = Copied
  BY DEF Copy, request
<1>2. /\ vol.blksz \in Nat \ {0} /\ vol.offset \in Nat /\ vol.length \in Nat
      /\ start \in Nat /\ size \in Nat /\ DOMAIN buf \subseteq Nat
      /\ read_blocks \in Int /\ read_blocks >= -1 /\ Within
      /\ \A j \in DOMAIN buf : buf[j] = Untouched
      /\ \A j \in Nat : j < read_blocks * vol.blksz =>
           j \in DOMAIN read_buffer /\ read_buffer[j] = Position + j
  BY <1>1 DEF Inductive, Volumes
<1>3. /\ byte_offset \in 0..(vol.blksz - 1)
      /\ start_block * vol.blksz + byte_offset = start
      /\ start_block * vol.blksz \in Nat
  <2>1. /\ (start \div vol.blksz) * vol.blksz + (start % vol.blksz) = start
        /\ start % vol.blksz \in 0..(vol.blksz - 1)
        /\ (start \div vol.blksz) * vol.blksz \in Nat
    BY <1>2, Sectors, Zenon
  <2> QED
    BY <2>1, Zenon DEF byte_offset, start_block
<1> DEFINE difference == read_blocks * vol.blksz - byte_offset
<1>4. difference \in Int
  BY <1>2, <1>3
<1>5. difference % Word \in Nat
  BY <1>4, WordAssumption
<1>6. Copied \in Nat /\ Copied <= size /\ Copied <= difference % Word
  BY <1>2, <1>5, LeastIs DEF Copied
<1>7. ASSUME NEW j \in DOMAIN buf, read_blocks > 0, j < Copied
      PROVE  BufferByte(byte_offset + j) = Wanted(j)
  <2>1. difference \in Nat
    <3>1. read_blocks * vol.blksz >= vol.blksz
      BY <1>2, <1>7
    <3> QED
      BY <1>2, <1>3, <1>4, <3>1
  <2>2. difference % Word <= difference
    BY <2>1, RemainderAtMost, WordAssumption
  <2>3. j < difference
    BY <1>2, <1>5, <1>6, <1>7, <2>1, <2>2
  <2>4. byte_offset + j \in Nat /\ byte_offset + j < read_blocks * vol.blksz
    BY <1>2, <1>3, <2>3
  <2>5. BufferByte(byte_offset + j) = Position + (byte_offset + j)
    BY <1>2, <2>4 DEF BufferByte
  <2> QED
    BY <1>2, <1>3, <2>5 DEF Position, Wanted
<1>8. RightPlace'
  <2> SUFFICES ASSUME NEW j \in DOMAIN buf
               PROVE  /\ read_blocks # -1 => buf'[j] \in {Untouched, Wanted(j)}
                      /\ buf'[j] # Untouched /\ vol.length # 0 => Wanted(j) < vol.offset + vol.length
    BY <1>1 DEF RightPlace, SeekFailed, Wanted
  <2>1. CASE read_blocks # 0 /\ j < Copied
    <3>1. buf'[j] = BufferByte(byte_offset + j)
      BY <1>1, <2>1
    <3>2. read_blocks # -1 => buf'[j] = Wanted(j)
      BY <1>2, <1>7, <2>1, <3>1
    <3>3. vol.length # 0 => Wanted(j) < vol.offset + vol.length
      BY <1>2, <1>6, <2>1 DEF Wanted, Within
    <3> QED
      BY <3>2, <3>3
  <2>2. CASE ~(read_blocks # 0 /\ j < Copied)
    BY <1>1, <1>2, <2>2
  <2> QED
    BY <2>1, <2>2
<1>9. Asked' \in Nat /\ DOMAIN buf' \subseteq Nat
  BY <1>1 DEF Inductive, Asked
<1> QED
  BY <1>1, <1>2, <1>6, <1>8, <1>9 DEF Inductive

\* Inductive holds through every read, whatever the device transfers.
THEOREM InductiveHolds == Spec => []Inductive
<1>1. Inductive /\ [Next]_vars => Inductive'
  <2>1. Inductive /\ UNCHANGED vars => Inductive'
    BY DEF Inductive, vars, request, Within, Asked, Position, start_block, RightPlace,
           SeekFailed, Wanted
  <2> QED
    BY <2>1, IgnoreInductive, RequestInductive, FetchInductive, CopyInductive DEF Next
<1> QED
  BY InitInductive, <1>1, PTL DEF Spec

\* No byte of the caller's buffer is another byte of the device than the one that
\* belongs there, nor one behind the end of the window: short reads, windows that
\* begin inside a sector and the difference that wraps around included.
THEOREM RightPlaceHolds == Spec => []RightPlace
<1>1. Inductive => RightPlace
  BY DEF Inductive, RightPlace
<1> QED
  BY InductiveHolds, <1>1, PTL

-----------------------------------------------------------------------------
(***************************************************************************)
(* A range for which every sector arrives comes complete.                  *)
(***************************************************************************)

\* The number of sectors that Request asks for.
Blocks == Cut \div vol.blksz + (IF (start + Cut) % vol.blksz # 0 THEN 1 ELSE 0)

\* Between Request and Copy the size is that of the cut range and the number of
\* sectors the one it was rounded to.
Whole ==
  /\ DOMAIN buf = 0..(Asked - 1) /\ Asked \in Sizes
  /\ pc = "check" => block_count = 0
  /\ pc \in {"fetch", "copy"} => size = Cut /\ Cut > 0 /\ block_count = Blocks
  /\ pc = "done" => Complete

LEMMA Distributes ==
  ASSUME NEW a \in Int, NEW c \in Int, NEW b \in Int
  PROVE  a * b + c * b = (a + c) * b /\ 1 * b = b
OBVIOUS

\* A remainder is unique.
LEMMA RemainderIs ==
  ASSUME NEW b \in Nat \ {0}, NEW x \in Nat, NEW y \in 0..(b - 1)
  PROVE  (x * b + y) % b = y
OBVIOUS

\* Two remainders that do not carry: the sum has theirs.
LEMMA SumOfRemainders ==
  ASSUME NEW a \in Nat, NEW c \in Nat, NEW b \in Nat \ {0}, (a % b) + (c % b) < b
  PROVE  (a + c) % b = (a % b) + (c % b)
<1>1. /\ a = (a \div b) * b + (a % b) /\ a \div b \in Nat /\ a % b \in Nat
      /\ c = (c \div b) * b + (c % b) /\ c \div b \in Nat /\ c % b \in Nat
  BY Sectors
<1> DEFINE d == a \div b
           e == c \div b
           y == (a % b) + (c % b)
<1>2. d \in Nat /\ e \in Nat /\ y \in 0..(b - 1) /\ b \in Nat
  BY <1>1
<1>3. a + c = (d * b + e * b) + y
  BY <1>1
<1> HIDE DEF d, e, y
<1>4. d * b + e * b = (d + e) * b
  <2>1. d \in Int /\ e \in Int /\ b \in Int
    BY <1>2
  <2> QED
    BY <2>1, Distributes, Zenon
<1>5. d + e \in Nat
  BY <1>2
<1>6. ((d + e) * b + y) % b = y
  BY <1>2, <1>5, RemainderIs
<1> QED
  BY <1>3, <1>4, <1>6 DEF y

\* The sectors read hold the whole range behind the place it begins at, if it
\* does not reach one sector further than is read; and never much more.
LEMMA BlocksHoldRange ==
  ASSUME NEW s \in Nat, NEW p \in Nat, NEW b \in Nat \ {0}, NEW n,
         n = s \div b + (IF (p + s) % b # 0 THEN 1 ELSE 0), (p % b) + (s % b) < b
  PROVE  n \in Nat /\ n * b - (p % b) >= s /\ n * b - (p % b) <= s + b
<1> DEFINE q == s \div b
           r == s % b
           o == p % b
<1>1. /\ q * b + r = s /\ q \in Nat /\ q * b \in Nat
      /\ r \in 0..(b - 1) /\ o \in 0..(b - 1) /\ b \in Nat
  BY Sectors
<1>2. (p + s) % b = o + r
  BY SumOfRemainders
<1>3. o + r < b
  OBVIOUS
<1>4. n = q + (IF o + r # 0 THEN 1 ELSE 0)
  BY <1>2
<1> HIDE DEF q, r, o
<1>5. CASE o + r = 0
  <2>1. n = q /\ o = 0 /\ r = 0
    BY <1>1, <1>4, <1>5
  <2> QED
    BY <2>1, <1>1 DEF o
<1>6. CASE o + r # 0
  <2>1. n = q + 1
    BY <1>1, <1>4, <1>6
  <2>2. n * b = q * b + b /\ n \in Nat
    <3>1. q \in Int /\ 1 \in Int /\ b \in Int /\ n \in Nat
      BY <1>1, <2>1
    <3>2. q * b + 1 * b = (q + 1) * b /\ 1 * b = b
      BY <3>1, Distributes
    <3> QED
      BY <2>1, <3>1, <3>2, Zenon
  <2>3. n * b - o >= s /\ n * b - o <= s + b
    BY <2>2, <1>1, <1>3
  <2> QED
    BY <2>2, <2>3 DEF o
<1> QED
  BY <1>5, <1>6

\* What is not written leaves the rest of Whole to the place of the step.
LEMMA WholeFrame ==
  ASSUME Whole, vol' = vol, start' = start, buf' = buf
  PROVE  /\ (DOMAIN buf = 0..(Asked - 1) /\ Asked \in Sizes)'
         /\ Cut' = Cut /\ Blocks' = Blocks
BY DEF Whole, Asked, Cut, Blocks

LEMMA InitWhole == Init => Whole
<1> SUFFICES ASSUME Init PROVE Whole
  OBVIOUS
<1>1. size \in Sizes /\ size \in Nat /\ buf = [j \in 0..(size - 1) |-> Untouched]
      /\ pc = "check" /\ block_count = 0
  BY DEF Init
<1>2. DOMAIN buf = 0..(size - 1)
  BY <1>1
<1>3. Asked = size
  <2>1. Cardinality(0..(size - 1)) = IF 0 > size - 1 THEN 0 ELSE (size - 1) - 0 + 1
    BY <1>1, FS_Interval
  <2> QED
    BY <1>1, <1>2, <2>1 DEF Asked
<1> QED
  BY <1>1, <1>2, <1>3 DEF Whole

\* Copy takes as much as the range has, when as many sectors came as it asked for.
LEMMA CopyWhole == Inductive /\ Whole /\ Copy => Whole'
<1> SUFFICES ASSUME Inductive, Whole, Copy PROVE Whole'
  OBVIOUS
<1>1. /\ pc = "copy" /\ pc' = "done"
      /\ UNCHANGED <<vol, start, block_count, read_blocks, read_buffer>>
      /\ buf' = [j \in DOMAIN buf |->
                   IF read_blocks # 0 /\ j < Copied THEN BufferByte(byte_offset + j) ELSE buf[j]]
      /\ bytes_read' = Copied
  BY DEF Copy, request
<1>2. /\ size = Cut /\ Cut > 0 /\ block_count = Blocks
      /\ DOMAIN buf = 0..(Asked - 1) /\ Asked \in Sizes
  BY <1>1 DEF Whole
<1>3. /\ vol.blksz \in Nat \ {0} /\ vol.blksz \in SectorSizes /\ vol.length \in Nat
      /\ vol.offset \in Nat /\ start \in Nat /\ size \in Nat /\ Asked \in Nat
      /\ \A j \in Nat : j < read_blocks * vol.blksz =>
           j \in DOMAIN read_buffer /\ read_buffer[j] = Position + j
  BY <1>1 DEF Inductive, Volumes
<1>4. /\ DOMAIN buf' = DOMAIN buf /\ Asked' = Asked /\ Cut' = Cut
      /\ FallsShort' = FallsShort
  BY <1>1 DEF Asked, Cut, FallsShort, byte_offset
<1>5. ASSUME block_count > 0, read_blocks = block_count, ~FallsShort
      PROVE  /\ Copied = Cut
             /\ \A j \in 0..(Cut - 1) : buf'[j] = Wanted(j)
  <2> DEFINE got == read_blocks * vol.blksz
             difference == got - byte_offset
  <2>1. byte_offset \in Nat /\ start_block * vol.blksz + byte_offset = start
        /\ start_block * vol.blksz \in Nat
    <3>1. /\ start % vol.blksz \in 0..(vol.blksz - 1)
          /\ (start \div vol.blksz) * vol.blksz + (start % vol.blksz) = start
          /\ (start \div vol.blksz) * vol.blksz \in Nat
      BY <1>3, Sectors, Zenon
    <3>2. byte_offset \in Nat
      BY <1>3, <3>1 DEF byte_offset
    <3> QED
      BY <3>1, <3>2, Zenon DEF byte_offset, start_block
  <2>2. Cut \in Nat /\ Cut <= Asked
    <3>1. Cut \in Nat
      BY <1>2, <1>3
    <3>2. Cut <= Asked
      BY <1>3, LeastIs DEF Cut
    <3> QED
      BY <3>1, <3>2
  <2>3. (start % vol.blksz) + (Cut % vol.blksz) < vol.blksz
    <3>1. start % vol.blksz \in Nat /\ Cut % vol.blksz \in Nat
      BY <1>3, <2>2, Sectors
    <3> QED
      BY <1>3, <1>5, <3>1 DEF FallsShort, byte_offset
  <2>4. block_count \in Nat /\ difference >= Cut /\ difference <= Cut + vol.blksz
    <3>1. block_count = Cut \div vol.blksz + (IF (start + Cut) % vol.blksz # 0 THEN 1 ELSE 0)
      BY <1>2 DEF Blocks
    <3>2. /\ block_count \in Nat /\ block_count * vol.blksz - (start % vol.blksz) >= Cut
          /\ block_count * vol.blksz - (start % vol.blksz) <= Cut + vol.blksz
      BY <1>3, <2>2, <2>3, <3>1, BlocksHoldRange, Zenon
    <3> QED
      BY <1>5, <3>2, Zenon DEF byte_offset
  <2>5. got \in Nat
    <3>1. vol.blksz \in Nat
      BY <1>3
    <3> QED
      BY <1>5, <2>4, <3>1, Products, Zenon
  <2> HIDE DEF got
  <2>6. difference \in Nat /\ difference < Word
    <3>1. Asked + vol.blksz < Word
      BY <1>2, <1>3, WordAssumption
    <3> QED
      BY <1>3, <2>1, <2>2, <2>4, <2>5, <3>1, WordAssumption
  <2>7. difference % Word = difference
    BY <2>6, WordAssumption
  <2>8. Copied = Cut
    <3>1. Copied = Least(difference, Cut)
      BY <1>2, <2>7 DEF Copied, got
    <3> QED
      BY <2>2, <2>4, <2>6, <3>1, LeastIs
  <2>9. ASSUME NEW j \in 0..(Cut - 1) PROVE buf'[j] = Wanted(j)
    <3>1. j \in DOMAIN buf /\ j \in Nat /\ j < Cut
      BY <1>2, <1>3, <2>2
    <3>2. byte_offset + j \in Nat /\ byte_offset + j < got
      BY <2>1, <2>2, <2>4, <2>5, <3>1
    <3>3. BufferByte(byte_offset + j) = Position + (byte_offset + j)
      BY <1>3, <3>2 DEF BufferByte, got
    <3>4. read_blocks # 0
      BY <1>5, <2>4
    <3>5. buf'[j] = BufferByte(byte_offset + j)
      BY <1>1, <2>8, <3>1, <3>4
    <3> QED
      BY <1>3, <2>1, <3>1, <3>3, <3>5 DEF Position, Wanted
  <2> QED
    BY <2>8, <2>9
<1>6. Complete'
  BY <1>1, <1>4, <1>5 DEF Complete, Wanted
<1> QED
  BY <1>1, <1>2, <1>4, <1>6 DEF Whole

\* Whole holds through every read, whatever the device transfers.
THEOREM WholeHolds == Spec => []Whole
<1>1. Inductive /\ Whole /\ [Next]_vars => Whole'
  <2> SUFFICES ASSUME Inductive, Whole, [Next]_vars PROVE Whole'
    OBVIOUS
  <2>1. CASE Ignore
    <3>1. /\ pc = "check" /\ pc' = "done" /\ block_count' = block_count
          /\ vol' = vol /\ start' = start /\ buf' = buf
      BY <2>1 DEF Ignore, request
    <3> QED
      BY <3>1, WholeFrame DEF Whole, Complete
  <2>2. CASE Request
    <3>1. /\ pc = "check" /\ pc' = "fetch" /\ Cut > 0 /\ size' = Cut
          /\ vol' = vol /\ start' = start /\ buf' = buf /\ block_count' = Blocks
      BY <2>2 DEF Request, request, Blocks
    <3> QED
      BY <3>1, WholeFrame DEF Whole
  <2>3. CASE Fetch
    <3>1. /\ pc = "fetch" /\ pc' = "copy" /\ size' = size /\ block_count' = block_count
          /\ vol' = vol /\ start' = start /\ buf' = buf
      BY <2>3 DEF Fetch, request
    <3> QED
      BY <3>1, WholeFrame DEF Whole
  <2>4. CASE Copy
    BY <2>4, CopyWhole
  <2>5. CASE UNCHANGED vars
    <3>1. UNCHANGED <<vol, start, size, block_count, read_blocks, buf, bytes_read, pc>>
      BY <2>5 DEF vars, request
    <3> QED
      BY <3>1, WholeFrame DEF Whole, Complete, FallsShort, Wanted, byte_offset
  <2> QED
    BY <2>1, <2>2, <2>3, <2>4, <2>5 DEF Next
<1> QED
  BY InitWhole, <1>1, InductiveHolds, PTL DEF Spec

\* When every sector that vol_read asks for arrives, the range it can serve comes
\* complete: the sector it adds covers what the two roundings leave over.
THEOREM CompleteHolds == Spec => []Complete
<1>1. Whole => Complete
  BY DEF Whole, Complete
<1> QED
  BY WholeHolds, <1>1, PTL

-----------------------------------------------------------------------------
(***************************************************************************)
(* The tree of volumes                                                     *)
(***************************************************************************)

HIDE RangesAssumption
HIDE SectorsAssumption

\* A sequence of anything.
IsSeq(s) == \E S : s \in Seq(S)

\* A record with the fields of a volume.
IsVolume(v) ==
  v = [ offset |-> v.offset, length |-> v.length, sector |-> v.sector, type |-> v.type,
        parts |-> v.parts, count |-> v.count ]

\* A volume whose slots up to its count are used, each for one of the volumes.
Filled(v, volumes) ==
  /\ IsVolume(v)
  /\ v.count \in Nat
  /\ 1..v.count \subseteq DOMAIN v.parts
  /\ \A i \in DOMAIN v.parts : v.parts[i] \in 1..volumes

AllFilled ==
  /\ IsSeq(vols)
  /\ Len(vols) \in 1..MaxDescriptors + 1
  /\ \A n \in 1..Len(vols) : Filled(vols[n], Len(vols))

Calls == [vol : Nat, step : 0..5, next : Nat]

\* A stack of calls about the volumes, each at one of the steps.
GoodCalls(s, volumes, steps) ==
  /\ s \in Seq(Calls)
  /\ \A n \in 1..Len(s) : s[n].vol \in 1..volumes /\ s[n].step \in steps

Stack ==
  /\ phase \in {"load", "table"} => GoodCalls(calls, Len(vols), 1..5)
  /\ phase = "find" => GoodCalls(calls, Len(vols), 0..1)
  /\ phase \in {"load", "table", "find"} => calls # <<>>
  /\ phase = "table" => Scheme \in {"gpt", "apm", "mbr"}
  /\ \A v, scheme : phase = "table" /\ Volume = v /\ Scheme = scheme => Detected(v, scheme)

Outcome ==
  /\ phase \in {"load", "table", "find"} => found = 0
  /\ phase \in {"open", "close"} => found \in 1..Len(vols)
  /\ phase = "crashed" => found = 0

TreeInductive ==
  /\ disk \in Disks
  /\ Gapless => AllFilled /\ Stack /\ Outcome

-----------------------------------------------------------------------------

LEMMA LeastNatural ==
  ASSUME NEW T, T \subseteq Nat, T # {}
  PROVE  \E x \in T : \A y \in T : x <= y
<1> DEFINE R == OpToRel(<, Nat)
<1>1. IsWellFoundedOn(R, Nat)
  BY NatLessThanWellFounded, Zenon
<1>2. \A x, y \in Nat : <<y, x>> \in R <=> y < x
  BY DEF OpToRel
<1> HIDE DEF R
<1>3. PICK x \in T : \A y \in T : ~ (<<y, x>> \in R)
  BY <1>1, WFMin, Zenon
<1>4. \A y \in T : ~ (y < x)
  BY <1>2, <1>3, Zenon
<1>5. \A y \in T : x <= y
  BY <1>4
<1> QED
  BY <1>5

LEMMA SeqIs ==
  ASSUME NEW s, IsSeq(s)
  PROVE  Len(s) \in Nat /\ DOMAIN s = 1..Len(s) /\ s = [n \in 1..Len(s) |-> s[n]]
<1>1. PICK S : s \in Seq(S)
  BY DEF IsSeq
<1>2. Len(s) \in Nat /\ s \in [1..Len(s) -> S]
  BY <1>1, LenProperties
<1> QED
  BY <1>2

LEMMA ArrayIsSeq ==
  ASSUME NEW n \in Nat, NEW s, s = [i \in 1..n |-> s[i]]
  PROVE  IsSeq(s) /\ Len(s) = n
<1> DEFINE S == {s[i] : i \in 1..n}
<1>1. s \in [1..n -> S]
  OBVIOUS
<1> HIDE DEF S
<1>2. s \in Seq(S) /\ Len(s) = n
  BY <1>1
<1> QED
  BY <1>2 DEF IsSeq

LEMMA Concatenated ==
  ASSUME NEW s, NEW t, IsSeq(s), IsSeq(t)
  PROVE  /\ IsSeq(s \o t) /\ Len(s \o t) = Len(s) + Len(t)
         /\ \A i \in 1..Len(s) + Len(t) :
              (s \o t)[i] = IF i <= Len(s) THEN s[i] ELSE t[i - Len(s)]
<1>1. PICK S : s \in Seq(S)
  BY DEF IsSeq
<1>2. PICK T : t \in Seq(T)
  BY DEF IsSeq
<1> DEFINE U == S \cup T
<1>3. s \in Seq(U) /\ t \in Seq(U)
  <2>1. S \subseteq U /\ T \subseteq U
    OBVIOUS
  <2> HIDE DEF U
  <2> QED
    BY <1>1, <1>2, <2>1, SeqMonotonic
<1> HIDE DEF U
<1> QED
  BY <1>3, ConcatProperties DEF IsSeq

Replaces(t, s, c, x) == t = [s EXCEPT ![c] = x]

LEMMA Replaced ==
  ASSUME NEW s, IsSeq(s), NEW c \in 1..Len(s), NEW x, NEW t, Replaces(t, s, c, x)
  PROVE  /\ IsSeq(t) /\ Len(t) = Len(s)
         /\ t[c] = x /\ \A n \in 1..Len(s) : n # c => t[n] = s[n]
<1>1. Len(s) \in Nat /\ DOMAIN s = 1..Len(s) /\ s = [n \in 1..Len(s) |-> s[n]]
  BY SeqIs
<1>2. t = [n \in 1..Len(s) |-> IF n = c THEN x ELSE s[n]]
  BY <1>1 DEF Replaces
<1>3. \A n \in 1..Len(s) : t[n] = IF n = c THEN x ELSE s[n]
  BY <1>2
<1>4. t = [n \in 1..Len(s) |-> t[n]]
  BY <1>2, <1>3
<1>5. IsSeq(t) /\ Len(t) = Len(s)
  BY <1>1, <1>4, ArrayIsSeq
<1> QED
  BY <1>3, <1>5

\* The last call, and the stack without it.
LEMMA TopOfCalls ==
  ASSUME NEW V, NEW S, GoodCalls(calls, V, S), calls # <<>>
  PROVE  /\ Current \in Calls /\ Current.vol \in 1..V /\ Current.step \in S
         /\ GoodCalls(Front(calls), V, S) /\ Len(Front(calls)) = Len(calls) - 1
         /\ Len(calls) \in Nat \ {0}
<1>0. calls \in Seq(Calls) /\ \A n \in 1..Len(calls) : calls[n].vol \in 1..V /\ calls[n].step \in S
  BY DEF GoodCalls
<1> HIDE DEF Calls
<1>1. Len(calls) \in Nat \ {0}
  BY <1>0, EmptySeq
<1>2. Current \in Calls /\ Current.vol \in 1..V /\ Current.step \in S
  <2>1. Len(calls) \in 1..Len(calls) /\ Current = calls[Len(calls)]
    BY <1>1 DEF Current, Last
  <2>2. Current \in Calls
    BY <1>0, <2>1, ElementOfSeq
  <2> QED
    BY <1>0, <2>1, <2>2
<1> DEFINE L == Len(calls) - 1
<1>3. L \in Nat /\ \A n \in 1..L : n \in 1..Len(calls) /\ calls[n] \in Calls
  BY <1>0, <1>1, ElementOfSeq
<1>4. Front(calls) = SubSeq(calls, 1, L)
  BY DEF Front
<1> HIDE DEF L
<1>5. /\ SubSeq(calls, 1, L) \in Seq(Calls)
      /\ Len(SubSeq(calls, 1, L)) = IF 1 <= L THEN L - 1 + 1 ELSE 0
      /\ \A n \in 1..L - 1 + 1 : SubSeq(calls, 1, L)[n] = calls[1 + n - 1]
  BY <1>3, SubSeqProperties
<1>6. Len(Front(calls)) = L
  BY <1>3, <1>4, <1>5
<1>7. \A n \in 1..L : Front(calls)[n] = calls[n]
  <2> TAKE n \in 1..L
  <2>1. n \in 1..L - 1 + 1 /\ 1 + n - 1 = n
    BY <1>3
  <2>2. SubSeq(calls, 1, L)[n] = calls[1 + n - 1]
    BY <1>5, <2>1
  <2> QED
    BY <1>4, <2>1, <2>2
<1>8. \A n \in 1..L : Front(calls)[n].vol \in 1..V /\ Front(calls)[n].step \in S
  BY <1>0, <1>3, <1>7
<1>9. GoodCalls(Front(calls), V, S)
  BY <1>4, <1>5, <1>6, <1>8 DEF GoodCalls
<1> QED
  BY <1>1, <1>2, <1>6, <1>9 DEF L

LEMMA AppendGood ==
  ASSUME NEW V, NEW S, NEW s, GoodCalls(s, V, S), NEW call \in Calls, call.vol \in 1..V, call.step \in S
  PROVE  /\ GoodCalls(Append(s, call), V, S) /\ Append(s, call) # <<>>
         /\ Last(Append(s, call)) = call
<1>0. s \in Seq(Calls) /\ \A n \in 1..Len(s) : s[n].vol \in 1..V /\ s[n].step \in S
  BY DEF GoodCalls
<1> HIDE DEF Calls
<1>1. /\ Len(s) \in Nat /\ Append(s, call) \in Seq(Calls) /\ Len(Append(s, call)) = Len(s) + 1
      /\ \A n \in 1..Len(s) : Append(s, call)[n] = s[n]
      /\ Append(s, call)[Len(s) + 1] = call
  BY <1>0, AppendProperties
<1>2. \A n \in 1..Len(s) + 1 : Append(s, call)[n].vol \in 1..V /\ Append(s, call)[n].step \in S
  <2> TAKE n \in 1..Len(s) + 1
  <2>1. n \in 1..Len(s) \/ n = Len(s) + 1
    BY <1>1
  <2> QED
    BY <1>0, <1>1, <2>1
<1>3. Append(s, call) # <<>>
  BY <1>1, EmptySeq
<1> QED
  BY <1>1, <1>2, <1>3 DEF GoodCalls, Last

LEMMA WithCurrentGood ==
  ASSUME NEW V, NEW S, GoodCalls(calls, V, S), calls # <<>>,
         NEW call \in Calls, call.vol \in 1..V, call.step \in S
  PROVE  /\ GoodCalls(WithCurrent(call), V, S) /\ WithCurrent(call) # <<>>
         /\ Last(WithCurrent(call)) = call
<1>1. GoodCalls(Front(calls), V, S)
  BY TopOfCalls
<1> QED
  BY <1>1, AppendGood DEF WithCurrent

LEMMA MoreVolumes ==
  ASSUME NEW V \in Nat, NEW W \in Nat, V <= W, NEW S, NEW s, GoodCalls(s, V, S)
  PROVE  GoodCalls(s, W, S)
<1>1. \A x \in 1..V : x \in 1..W
  OBVIOUS
<1> QED
  BY <1>1 DEF GoodCalls

LEMMA DetectedStays ==
  ASSUME disk' = disk, NEW v, NEW scheme
  PROVE  Detected(v, scheme)' <=> Detected(v, scheme)
BY DEF Detected, GptSizes, Gpt, FirstLba, ApmSizes, BlockAt

-----------------------------------------------------------------------------
(***************************************************************************)
(* Tables                                                                  *)
(***************************************************************************)

\* A test changes nothing but the sector size.
LEMMA TestedIs ==
  ASSUME NEW v, IsVolume(v), NEW scheme
  PROVE  LET t == Tested(v, scheme)
         IN  /\ IsVolume(t) /\ t.parts = v.parts /\ t.count = v.count
             /\ t.offset = v.offset /\ t.length = v.length
<1> DEFINE sector == CASE scheme = "gpt" /\ GptSizes(v) # {} -> Min(GptSizes(v))
                       [] scheme = "apm" /\ ApmSizes(v) # {} -> Min(ApmSizes(v))
                       [] OTHER -> v.sector
           t == [ offset |-> v.offset, length |-> v.length, sector |-> sector, type |-> v.type,
                  parts |-> v.parts, count |-> v.count ]
<1>1. Tested(v, scheme) = [v EXCEPT !.sector = sector]
  BY Zenon DEF Tested
<1> HIDE DEF sector
<1>2. [v EXCEPT !.sector = sector] = t
  BY DEF IsVolume
<1>3. IsVolume(t) /\ t.parts = v.parts /\ t.count = v.count /\ t.offset = v.offset /\ t.length = v.length
  BY DEF IsVolume
<1> QED
  BY <1>1, <1>2, <1>3

\* What is detected does not depend on the sector size.
LEMMA DetectedAsBefore ==
  ASSUME NEW v, NEW w, w.offset = v.offset, w.length = v.length, NEW scheme
  PROVE  Detected(w, scheme) <=> Detected(v, scheme)
<1>1. \A x : BlockAt(w, x) = BlockAt(v, x)
  BY DEF BlockAt
<1>2. FirstLba(w) = FirstLba(v)
  BY <1>1 DEF FirstLba
<1>3. GptSizes(w) = GptSizes(v)
  BY <1>1, <1>2 DEF GptSizes
<1>4. ApmSizes(w) = ApmSizes(v)
  BY <1>1 DEF ApmSizes
<1>5. Gpt(w) = Gpt(v)
  BY <1>1, <1>2, <1>3 DEF Gpt
<1> QED
  BY <1>1, <1>3, <1>4, <1>5, Zenon DEF Detected

\* A block that says what it is is one of the disk.
LEMMA BlockOfDisk ==
  ASSUME NEW v, NEW x, BlockAt(v, x).kind # "blank"
  PROVE  \E p \in DOMAIN disk : BlockAt(v, x) = disk[p]
BY DEF BlockAt, Blank

\* A set of numbers from 1 with each that is smaller is an interval.
LEMMA Interval ==
  ASSUME NEW n \in Nat, NEW T, T \subseteq 1..n,
         \A i \in T : \A j \in 1..n : j < i => j \in T
  PROVE  \E m \in Nat : T = 1..m
<1> DEFINE U == {i \in Nat \ {0} : i \notin T}
<1>1. n + 1 \in U
  OBVIOUS
<1>2. PICK k \in U : \A y \in U : k <= y
  <2>1. U \subseteq Nat /\ U # {}
    BY <1>1
  <2> HIDE DEF U
  <2> QED
    BY <2>1, LeastNatural
<1>3. k \in Nat \ {0} /\ k \notin T
  BY <1>2
<1>4. \A i \in 1..k - 1 : i \in T
  <2> TAKE i \in 1..k - 1
  <2>1. i \in Nat \ {0} /\ ~(k <= i)
    BY <1>3
  <2> QED
    BY <1>2, <2>1
<1>5. \A i \in T : i \in 1..k - 1
  <2> TAKE i \in T
  <2>1. i \in 1..n
    OBVIOUS
  <2>2. k # i
    BY <1>3
  <2>3. ~(k < i)
    <3> SUFFICES ASSUME k < i PROVE FALSE
      OBVIOUS
    <3>1. k \in 1..n
      BY <1>3, <2>1
    <3> QED
      BY <1>3, <3>1
  <2> QED
    BY <1>3, <2>1, <2>2, <2>3
<1>6. k - 1 \in Nat
  BY <1>3
<1>7. T = 1..k - 1
  BY <1>4, <1>5
<1> QED
  BY <1>6, <1>7

\* The first n partitions of a table, made but not loaded.
Fresh(table, n) ==
  /\ DOMAIN table = 1..n
  /\ \A i \in 1..n : IsVolume(table[i]) /\ table[i].parts = <<>> /\ table[i].count = 0

LEMMA PartitionIs ==
  ASSUME NEW v, NEW first, NEW count, NEW type
  PROVE  LET p == Partition(v, first, count, type)
         IN  IsVolume(p) /\ p.parts = <<>> /\ p.count = 0
<1> DEFINE o == first * v.sector
           l == count * v.sector
           p == [ offset |-> o, length |-> l, sector |-> v.sector, type |-> type,
                  parts |-> <<>>, count |-> 0 ]
<1>1. Partition(v, first, count, type) = p
  BY DEF Partition
<1> HIDE DEF o, l
<1>2. IsVolume(p) /\ p.parts = <<>> /\ p.count = 0
  BY DEF IsVolume
<1> QED
  BY <1>1, <1>2

\* Without gaps, the tables of all schemes are filled from the first slot on.
LEMMA TablesAreFilled ==
  ASSUME Gapless, disk \in Disks, NEW v, NEW scheme \in {"gpt", "apm", "mbr"}, Detected(v, scheme)
  PROVE  \E n \in Nat : Fresh(Table(v, scheme), n)
<1>1. CASE scheme = "mbr"
  <2> DEFINE es == BlockAt(v, 0).entries
             T == {j \in 1..4 : es[j].type # "none"}
  <2>1. Table(v, scheme) = [i \in T |-> Partition(v, es[i].first, es[i].count, es[i].type)]
    BY <1>1 DEF Table, MbrTable
  <2>2. BlockAt(v, 0).kind = "boot"
    BY <1>1 DEF Detected
  <2>3. PICK p \in DOMAIN disk : BlockAt(v, 0) = disk[p]
    BY <2>2, BlockOfDisk
  <2>4. \A i, j \in 1..4 : i < j /\ es[j].type # "none" => es[i].type # "none"
    BY <2>2, <2>3 DEF Gapless
  <2>5. T \subseteq 1..4 /\ \A i \in T : \A j \in 1..4 : j < i => j \in T
    BY <2>4
  <2> HIDE DEF es, T
  <2>6. PICK n \in Nat : T = 1..n
    BY <2>5, Interval
  <2>7. Fresh(Table(v, scheme), n)
    BY <2>1, <2>6, PartitionIs DEF Fresh
  <2> QED
    BY <2>7
<1>2. CASE scheme = "gpt"
  <2> DEFINE es == Gpt(v).entries
             T == {j \in DOMAIN es : \A k \in 1..j : es[k].first # 0 \/ es[k].last # 0}
  <2>1. Table(v, scheme) = [i \in T |-> Partition(v, es[i].first, es[i].last - es[i].first, es[i].type)]
    BY <1>2 DEF Table, GptTable
  <2>2. Gpt(v).kind = "gpt"
    <3>1. GptSizes(v) # {} /\ GptSizes(v) \subseteq {1, 2, 4, 8}
      BY <1>2 DEF Detected, GptSizes
    <3> DEFINE S == GptSizes(v)
    <3>2. \E x \in S : \A y \in S : x <= y
      <4>1. S \subseteq Nat
        BY <3>1
      <4> HIDE DEF S
      <4> QED
        BY <3>1, <4>1, LeastNatural DEF S
    <3>3. Min(S) \in S
      BY <3>2 DEF Min
    <3> QED
      BY <3>3 DEF Gpt, GptSizes
  <2>3. PICK p \in DOMAIN disk : Gpt(v) = disk[p]
    BY <2>2, BlockOfDisk DEF Gpt
  <2>4. PICK S : es \in Seq(S)
    BY <2>2, <2>3, DisksAssumption
  <2>5. Len(es) \in Nat /\ DOMAIN es = 1..Len(es)
    BY <2>4, LenProperties
  <2>6. T \subseteq 1..Len(es) /\ \A i \in T : \A j \in 1..Len(es) : j < i => j \in T
    BY <2>5
  <2> HIDE DEF es, T
  <2>7. PICK n \in Nat : T = 1..n
    BY <2>5, <2>6, Interval
  <2>8. Fresh(Table(v, scheme), n)
    BY <2>1, <2>7, PartitionIs DEF Fresh
  <2> QED
    BY <2>8
<1>3. CASE scheme = "apm"
  <2> DEFINE T == {i \in 1..MaxDescriptors + 1 : \A j \in 1..(i - 1) : j + 1 < ApmEntry(v, j).count}
             last == Max(T)
  <2>1. Table(v, scheme) = [i \in 1..last |-> Partition(v, ApmEntry(v, i).start, ApmEntry(v, i).length, "data")]
    BY <1>3 DEF Table, ApmTable
  <2>2. 1 \in T /\ T \subseteq 1..MaxDescriptors + 1
    BY DescriptorsAssumption
  <2>3. last \in Nat
    <3> DEFINE U == {MaxDescriptors + 1 - i : i \in T}
    <3>1. U \subseteq Nat /\ U # {}
      BY <2>2, DescriptorsAssumption
    <3>2. PICK u \in U : \A y \in U : u <= y
      <4> HIDE DEF U
      <4> QED
        BY <3>1, LeastNatural
    <3>3. PICK i \in T : u = MaxDescriptors + 1 - i
      BY <3>2
    <3>4. \A j \in T : i >= j
      <4> TAKE j \in T
      <4>1. u <= MaxDescriptors + 1 - j
        BY <3>2
      <4>2. i \in 1..MaxDescriptors + 1 /\ j \in 1..MaxDescriptors + 1
        BY <2>2
      <4> QED
        BY <3>3, <4>1, <4>2, DescriptorsAssumption
    <3> HIDE DEF T
    <3>5. last \in T
      BY <3>4 DEF Max
    <3> QED
      BY <2>2, <3>5
  <2> HIDE DEF last
  <2>4. Fresh(Table(v, scheme), last)
    BY <2>1, PartitionIs DEF Fresh
  <2> QED
    BY <2>3, <2>4
<1> QED
  BY <1>1, <1>2, <1>3

LEMMA ParentIs ==
  ASSUME NEW v, IsVolume(v), NEW parts, NEW count
  PROVE  /\ IsVolume(AsMap(v, parts, count))
         /\ AsMap(v, parts, count).parts = parts /\ AsMap(v, parts, count).count = count
         /\ AsMap(v, parts, count).offset = v.offset /\ AsMap(v, parts, count).length = v.length
         /\ AsMap(v, parts, count).sector = v.sector
<1> DEFINE a == [v EXCEPT !.type = "map"]
           b == [a EXCEPT !.parts = parts]
           c == [b EXCEPT !.count = count]
           p == [ offset |-> v.offset, length |-> v.length, sector |-> v.sector,
                  type |-> "map", parts |-> parts, count |-> count ]
<1>1. AsMap(v, parts, count) = c
  BY DEF AsMap
<1>2. a = [ offset |-> v.offset, length |-> v.length, sector |-> v.sector,
            type |-> "map", parts |-> v.parts, count |-> v.count ]
  BY DEF IsVolume
<1> HIDE DEF a
<1>3. b = [ offset |-> v.offset, length |-> v.length, sector |-> v.sector,
            type |-> "map", parts |-> parts, count |-> v.count ]
  BY <1>2
<1> HIDE DEF b
<1>4. c = p
  BY <1>3
<1> HIDE DEF c
<1>5. /\ IsVolume(p) /\ p.parts = parts /\ p.count = count
      /\ p.offset = v.offset /\ p.length = v.length /\ p.sector = v.sector
  BY DEF IsVolume
<1> QED
  BY <1>1, <1>4, <1>5 DEF a, b, c

\* The new volumes are in their slots, and the parent's count is their number.
LEMMA PartitionsAreLinked ==
  ASSUME AllFilled, NEW n \in Nat, NEW table, Fresh(table, n), n <= Available,
         Current.vol \in 1..Len(vols)
  PROVE  LET w == WithPartitions(table)
         IN  /\ IsSeq(w) /\ Len(w) = Len(vols) + n /\ Len(w) \in 1..MaxDescriptors + 1
             /\ \A k \in 1..Len(w) : Filled(w[k], Len(w))
<1> DEFINE c == Current.vol
           L == Len(vols)
           count == Cardinality(DOMAIN table)
           parts == [i \in DOMAIN table |-> L + Rank(table, i)]
           parent == AsMap(vols[c], parts, count)
           older == [vols EXCEPT ![c] = parent]
           new == [k \in 1..count |-> table[CHOOSE i \in DOMAIN table : Rank(table, i) = k]]
<1>1. WithPartitions(table) = older \o new
  BY DEF WithPartitions
<1>2. L \in Nat /\ IsSeq(vols) /\ DOMAIN vols = 1..L
  BY SeqIs DEF AllFilled
<1>3. count = n /\ DOMAIN table = 1..n
  BY FS_Interval DEF Fresh
<1>4. \A i \in 1..n : Rank(table, i) = i
  <2> TAKE i \in 1..n
  <2>1. {j \in DOMAIN table : j <= i} = 1..i
    BY <1>3
  <2>2. Cardinality(1..i) = i
    BY FS_Interval
  <2> QED
    BY <2>1, <2>2 DEF Rank
<1>5. parts = [i \in 1..n |-> L + i]
  BY <1>3, <1>4
<1>6. \A k \in 1..n : (CHOOSE i \in DOMAIN table : Rank(table, i) = k) = k
  <2> TAKE k \in 1..n
  <2>1. \A i \in DOMAIN table : Rank(table, i) = k => i = k
    BY <1>3, <1>4
  <2>2. k \in DOMAIN table /\ Rank(table, k) = k
    BY <1>3, <1>4
  <2> QED
    BY <2>1, <2>2
<1>7. \A k \in 1..n : new[k] = table[k]
  BY <1>3, <1>6
<1>8. new = [k \in 1..n |-> new[k]]
  BY <1>3, <1>7
<1>9. IsSeq(new) /\ Len(new) = n
  <2> HIDE DEF new
  <2> QED
    BY <1>8, ArrayIsSeq
<1>10. IsVolume(parent) /\ parent.parts = parts /\ parent.count = n
  <2>1. IsVolume(vols[c])
    BY <1>2 DEF AllFilled, Filled
  <2> HIDE DEF parts, count
  <2> QED
    BY <1>3, <2>1, ParentIs
<1> HIDE DEF parent, new, count
<1>11. /\ IsSeq(older) /\ Len(older) = L
       /\ older[c] = parent /\ \A k \in 1..L : k # c => older[k] = vols[k]
  <2>1. Replaces(older, vols, c, parent)
    BY DEF Replaces
  <2> HIDE DEF older
  <2> QED
    BY <1>2, <2>1, Replaced
<1> HIDE DEF older
<1>12. /\ IsSeq(older \o new) /\ Len(older \o new) = L + n
       /\ \A k \in 1..L + n : (older \o new)[k] = IF k <= L THEN older[k] ELSE new[k - L]
  BY <1>9, <1>11, Concatenated
<1>13. L + n \in 1..MaxDescriptors + 1
  BY <1>2, DescriptorsAssumption DEF AllFilled, Available
<1>14. ASSUME NEW k \in 1..L + n
       PROVE  Filled((older \o new)[k], L + n)
  <2>1. CASE k <= L /\ k = c
    <3>1. (older \o new)[k] = parent
      BY <1>2, <1>11, <1>12, <2>1
    <3>2. DOMAIN parts = 1..n /\ \A i \in 1..n : parts[i] \in 1..L + n
      BY <1>2, <1>5
    <3>3. Filled(parent, L + n)
      <4> HIDE DEF parts
      <4> QED
        BY <1>10, <3>2 DEF Filled
    <3> QED
      BY <3>1, <3>3
  <2>2. CASE k <= L /\ k # c
    <3>1. k \in 1..L /\ (older \o new)[k] = vols[k]
      BY <1>2, <1>11, <1>12, <2>2
    <3>2. Filled(vols[k], L)
      BY <3>1 DEF AllFilled
    <3>3. \A x \in 1..L : x \in 1..L + n
      BY <1>2
    <3> HIDE DEF L
    <3> QED
      BY <3>1, <3>2, <3>3 DEF Filled
  <2>3. CASE ~(k <= L)
    <3>1. k - L \in 1..n /\ (older \o new)[k] = new[k - L]
      BY <1>2, <1>12, <2>3
    <3>2. new[k - L] = table[k - L]
      BY <1>7, <3>1
    <3>3. IsVolume(table[k - L]) /\ table[k - L].parts = <<>> /\ table[k - L].count = 0
      BY <3>1 DEF Fresh
    <3> HIDE DEF L
    <3> QED
      BY <3>1, <3>2, <3>3 DEF Filled
  <2> QED
    BY <2>1, <2>2, <2>3
<1> QED
  BY <1>1, <1>12, <1>13, <1>14

-----------------------------------------------------------------------------
(***************************************************************************)
(* Closing                                                                 *)
(***************************************************************************)

\* vol_close reaches volumes only.
LEMMA UnderIsVolumes ==
  ASSUME AllFilled, NEW v \in 1..Len(vols)
  PROVE  Under(v) \subseteq 1..Len(vols)
<1> DEFINE L == Len(vols)
           Reaches(f, n) == f = [m \in 0..n |-> IF m = 0 THEN {v}
                                               ELSE f[m - 1] \cup UNION {Kids(u) : u \in f[m - 1]}]
           Sets == SUBSET (1..L)
           Fails == {n \in 0..L : ~ \E f \in [0..n -> Sets] : Reaches(f, n)}
<1>1. L \in Nat /\ L >= 1
  BY DescriptorsAssumption DEF AllFilled
<1>2. \A u \in 1..L : Kids(u) \subseteq 1..L
  BY DEF AllFilled, Filled, Kids
<1>3. CASE Fails # {}
  <2>1. PICK n \in Fails : \A m \in Fails : n <= m
    <3>1. Fails \subseteq Nat
      BY <1>1
    <3> HIDE DEF Fails
    <3> QED
      BY <1>3, <3>1, LeastNatural
  <2>2. n \in 0..L /\ ~ \E f \in [0..n -> Sets] : Reaches(f, n)
    BY <2>1
  <2>3. CASE n = 0
    <3> DEFINE f == [m \in 0..0 |-> {v}]
    <3>1. f \in [0..n -> Sets]
      BY <2>3
    <3>2. Reaches(f, n)
      BY <2>3
    <3> HIDE DEF f, Sets, Reaches
    <3> QED
      BY <2>2, <3>1, <3>2
  <2>4. CASE n # 0
    <3>1. n - 1 \in 0..L /\ ~(n <= n - 1)
      BY <1>1, <2>2, <2>4
    <3>2. PICK f \in [0..(n - 1) -> Sets] : Reaches(f, n - 1)
      BY <2>1, <3>1
    <3> DEFINE more == f[n - 1] \cup UNION {Kids(u) : u \in f[n - 1]}
               g == [m \in 0..n |-> IF m = n THEN more ELSE f[m]]
    <3>3. more \in Sets
      <4>1. f[n - 1] \in Sets
        BY <2>2, <2>4, <3>2
      <4> QED
        BY <1>2, <4>1
    <3> HIDE DEF more
    <3>4. g \in [0..n -> Sets]
      <4> HIDE DEF Sets
      <4>1. \A m \in 0..n : m # n => f[m] \in Sets
        <5> TAKE m \in 0..n
        <5>1. m # n => m \in 0..(n - 1)
          BY <2>2
        <5> HIDE DEF Reaches
        <5> QED
          BY <3>2, <5>1
      <4> HIDE DEF Reaches
      <4> QED
        BY <3>3, <4>1
    <3>5. \A m \in 0..n : g[m] = IF m = 0 THEN {v} ELSE g[m - 1] \cup UNION {Kids(u) : u \in g[m - 1]}
      <4> TAKE m \in 0..n
      <4>1. CASE m = n
        <5>1. m - 1 \in 0..n /\ m - 1 # n
          BY <2>2, <2>4, <4>1
        <5>2. g[m] = more /\ g[m - 1] = f[m - 1]
          BY <4>1, <5>1
        <5> QED
          BY <2>4, <4>1, <5>2 DEF more
      <4>2. CASE m # n /\ m = 0
        <5>1. m \in 0..(n - 1)
          BY <2>2, <4>2
        <5> QED
          BY <3>2, <4>2, <5>1
      <4>3. CASE m # n /\ m # 0
        <5>1. m \in 0..(n - 1) /\ m - 1 \in 0..n /\ m - 1 # n
          BY <2>2, <4>3
        <5>2. g[m] = f[m] /\ g[m - 1] = f[m - 1]
          BY <4>3, <5>1
        <5>3. f[m] = f[m - 1] \cup UNION {Kids(u) : u \in f[m - 1]}
          BY <3>2, <4>3, <5>1
        <5> QED
          BY <4>3, <5>2, <5>3
      <4> QED
        BY <4>1, <4>2, <4>3
    <3>6. Reaches(g, n)
      <4> HIDE DEF g
      <4>1. g = [m \in 0..n |-> g[m]]
        BY <3>4
      <4> QED
        BY <3>5, <4>1
    <3> HIDE DEF g, Sets, Reaches
    <3> QED
      BY <2>2, <3>4, <3>6
  <2> QED
    BY <2>3, <2>4
<1>4. CASE Fails = {}
  <2> DEFINE reach == CHOOSE f : Reaches(f, L)
  <2>1. L \in 0..L
    BY <1>1
  <2>2. \E f \in [0..L -> Sets] : Reaches(f, L)
    BY <1>4, <2>1
  <2>3. Reaches(reach, L)
    <3> HIDE DEF Reaches, Sets, L
    <3> QED
      BY <2>2, Zenon
  <2>4. Under(v) = reach[L]
    BY Zenon DEF Under
  <2> HIDE DEF reach
  <2>5. \A m \in 0..L : reach[m] = IF m = 0 THEN {v} ELSE reach[m - 1] \cup UNION {Kids(u) : u \in reach[m - 1]}
    BY <2>3
  <2> DEFINE Escapes == {m \in 0..L : ~ (reach[m] \subseteq 1..L)}
  <2>6. CASE Escapes = {}
    BY <2>1, <2>4, <2>6
  <2>7. CASE Escapes # {}
    <3>1. PICK m \in Escapes : \A y \in Escapes : m <= y
      <4>1. Escapes \subseteq Nat
        BY <1>1
      <4> HIDE DEF Escapes
      <4> QED
        BY <2>7, <4>1, LeastNatural
    <3>2. m \in 0..L /\ ~(reach[m] \subseteq 1..L)
      BY <3>1
    <3>3. m # 0
      BY <2>5, <3>2
    <3>4. m - 1 \in 0..L /\ ~(m <= m - 1)
      BY <1>1, <3>2, <3>3
    <3>5. reach[m - 1] \subseteq 1..L
      BY <3>1, <3>4
    <3>6. reach[m] = reach[m - 1] \cup UNION {Kids(u) : u \in reach[m - 1]}
      BY <2>5, <3>2, <3>3
    <3> QED
      BY <1>2, <3>2, <3>5, <3>6
  <2> QED
    BY <2>6, <2>7
<1> QED
  BY <1>3, <1>4

-----------------------------------------------------------------------------
(***************************************************************************)
(* The steps                                                               *)
(***************************************************************************)

\* The fields a call keeps when another is set.
LEMMA CallIs ==
  ASSUME NEW call \in Calls
  PROVE  call.vol \in Nat /\ call.step \in 0..5 /\ call.next \in Nat
BY DEF Calls

LEMMA StepSet ==
  ASSUME NEW call \in Calls, NEW step \in 0..5, NEW c, c = [call EXCEPT !.step = step]
  PROVE  c \in Calls /\ c.vol = call.vol /\ c.step = step /\ c.next = call.next
BY DEF Calls

LEMMA NextSet ==
  ASSUME NEW call \in Calls, NEW next \in Nat, NEW c, c = [call EXCEPT !.next = next]
  PROVE  c \in Calls /\ c.vol = call.vol /\ c.step = call.step
BY DEF Calls

LEMMA NewCallIs ==
  ASSUME NEW v \in Nat
  PROVE  /\ LoadCall(v) \in Calls /\ LoadCall(v).vol = v /\ LoadCall(v).step = 1
         /\ FindCall(v) \in Calls /\ FindCall(v).vol = v /\ FindCall(v).step = 0
BY DEF LoadCall, FindCall, Calls

\* The volumes of the device alone.
LEMMA TreeInitIs ==
  ASSUME TreeInit
  PROVE  TreeInductive
<1> DEFINE length == Max(DOMAIN disk) + 1
           device == [ offset |-> 0, length |-> length, sector |-> 1, type |-> "unknown",
                       parts |-> <<>>, count |-> 0 ]
<1>1. vols = <<device>> /\ calls = <<LoadCall(1)>> /\ phase = "load" /\ found = 0 /\ disk \in Disks
  BY DEF TreeInit
<1> HIDE DEF length
<1>2. Filled(device, 1)
  BY DEF Filled, IsVolume
<1> HIDE DEF device
<1>3. IsSeq(vols) /\ Len(vols) = 1 /\ vols[1] = device
  <2>1. vols \in Seq({device})
    BY <1>1
  <2> QED
    BY <1>1, <2>1 DEF IsSeq
<1>4. AllFilled
  BY <1>2, <1>3, DescriptorsAssumption DEF AllFilled
<1>5. GoodCalls(<<>>, 1, 1..5) /\ Append(<<>>, LoadCall(1)) = <<LoadCall(1)>>
  <2>1. <<>> \in Seq(Calls) /\ Len(<<>>) = 0
    BY EmptySeq
  <2> QED
    BY <2>1 DEF GoodCalls
<1>6. GoodCalls(calls, Len(vols), 1..5) /\ calls # <<>>
  <2> DEFINE call == LoadCall(1)
  <2>1. call \in Calls /\ call.vol \in 1..1 /\ call.step \in 1..5
    BY NewCallIs
  <2> HIDE DEF call
  <2> DEFINE none == <<>>
  <2>2. GoodCalls(none, 1, 1..5)
    BY <1>5
  <2> HIDE DEF none
  <2>3. GoodCalls(Append(none, call), 1, 1..5) /\ Append(none, call) # <<>>
    BY <2>1, <2>2, AppendGood
  <2> QED
    BY <1>1, <1>3, <1>5, <2>3 DEF call, none
<1>7. Stack
  BY <1>1, <1>6 DEF Stack
<1> QED
  BY <1>1, <1>4, <1>7 DEF TreeInductive, Outcome

\* A test leaves the volumes filled.
LEMMA TestKeeps ==
  ASSUME AllFilled, NEW c \in 1..Len(vols), NEW scheme, NEW w,
         w = [vols EXCEPT ![c] = Tested(@, scheme)]
  PROVE  /\ IsSeq(w) /\ Len(w) = Len(vols)
         /\ \A n \in 1..Len(w) : Filled(w[n], Len(w))
         /\ w[c] = Tested(vols[c], scheme)
<1>1. Len(vols) \in Nat /\ DOMAIN vols = 1..Len(vols)
  BY SeqIs DEF AllFilled
<1> DEFINE t == Tested(vols[c], scheme)
<1>2. w = [vols EXCEPT ![c] = t]
  OBVIOUS
<1>3. Filled(t, Len(vols))
  <2>1. Filled(vols[c], Len(vols))
    BY DEF AllFilled
  <2>2. IsVolume(t) /\ t.parts = vols[c].parts /\ t.count = vols[c].count
    BY <2>1, TestedIs DEF Filled
  <2> HIDE DEF t
  <2> QED
    BY <2>1, <2>2 DEF Filled
<1> HIDE DEF t
<1>4. /\ IsSeq(w) /\ Len(w) = Len(vols)
      /\ w[c] = t /\ \A n \in 1..Len(vols) : n # c => w[n] = vols[n]
  <2>1. IsSeq(vols)
    BY DEF AllFilled
  <2>2. Replaces(w, vols, c, t)
    BY <1>2 DEF Replaces
  <2> QED
    BY <2>1, <2>2, Replaced
<1>5. \A n \in 1..Len(vols) : Filled(w[n], Len(vols))
  BY <1>3, <1>4 DEF AllFilled
<1> QED
  BY <1>4, <1>5 DEF t

LEMMA NextSchemeKeeps ==
  ASSUME AllFilled, Stack, Outcome, NextScheme
  PROVE  AllFilled' /\ Stack' /\ Outcome'
<1>1. /\ phase = "load" /\ phase' = phase /\ found' = found /\ disk' = disk
      /\ Current.step < 5
      /\ vols' = [vols EXCEPT ![Current.vol] = Tested(@, Scheme)]
      /\ calls' = WithCurrent([Current EXCEPT !.step = Current.step + 1])
  BY DEF NextScheme
<1>2. GoodCalls(calls, Len(vols), 1..5) /\ calls # <<>>
  BY <1>1 DEF Stack
<1>3. Current \in Calls /\ Current.vol \in 1..Len(vols) /\ Current.step \in 1..5
  BY <1>2, TopOfCalls
<1>4. IsSeq(vols') /\ Len(vols') = Len(vols) /\ \A n \in 1..Len(vols') : Filled(vols'[n], Len(vols'))
  BY <1>1, <1>3, TestKeeps
<1>5. GoodCalls(calls', Len(vols), 1..5) /\ calls' # <<>>
  <2> DEFINE call == [Current EXCEPT !.step = Current.step + 1]
  <2>1. Current.step + 1 \in 0..5 /\ Current.step + 1 \in 1..5
    BY <1>1, <1>3
  <2>2. call \in Calls /\ call.vol \in 1..Len(vols) /\ call.step \in 1..5
    BY <1>3, <2>1, StepSet
  <2> HIDE DEF call
  <2>3. GoodCalls(WithCurrent(call), Len(vols), 1..5) /\ WithCurrent(call) # <<>>
    BY <1>2, <2>2, WithCurrentGood
  <2> QED
    BY <1>1, <2>3 DEF call
<1>6. AllFilled'
  BY <1>4 DEF AllFilled
<1>7. Stack'
  BY <1>1, <1>4, <1>5 DEF Stack
<1>8. Outcome'
  BY <1>1 DEF Outcome
<1> QED
  BY <1>6, <1>7, <1>8

LEMMA DetectKeeps ==
  ASSUME AllFilled, Stack, Outcome, Detect
  PROVE  AllFilled' /\ Stack' /\ Outcome'
<1>1. /\ phase = "load" /\ phase' = "table" /\ found' = found /\ disk' = disk /\ calls' = calls
      /\ Current.step < 5 /\ Detected(Volume, Scheme) /\ Scheme # "cs"
      /\ vols' = [vols EXCEPT ![Current.vol] = Tested(@, Scheme)]
  BY DEF Detect
<1>2. GoodCalls(calls, Len(vols), 1..5) /\ calls # <<>>
  BY <1>1 DEF Stack
<1>3. Current \in Calls /\ Current.vol \in 1..Len(vols) /\ Current.step \in 1..5
  BY <1>2, TopOfCalls
<1>4. /\ IsSeq(vols') /\ Len(vols') = Len(vols) /\ \A n \in 1..Len(vols') : Filled(vols'[n], Len(vols'))
      /\ vols'[Current.vol] = Tested(vols[Current.vol], Scheme)
  BY <1>1, <1>3, TestKeeps
<1>5. Scheme \in {"gpt", "apm", "mbr"}
  <2>1. Current.step = 1 \/ Current.step = 2 \/ Current.step = 3 \/ Current.step = 4
    BY <1>1, <1>3
  <2> QED
    BY <1>1, <2>1 DEF Scheme, Schemes
<1>6. Current' = Current /\ Scheme' = Scheme
  BY <1>1 DEF Current, Scheme
<1>7. Volume' = Tested(Volume, Scheme)
  BY <1>4, <1>6 DEF Volume
<1>8. IsVolume(Volume)
  BY <1>3 DEF AllFilled, Filled, Volume
<1>9. \A v, scheme : Volume' = v /\ Scheme' = scheme => Detected(v, scheme)'
  <2> SUFFICES ASSUME NEW v, NEW scheme, v = Tested(Volume, Scheme), scheme = Scheme
               PROVE  Detected(v, scheme)'
    BY <1>6, <1>7
  <2>1. PICK u : u = Volume
    OBVIOUS
  <2>2. v.offset = u.offset /\ v.length = u.length
    BY <1>8, <2>1, TestedIs
  <2>3. Detected(u, scheme)
    BY <1>1, <2>1
  <2>4. Detected(v, scheme)
    BY <2>2, <2>3, DetectedAsBefore
  <2> QED
    BY <1>1, <2>4, DetectedStays
<1>10. AllFilled'
  BY <1>4 DEF AllFilled
<1>11. Stack'
  BY <1>1, <1>2, <1>4, <1>5, <1>6, <1>9 DEF Stack
<1>12. Outcome'
  BY <1>1 DEF Outcome
<1> QED
  BY <1>10, <1>11, <1>12

\* Partitions are linked, and the nested maps are looked at next.
LEMMA LinkKeeps ==
  ASSUME AllFilled, Stack, Outcome, phase = "table",
         NEW n \in Nat, NEW table, Fresh(table, n), n <= Available,
         vols' = WithPartitions(table), calls' = WithCurrent([Current EXCEPT !.step = 5]),
         phase' = "load", found' = found
  PROVE  AllFilled' /\ Stack' /\ Outcome'
<1>1. GoodCalls(calls, Len(vols), 1..5) /\ calls # <<>>
  BY DEF Stack
<1>2. Current \in Calls /\ Current.vol \in 1..Len(vols)
  BY <1>1, TopOfCalls
<1>3. /\ IsSeq(vols') /\ Len(vols') = Len(vols) + n /\ Len(vols') \in 1..MaxDescriptors + 1
      /\ \A k \in 1..Len(vols') : Filled(vols'[k], Len(vols'))
  BY <1>2, PartitionsAreLinked
<1>4. GoodCalls(calls', Len(vols), 1..5) /\ calls' # <<>>
  <2> DEFINE call == [Current EXCEPT !.step = 5]
  <2>1. call \in Calls /\ call.vol \in 1..Len(vols) /\ call.step \in 1..5
    <3>1. 5 \in 0..5 /\ 5 \in 1..5
      OBVIOUS
    <3> QED
      BY <1>2, <3>1, StepSet
  <2> HIDE DEF call
  <2>2. GoodCalls(WithCurrent(call), Len(vols), 1..5) /\ WithCurrent(call) # <<>>
    BY <1>1, <2>1, WithCurrentGood
  <2> QED
    BY <2>2 DEF call
<1>5. GoodCalls(calls', Len(vols'), 1..5)
  <2>1. Len(vols) \in Nat /\ Len(vols') \in Nat /\ Len(vols) <= Len(vols')
    BY <1>3, SeqIs DEF AllFilled
  <2> QED
    BY <1>4, <2>1, MoreVolumes
<1>6. AllFilled'
  BY <1>3 DEF AllFilled
<1>7. Stack'
  BY <1>4, <1>5 DEF Stack
<1>8. Outcome'
  BY DEF Outcome
<1> QED
  BY <1>6, <1>7, <1>8

\* What a table holds, when it is read.
LEMMA EntriesAre ==
  ASSUME disk \in Disks, Gapless, Stack, phase = "table"
  PROVE  \E n \in Nat : Fresh(Entries, n)
<1>1. PICK v : v = Volume
  OBVIOUS
<1>2. PICK scheme : scheme = Scheme
  OBVIOUS
<1>3. scheme \in {"gpt", "apm", "mbr"} /\ Detected(v, scheme)
  BY <1>1, <1>2 DEF Stack
<1>4. \E n \in Nat : Fresh(Table(v, scheme), n)
  BY <1>3, TablesAreFilled
<1> QED
  BY <1>1, <1>2, <1>4 DEF Entries

LEMMA LoadKeeps ==
  ASSUME disk \in Disks, Gapless, AllFilled, Stack, Outcome, Load
  PROVE  AllFilled' /\ Stack' /\ Outcome'
<1>1. /\ phase = "table" /\ phase' = "load" /\ found' = found
      /\ vols' = WithPartitions(Entries) /\ calls' = WithCurrent([Current EXCEPT !.step = 5])
      /\ Cardinality(DOMAIN Entries) <= Available
  BY DEF Load, Fits
<1>2. PICK table : table = Entries
  OBVIOUS
<1>3. PICK n \in Nat : Fresh(table, n)
  BY <1>1, <1>2, EntriesAre
<1>4. n <= Available
  <2>1. Cardinality(DOMAIN table) = n
    BY <1>3, FS_Interval DEF Fresh
  <2> QED
    BY <1>1, <1>2, <2>1
<1> QED
  BY <1>1, <1>2, <1>3, <1>4, LinkKeeps

LEMMA LoadPartKeeps ==
  ASSUME disk \in Disks, Gapless, AllFilled, Stack, Outcome, LoadPart
  PROVE  AllFilled' /\ Stack' /\ Outcome'
<1>1. /\ phase = "table" /\ found' = found /\ ~(Cardinality(DOMAIN Entries) <= Available)
  BY DEF LoadPart, Fits
<1>2. CASE Scheme = "gpt"
  <2> DEFINE part == [i \in 1..Available |-> Entries[i]]
  <2>1. /\ phase' = "load" /\ vols' = WithPartitions(part)
        /\ calls' = WithCurrent([Current EXCEPT !.step = 5])
    BY <1>2 DEF LoadPart
  <2>2. PICK n \in Nat : Fresh(Entries, n)
    BY <1>1, EntriesAre
  <2>3. Available \in Nat
    BY DescriptorsAssumption DEF AllFilled, Available
  <2>4. Cardinality(DOMAIN Entries) = n
    BY <2>2, FS_Interval DEF Fresh
  <2>5. \A i \in 1..Available : i \in 1..n
    BY <1>1, <2>3, <2>4
  <2>6. Fresh(part, Available)
    <3>1. DOMAIN part = 1..Available /\ \A i \in 1..Available : part[i] = Entries[i]
      OBVIOUS
    <3> HIDE DEF part
    <3> QED
      BY <2>2, <2>5, <3>1 DEF Fresh
  <2>7. PICK table : table = part
    OBVIOUS
  <2>8. PICK m \in Nat : m = Available
    BY <2>3
  <2>9. Fresh(table, m) /\ m <= Available /\ vols' = WithPartitions(table)
    BY <2>1, <2>6, <2>7, <2>8
  <2> QED
    BY <1>1, <2>1, <2>9, LinkKeeps
<1>3. CASE Scheme # "gpt"
  <2>1. phase' = "crashed" /\ vols' = vols /\ calls' = calls
    BY <1>3 DEF LoadPart
  <2> QED
    BY <1>1, <2>1 DEF AllFilled, Stack, Outcome
<1> QED
  BY <1>2, <1>3

\* The slot of the current loop is empty, or one of the volumes.
LEMMA SlotIs ==
  ASSUME AllFilled, Current.vol \in 1..Len(vols)
  PROVE  Slot \in 0..Len(vols)
<1>1. Filled(Volume, Len(vols))
  BY DEF AllFilled, Volume
<1>2. Len(vols) \in Nat
  BY SeqIs DEF AllFilled
<1>3. Current.next \in DOMAIN Volume.parts => Volume.parts[Current.next] \in 1..Len(vols)
  BY <1>1 DEF Filled
<1> QED
  BY <1>2, <1>3 DEF Slot

LEMMA AdvancedIs ==
  ASSUME NEW V, NEW S, GoodCalls(calls, V, S), calls # <<>>
  PROVE  GoodCalls(WithCurrent(Advanced), V, S) /\ WithCurrent(Advanced) # <<>>
<1>1. Current \in Calls /\ Current.vol \in 1..V /\ Current.step \in S
  BY TopOfCalls
<1>2. Current.next + 1 \in Nat
  <2>1. Current.next \in Nat
    BY <1>1, CallIs
  <2> QED
    BY <2>1
<1>3. Advanced = [Current EXCEPT !.next = Current.next + 1]
  BY DEF Advanced
<1>4. Advanced \in Calls /\ Advanced.vol \in 1..V /\ Advanced.step \in S
  BY <1>1, <1>2, <1>3, NextSet
<1> QED
  BY <1>4, WithCurrentGood

LEMMA NestKeeps ==
  ASSUME AllFilled, Stack, Outcome, Nest
  PROVE  AllFilled' /\ Stack' /\ Outcome'
<1>1. /\ phase = "load" /\ phase' = "load" /\ vols' = vols /\ found' = found
      /\ \/ Slot # 0 /\ calls' = Append(WithCurrent(Advanced), LoadCall(Slot))
         \/ calls' = WithCurrent(Advanced)
  BY DEF Nest
<1>2. GoodCalls(calls, Len(vols), 1..5) /\ calls # <<>>
  BY <1>1 DEF Stack
<1>3. GoodCalls(WithCurrent(Advanced), Len(vols), 1..5) /\ WithCurrent(Advanced) # <<>>
  BY <1>2, AdvancedIs
<1>4. GoodCalls(calls', Len(vols), 1..5) /\ calls' # <<>>
  <2>1. CASE Slot # 0 /\ calls' = Append(WithCurrent(Advanced), LoadCall(Slot))
    <3>1. Current.vol \in 1..Len(vols) /\ Len(vols) \in Nat
      BY <1>2, TopOfCalls, SeqIs DEF AllFilled
    <3>2. PICK v \in 1..Len(vols) : v = Slot
      BY <2>1, <3>1, SlotIs
    <3>3. v \in Nat
      BY <3>2
    <3>4. LoadCall(v) \in Calls /\ LoadCall(v).vol \in 1..Len(vols) /\ LoadCall(v).step \in 1..5
      BY <3>2, <3>3, NewCallIs
    <3> QED
      BY <1>3, <2>1, <3>2, <3>4, AppendGood
  <2> QED
    BY <1>1, <1>3, <2>1
<1> QED
  BY <1>1, <1>4 DEF AllFilled, Stack, Outcome

\* The search begins at the device.
LEMMA FirstFind ==
  ASSUME NEW V \in Nat, V >= 1, NEW s, s = <<FindCall(1)>>
  PROVE  GoodCalls(s, V, 0..1) /\ s # <<>>
<1> DEFINE call == FindCall(1)
           none == <<>>
<1>1. call \in Calls /\ call.vol \in 1..V /\ call.step \in 0..1
  BY NewCallIs
<1>2. GoodCalls(none, V, 0..1)
  <2>1. <<>> \in Seq(Calls) /\ Len(<<>>) = 0
    BY EmptySeq
  <2> QED
    BY <2>1 DEF GoodCalls
<1>3. s = Append(none, call)
  OBVIOUS
<1> HIDE DEF call, none
<1>4. GoodCalls(Append(none, call), V, 0..1) /\ Append(none, call) # <<>>
  BY <1>1, <1>2, AppendGood
<1> QED
  BY <1>3, <1>4

LEMMA LoadedKeeps ==
  ASSUME AllFilled, Stack, Outcome, Loaded
  PROVE  AllFilled' /\ Stack' /\ Outcome'
<1>1. /\ phase = "load" /\ vols' = vols /\ found' = found
      /\ Len(calls) > 1 => calls' = Front(calls) /\ phase' = "load"
      /\ ~(Len(calls) > 1) => calls' = <<FindCall(1)>> /\ phase' = "find"
  BY DEF Loaded
<1>2. GoodCalls(calls, Len(vols), 1..5) /\ calls # <<>>
  BY <1>1 DEF Stack
<1>3. CASE Len(calls) > 1
  <2>1. /\ GoodCalls(Front(calls), Len(vols), 1..5) /\ Len(Front(calls)) = Len(calls) - 1
        /\ Len(calls) \in Nat
    BY <1>2, TopOfCalls
  <2>2. Front(calls) # <<>>
    BY <1>3, <2>1, EmptySeq
  <2> QED
    BY <1>1, <1>3, <2>1, <2>2 DEF AllFilled, Stack, Outcome
<1>4. CASE ~(Len(calls) > 1)
  <2>1. Len(vols) \in Nat /\ Len(vols) >= 1
    BY DescriptorsAssumption DEF AllFilled
  <2>2. GoodCalls(calls', Len(vols), 0..1) /\ calls' # <<>>
    BY <1>1, <1>4, <2>1, FirstFind
  <2> QED
    BY <1>1, <1>4, <2>2 DEF AllFilled, Stack, Outcome
<1> QED
  BY <1>3, <1>4

LEMMA FindKeeps ==
  ASSUME AllFilled, Stack, Outcome, Match \/ NoMatch \/ Descend \/ Return
  PROVE  AllFilled' /\ Stack' /\ Outcome'
<1>1. phase = "find" /\ vols' = vols
  BY DEF Match, NoMatch, Descend, Return
<1>2. GoodCalls(calls, Len(vols), 0..1) /\ calls # <<>>
  BY <1>1 DEF Stack
<1>3. /\ Current \in Calls /\ Current.vol \in 1..Len(vols) /\ Len(vols) \in Nat
      /\ GoodCalls(Front(calls), Len(vols), 0..1) /\ Len(Front(calls)) = Len(calls) - 1
      /\ Len(calls) \in Nat \ {0}
  BY <1>2, TopOfCalls, SeqIs DEF AllFilled
<1>4. CASE Match
  BY <1>1, <1>3, <1>4 DEF Match, AllFilled, Stack, Outcome
<1>5. CASE NoMatch
  <2> DEFINE call == [Current EXCEPT !.step = 1]
  <2>1. calls' = WithCurrent(call) /\ phase' = "find" /\ found' = found
    BY <1>1, <1>5 DEF NoMatch
  <2>2. call \in Calls /\ call.vol \in 1..Len(vols) /\ call.step \in 0..1
    <3>1. 1 \in 0..5 /\ 1 \in 0..1
      OBVIOUS
    <3> QED
      BY <1>3, <3>1, StepSet
  <2> HIDE DEF call
  <2>3. GoodCalls(calls', Len(vols), 0..1) /\ calls' # <<>>
    BY <1>2, <2>1, <2>2, WithCurrentGood
  <2> QED
    BY <1>1, <2>1, <2>3 DEF AllFilled, Stack, Outcome
<1>6. CASE Descend
  <2> DEFINE more == IF Slot # 0 THEN <<FindCall(Slot)>> ELSE <<>>
  <2>1. calls' = WithCurrent(Advanced) \o more /\ phase' = "find" /\ found' = found
    BY <1>1, <1>6 DEF Descend
  <2>2. GoodCalls(WithCurrent(Advanced), Len(vols), 0..1) /\ WithCurrent(Advanced) # <<>>
    BY <1>2, AdvancedIs
  <2>3. GoodCalls(calls', Len(vols), 0..1) /\ calls' # <<>>
    <3>1. PICK s : s = WithCurrent(Advanced)
      OBVIOUS
    <3>2. s \in Seq(Calls)
      BY <2>2, <3>1 DEF GoodCalls
    <3>3. CASE Slot = 0
      <4>1. s \o <<>> = s
        <5> HIDE DEF Calls
        <5> QED
          BY <3>2, ConcatEmptySeq
      <4>2. calls' = s \o <<>>
        BY <2>1, <3>1, <3>3
      <4> QED
        BY <2>2, <3>1, <4>1, <4>2
    <3>4. CASE Slot # 0
      <4>1. PICK v \in 1..Len(vols) : v = Slot
        BY <1>3, <3>4, SlotIs
      <4>2. PICK call : call = FindCall(v)
        OBVIOUS
      <4>3. call \in Calls /\ call.vol \in 1..Len(vols) /\ call.step \in 0..1
        BY <1>3, <4>1, <4>2, NewCallIs
      <4>4. calls' = s \o <<call>>
        BY <2>1, <3>1, <3>4, <4>1, <4>2
      <4>5. s \o <<call>> = Append(s, call)
        <5> HIDE DEF Calls
        <5> QED
          BY <3>2, <4>3, AppendIsConcat
      <4>6. GoodCalls(s, Len(vols), 0..1)
        BY <2>2, <3>1
      <4>7. GoodCalls(Append(s, call), Len(vols), 0..1) /\ Append(s, call) # <<>>
        BY <4>3, <4>6, AppendGood
      <4> QED
        BY <4>4, <4>5, <4>7
    <3> QED
      BY <3>3, <3>4
  <2> QED
    BY <1>1, <2>1, <2>3 DEF AllFilled, Stack, Outcome
<1>7. CASE Return
  <2>1. /\ calls' = Front(calls) /\ found' = found
        /\ Len(calls) = 1 => phase' = "ended"
        /\ Len(calls) # 1 => phase' = "find"
    BY <1>7 DEF Return
  <2>2. Len(calls) # 1 => Front(calls) # <<>>
    BY <1>3, EmptySeq
  <2> QED
    BY <1>1, <1>3, <2>1, <2>2 DEF AllFilled, Stack, Outcome
<1> QED
  BY <1>4, <1>5, <1>6, <1>7

\* No volume that vol_close reaches has an empty slot below its count.
LEMMA CloseKeeps ==
  ASSUME AllFilled, Stack, Outcome, Open \/ Close
  PROVE  AllFilled' /\ Stack' /\ Outcome'
<1>1. CASE Open
  BY <1>1 DEF Open, AllFilled, Stack, Outcome
<1>2. CASE Close
  <2>1. /\ phase = "close" /\ UNCHANGED <<vols, calls, found>>
        /\ (\A u \in Under(found) : 1..vols[u].count \subseteq DOMAIN vols[u].parts) => phase' = "ended"
    BY <1>2 DEF Close
  <2>2. PICK v \in 1..Len(vols) : v = found
    BY <2>1 DEF Outcome
  <2>3. Under(found) \subseteq 1..Len(vols)
    BY <2>2, UnderIsVolumes
  <2>4. \A u \in Under(found) : 1..vols[u].count \subseteq DOMAIN vols[u].parts
    BY <2>3 DEF AllFilled, Filled
  <2>5. phase' = "ended"
    BY <2>1, <2>4
  <2> QED
    BY <2>1, <2>5 DEF AllFilled, Stack, Outcome
<1> QED
  BY <1>1, <1>2

\* On every disk whose MBRs have no gaps, the slots up to the count of a volume lead
\* to volumes, at every step from the loading to the closing.
THEOREM TreeInductiveHolds == TreeSpec => []TreeInductive
<1>1. TreeInit => TreeInductive
  BY TreeInitIs
<1>2. TreeInductive /\ [TreeNext]_treeVars => TreeInductive'
  <2> SUFFICES ASSUME TreeInductive, [TreeNext]_treeVars PROVE TreeInductive'
    OBVIOUS
  <2>1. disk' = disk /\ disk \in Disks
    BY DEF TreeInductive, TreeNext, treeVars, NextScheme, Detect, Load, LoadPart, Nest, Loaded, Match,
           NoMatch, Descend, Return, Open, Close
  <2>2. Gapless' <=> Gapless
    BY <2>1 DEF Gapless
  <2>3. ASSUME Gapless PROVE AllFilled' /\ Stack' /\ Outcome'
    <3>1. AllFilled /\ Stack /\ Outcome
      BY <2>3 DEF TreeInductive
    <3>2. CASE UNCHANGED treeVars
      <4>1. UNCHANGED <<disk, vols, calls, phase, found>>
        BY <3>2 DEF treeVars
      <4>2. \A v, scheme : Detected(v, scheme)' <=> Detected(v, scheme)
        BY <2>1, DetectedStays
      <4>3. Stack'
        BY <3>1, <4>1, <4>2 DEF Stack, Scheme, Volume, Current
      <4> QED
        BY <3>1, <4>1, <4>3 DEF AllFilled, Outcome
    <3>3. CASE TreeNext
      BY <2>1, <2>3, <3>1, <3>3, NextSchemeKeeps, DetectKeeps, LoadKeeps, LoadPartKeeps, NestKeeps,
         LoadedKeeps, FindKeeps, CloseKeeps DEF TreeNext
    <3> QED
      BY <3>2, <3>3
  <2> QED
    BY <2>1, <2>2, <2>3 DEF TreeInductive
<1> QED
  BY <1>1, <1>2, PTL DEF TreeSpec

\* vol_close ends without using an empty slot, whatever the maps of the disk
\* hold, unless an MBR has gaps.
THEOREM ClosesCleanlyHolds == TreeSpec => []ClosesCleanly
<1>1. TreeInductive => ClosesCleanly
  BY DEF TreeInductive, Outcome, ClosesCleanly
<1> QED
  BY TreeInductiveHolds, <1>1, PTL

-----------------------------------------------------------------------------
(***************************************************************************)
(* The search for a file system                                            *)
(***************************************************************************)

\* What a test leaves as it is.
LEMMA TestIs ==
  ASSUME AllFilled, NEW c \in 1..Len(vols), NEW scheme, NEW w,
         w = [vols EXCEPT ![c] = Tested(@, scheme)]
  PROVE  /\ Len(w) = Len(vols) /\ w[c] = Tested(vols[c], scheme)
         /\ \A n \in 1..Len(vols) : n # c => w[n] = vols[n]
         /\ \A n \in 1..Len(vols) : /\ w[n].parts = vols[n].parts /\ w[n].count = vols[n].count
                                    /\ w[n].offset = vols[n].offset /\ w[n].length = vols[n].length
<1> DEFINE t == Tested(vols[c], scheme)
<1>1. w = [vols EXCEPT ![c] = t]
  OBVIOUS
<1>2. IsVolume(vols[c])
  BY DEF AllFilled, Filled
<1>3. /\ t.parts = vols[c].parts /\ t.count = vols[c].count
      /\ t.offset = vols[c].offset /\ t.length = vols[c].length
  BY <1>2, TestedIs
<1> HIDE DEF t
<1>4. Len(w) = Len(vols) /\ w[c] = t /\ \A n \in 1..Len(vols) : n # c => w[n] = vols[n]
  <2>1. IsSeq(vols)
    BY DEF AllFilled
  <2>2. Replaces(w, vols, c, t)
    BY <1>1 DEF Replaces
  <2> QED
    BY <2>1, <2>2, Replaced
<1> QED
  BY <1>3, <1>4 DEF t

\* One call more, on top of the others.
LEMMA CallsAppended ==
  ASSUME NEW s \in Seq(Calls), NEW call \in Calls
  PROVE  /\ Append(s, call) \in Seq(Calls) /\ Len(s) \in Nat /\ Len(Append(s, call)) = Len(s) + 1
         /\ Append(s, call)[Len(s) + 1] = call
         /\ \A n \in 1..Len(s) : Append(s, call)[n] = s[n]
<1> HIDE DEF Calls
<1> QED
  BY AppendProperties

\* The stack, element by element.
LEMMA CallsWithCurrent ==
  ASSUME NEW V, NEW S, GoodCalls(calls, V, S), calls # <<>>, NEW call \in Calls
  PROVE  /\ WithCurrent(call) \in Seq(Calls) /\ Len(WithCurrent(call)) = Len(calls) /\ Len(calls) \in Nat \ {0}
         /\ WithCurrent(call)[Len(calls)] = call
         /\ \A n \in 1..Len(calls) - 1 : WithCurrent(call)[n] = calls[n]
<1>1. calls \in Seq(Calls)
  BY DEF GoodCalls
<1>2. /\ GoodCalls(Front(calls), V, S) /\ Len(Front(calls)) = Len(calls) - 1
      /\ Len(calls) \in Nat \ {0}
  BY TopOfCalls
<1>3. Front(calls) \in Seq(Calls)
  BY <1>2 DEF GoodCalls
<1> HIDE DEF Calls
<1>4. /\ Append(Front(calls), call) \in Seq(Calls) /\ Len(Append(Front(calls), call)) = Len(calls)
      /\ \A n \in 1..Len(calls) - 1 : Append(Front(calls), call)[n] = Front(calls)[n]
      /\ Append(Front(calls), call)[Len(calls)] = call
  <2>0. PICK f : f = Front(calls)
    OBVIOUS
  <2>1. f \in Seq(Calls) /\ Len(f) + 1 = Len(calls) /\ Len(f) = Len(calls) - 1
    BY <1>2, <1>3, <2>0
  <2>2. /\ Append(f, call) \in Seq(Calls) /\ Len(Append(f, call)) = Len(f) + 1
        /\ \A n \in 1..Len(f) : Append(f, call)[n] = f[n]
        /\ Append(f, call)[Len(f) + 1] = call
    BY <2>1, CallsAppended
  <2> QED
    BY <2>0, <2>1, <2>2
<1>5. \A n \in 1..Len(calls) - 1 : Front(calls)[n] = calls[n]
  <2>1. Front(calls) = SubSeq(calls, 1, Len(calls) - 1)
    BY DEF Front
  <2>2. \A n \in 1..Len(calls) - 1 : calls[n] \in Calls
    BY <1>1, <1>2, ElementOfSeq
  <2> DEFINE m == Len(calls) - 1
  <2>3. m \in Nat
    BY <1>2
  <2> HIDE DEF m
  <2>4. /\ \A n \in 1..m : calls[n] \in Calls
        /\ Front(calls) = SubSeq(calls, 1, m)
    BY <2>1, <2>2 DEF m
  <2>5. \A n \in 1..m - 1 + 1 : SubSeq(calls, 1, m)[n] = calls[1 + n - 1]
    BY <1>1, <2>3, <2>4, SubSeqProperties
  <2>6. \A n \in 1..m : SubSeq(calls, 1, m)[n] = calls[n]
    <3> TAKE n \in 1..m
    <3>1. n \in 1..m - 1 + 1 /\ 1 + n - 1 = n
      BY <2>3
    <3> QED
      BY <2>5, <3>1
  <2> QED
    BY <2>4, <2>6 DEF m
<1> QED
  BY <1>2, <1>4, <1>5 DEF WithCurrent

\* The calls below the deepest one.
LEMMA CallsFront ==
  ASSUME NEW V, NEW S, GoodCalls(calls, V, S), calls # <<>>
  PROVE  /\ Len(Front(calls)) = Len(calls) - 1 /\ Len(calls) \in Nat \ {0}
         /\ \A n \in 1..Len(calls) - 1 : Front(calls)[n] = calls[n]
         /\ \A n \in 1..Len(calls) : calls[n] \in Calls
         /\ Current = calls[Len(calls)]
<1>1. Len(Front(calls)) = Len(calls) - 1 /\ Len(calls) \in Nat \ {0}
  BY TopOfCalls
<1>2. Front(calls) \in Seq(Calls) /\ Current \in Calls
  BY TopOfCalls DEF GoodCalls
<1>3. calls \in Seq(Calls)
  BY DEF GoodCalls
<1>4. \A n \in 1..Len(calls) : calls[n] \in Calls
  BY <1>1, <1>3, ElementOfSeq
<1>5. \A n \in 1..Len(calls) - 1 : Front(calls)[n] = calls[n]
  <2>1. PICK f : f = Front(calls)
    OBVIOUS
  <2>2. Append(f, Current) = WithCurrent(Current)
    BY <2>1 DEF WithCurrent
  <2>3. \A n \in 1..Len(calls) - 1 : WithCurrent(Current)[n] = calls[n]
    BY <1>2, CallsWithCurrent
  <2> HIDE DEF Calls
  <2>4. \A n \in 1..Len(f) : Append(f, Current)[n] = f[n]
    BY <1>2, <2>1, AppendProperties
  <2> QED
    BY <1>1, <2>1, <2>2, <2>3, <2>4
<1> QED
  BY <1>1, <1>4, <1>5 DEF Current, Last

\* The call with the next index.
LEMMA AdvancedCall ==
  ASSUME Current \in Calls
  PROVE  /\ Advanced \in Calls /\ Advanced.vol = Current.vol /\ Advanced.step = Current.step
         /\ Advanced.next = Current.next + 1
BY DEF Advanced, Calls

\* Slots lead to newer volumes, and to each but the device exactly one of them.
Linked ==
  /\ \A v \in 1..Len(vols) : DOMAIN vols[v].parts = 1..vols[v].count /\ vols[v].count <= MaxDescriptors
  /\ \A v \in 1..Len(vols) : \A s \in DOMAIN vols[v].parts : v < vols[v].parts[s]
  /\ \A u, v \in 1..Len(vols) : \A s \in DOMAIN vols[u].parts, t \in DOMAIN vols[v].parts :
       vols[u].parts[s] = vols[v].parts[t] => u = v /\ s = t
  /\ \A v \in 2..Len(vols) : \E u \in 1..Len(vols) : \E s \in DOMAIN vols[u].parts : vols[u].parts[s] = v

\* The partitions the loop of a call has not come to yet.
Waiting(call) ==
  {vols[call.vol].parts[s] : s \in {t \in DOMAIN vols[call.vol].parts : call.next <= t}}

Unloaded(v) == DOMAIN vols[v].parts = {} /\ \A m \in 1..Len(calls) : calls[m].vol # v

\* Volumes are loaded once each.
Loading ==
  phase \in {"load", "table"} =>
    /\ \A l, m \in 1..Len(calls) : l < m => calls[l].vol < calls[m].vol /\ calls[l].step = 5
    /\ Current.step < 5 => Current.next = 1 /\ DOMAIN Volume.parts = {}
    /\ phase = "table" => Current.step < 5
    /\ \A l \in 1..Len(calls) : \A v \in Waiting(calls[l]) : Unloaded(v)

\* What linking a table does to each volume.
GrownBy(w, table, n) ==
  LET c == Current.vol IN
  /\ Len(w) = Len(vols) + n
  /\ w[c].offset = vols[c].offset /\ w[c].length = vols[c].length /\ w[c].sector = vols[c].sector
  /\ DOMAIN w[c].parts = 1..n /\ w[c].count = n
  /\ \A i \in 1..n : w[c].parts[i] = Len(vols) + i
  /\ \A k \in 1..Len(vols) : k # c => w[k] = vols[k]
  /\ \A k \in 1..n : w[Len(vols) + k] = table[k]

\* What vol_make_partition does for all the entries of a table.
LEMMA LinkIs ==
  ASSUME AllFilled, NEW n \in Nat, NEW table, Fresh(table, n), Current.vol \in 1..Len(vols)
  PROVE  GrownBy(WithPartitions(table), table, n)
<1>0. PICK c : c = Current.vol
  OBVIOUS
<1>w. PICK w : w = WithPartitions(table)
  OBVIOUS
<1> DEFINE L == Len(vols)
           count == Cardinality(DOMAIN table)
           parts == [i \in DOMAIN table |-> L + Rank(table, i)]
           parent == AsMap(vols[c], parts, count)
           older == [vols EXCEPT ![c] = parent]
           new == [k \in 1..count |-> table[CHOOSE i \in DOMAIN table : Rank(table, i) = k]]
<1>1. w = older \o new
  BY <1>0, <1>w DEF WithPartitions
<1>2. L \in Nat /\ IsSeq(vols) /\ DOMAIN vols = 1..L /\ c \in 1..L
  BY <1>0, SeqIs DEF AllFilled
<1>3. count = n /\ DOMAIN table = 1..n
  BY FS_Interval DEF Fresh
<1>4. \A i \in 1..n : Rank(table, i) = i
  <2> TAKE i \in 1..n
  <2>1. {j \in DOMAIN table : j <= i} = 1..i
    BY <1>3
  <2>2. Cardinality(1..i) = i
    BY FS_Interval
  <2> QED
    BY <2>1, <2>2 DEF Rank
<1>5. parts = [i \in 1..n |-> L + i]
  BY <1>3, <1>4
<1>6. \A k \in 1..n : (CHOOSE i \in DOMAIN table : Rank(table, i) = k) = k
  <2> TAKE k \in 1..n
  <2>1. \A i \in DOMAIN table : Rank(table, i) = k => i = k
    BY <1>3, <1>4
  <2>2. k \in DOMAIN table /\ Rank(table, k) = k
    BY <1>3, <1>4
  <2> QED
    BY <2>1, <2>2
<1>7. \A k \in 1..n : new[k] = table[k]
  BY <1>3, <1>6
<1>8. new = [k \in 1..n |-> new[k]]
  BY <1>3, <1>7
<1>9. IsSeq(new) /\ Len(new) = n
  <2> HIDE DEF new
  <2> QED
    BY <1>8, ArrayIsSeq
<1>10. /\ parent.parts = parts /\ parent.count = n
       /\ parent.offset = vols[c].offset /\ parent.length = vols[c].length /\ parent.sector = vols[c].sector
  <2>1. IsVolume(vols[c])
    BY <1>2 DEF AllFilled, Filled
  <2> HIDE DEF parts, count
  <2> QED
    BY <1>3, <2>1, ParentIs
<1> HIDE DEF parent, new, count
<1>11. /\ IsSeq(older) /\ Len(older) = L
       /\ older[c] = parent /\ \A k \in 1..L : k # c => older[k] = vols[k]
  <2>1. Replaces(older, vols, c, parent)
    BY DEF Replaces
  <2> HIDE DEF older
  <2> QED
    BY <1>2, <2>1, Replaced
<1> HIDE DEF older
<1>12. /\ Len(older \o new) = L + n
       /\ \A k \in 1..L + n : (older \o new)[k] = IF k <= L THEN older[k] ELSE new[k - L]
  BY <1>9, <1>11, Concatenated
<1>13. \A k \in 1..L : w[k] = older[k]
  <2> TAKE k \in 1..L
  <2>1. k \in 1..L + n /\ k <= L
    BY <1>2
  <2> QED
    BY <1>1, <1>12, <2>1
<1>14. \A k \in 1..n : w[L + k] = new[k]
  <2> TAKE k \in 1..n
  <2>1. L + k \in 1..L + n /\ ~(L + k <= L) /\ (L + k) - L = k
    BY <1>2
  <2> QED
    BY <1>1, <1>12, <2>1
<1>15. DOMAIN parts = 1..n /\ \A i \in 1..n : parts[i] = L + i
  BY <1>5
<1> HIDE DEF parts
<1>16. /\ w[c].parts = parts /\ w[c].count = n
       /\ w[c].offset = vols[c].offset /\ w[c].length = vols[c].length /\ w[c].sector = vols[c].sector
  BY <1>2, <1>10, <1>11, <1>13
<1>17. (\A k \in 1..L : k # c => w[k] = vols[k]) /\ \A k \in 1..n : w[L + k] = table[k]
  BY <1>7, <1>11, <1>13, <1>14
<1>18. Len(w) = L + n
  BY <1>1, <1>12
<1> HIDE DEF older, new
<1> QED
  BY <1>0, <1>w, <1>15, <1>16, <1>17, <1>18 DEF GrownBy

\* Nothing is linked or unlinked.
LEMMA LinkedStays ==
  ASSUME Linked, Len(vols') = Len(vols),
         \A n \in 1..Len(vols) : vols'[n].parts = vols[n].parts /\ vols'[n].count = vols[n].count
  PROVE  Linked'
<1>1. \A n \in 2..Len(vols) : n \in 1..Len(vols)
  OBVIOUS
<1> QED
  BY <1>1 DEF Linked

\* A table is linked under a volume that has no partitions.
LEMMA TableIsLinked ==
  ASSUME AllFilled, Linked, NEW n \in Nat, NEW table, Fresh(table, n), n <= Available,
         NEW c \in 1..Len(vols), c = Current.vol, DOMAIN vols[c].parts = {},
         vols' = WithPartitions(table)
  PROVE  /\ Linked' /\ Len(vols') = Len(vols) + n
         /\ DOMAIN vols'[c].parts = 1..n /\ \A i \in 1..n : vols'[c].parts[i] = Len(vols) + i
         /\ \A k \in 1..Len(vols) : k # c => vols'[k] = vols[k]
         /\ \A k \in 1..Len(vols) : vols'[k].offset = vols[k].offset /\ vols'[k].length = vols[k].length
         /\ \A i \in 1..n : vols'[Len(vols) + i] = table[i] /\ DOMAIN table[i].parts = {}
<1>0. PICK w : w = vols' /\ w = WithPartitions(table)
  OBVIOUS
<1>a. c \in 1..Len(vols) /\ n \in Nat
  OBVIOUS
<1>1. /\ Len(w) = Len(vols) + n
      /\ w[c].offset = vols[c].offset /\ w[c].length = vols[c].length
      /\ DOMAIN w[c].parts = 1..n /\ w[c].count = n
      /\ \A i \in 1..n : w[c].parts[i] = Len(vols) + i
      /\ \A k \in 1..Len(vols) : k # c => w[k] = vols[k]
      /\ \A k \in 1..n : w[Len(vols) + k] = table[k]
  <2>1. GrownBy(WithPartitions(table), table, n)
    BY LinkIs
  <2>2. GrownBy(w, table, n)
    BY <1>0, <2>1
  <2> QED
    BY <2>2 DEF GrownBy
<1> DEFINE L == Len(vols)
<1>2. L \in Nat /\ n <= MaxDescriptors /\ L >= 1
  BY DescriptorsAssumption, SeqIs DEF AllFilled, Available
<1>3. \A i \in 1..n : DOMAIN table[i].parts = {} /\ table[i].count = 0
  <2>1. DOMAIN <<>> = {}
    OBVIOUS
  <2> QED
    BY <2>1 DEF Fresh
<1>4. DOMAIN w[c].parts = 1..n /\ (\A i \in 1..n : w[c].parts[i] = L + i) /\ 1..0 = {}
  BY <1>1
<1>5. \A k \in 1..L + n : k > L => k - L \in 1..n /\ w[k] = table[k - L] /\ DOMAIN w[k].parts = {} /\ w[k].count = 0
  <2> TAKE k \in 1..L + n
  <2> HAVE k > L
  <2>1. PICK m \in 1..n : m = k - L
    BY <1>2
  <2>2. L + m = k
    BY <1>2, <2>1
  <2>3. w[L + m] = table[m]
    BY <1>1
  <2> QED
    BY <1>3, <2>1, <2>2, <2>3
<1>6. \A k \in 1..L + n : k \in 1..L \/ k > L
  BY <1>2
<1>7. \A k \in 1..L + n : \A s \in DOMAIN w[k].parts :
        \/ k = c /\ s \in 1..n /\ w[k].parts[s] = L + s
        \/ k # c /\ k \in 1..L /\ w[k] = vols[k] /\ s \in DOMAIN vols[k].parts /\ w[k].parts[s] = vols[k].parts[s] /\ w[k].parts[s] \in 1..L
  <2> TAKE k \in 1..L + n
  <2> TAKE s \in DOMAIN w[k].parts
  <2>1. CASE k = c
    BY <1>4, <2>1
  <2>2. CASE k # c
    <3>1. k \in 1..L
      BY <1>5, <1>6
    <3>2. w[k] = vols[k]
      BY <1>1, <2>2, <3>1
    <3>3. Filled(vols[k], L)
      BY <3>1 DEF AllFilled
    <3> QED
      BY <2>2, <3>1, <3>2, <3>3 DEF Filled
  <2> QED
    BY <2>1, <2>2
<1>8. \A v \in 1..L + n : DOMAIN w[v].parts = 1..w[v].count /\ w[v].count <= MaxDescriptors
  <2> TAKE v \in 1..L + n
  <2>1. CASE v = c
    BY <1>1, <1>2, <1>4, <2>1
  <2>2. CASE v # c /\ v \in 1..L
    BY <1>1, <2>2 DEF Linked
  <2>3. CASE v > L
    <3>1. DOMAIN w[v].parts = {} /\ w[v].count = 0
      BY <1>5, <2>3
    <3> QED
      BY <1>4, <3>1, DescriptorsAssumption
  <2> QED
    BY <1>6, <2>1, <2>2, <2>3
<1>9. \A v \in 1..L + n : \A s \in DOMAIN w[v].parts : v < w[v].parts[s]
  <2> TAKE v \in 1..L + n
  <2> TAKE s \in DOMAIN w[v].parts
  <2>1. CASE v = c /\ s \in 1..n /\ w[v].parts[s] = L + s
    BY <1>2, <2>1
  <2>2. CASE v \in 1..L /\ s \in DOMAIN vols[v].parts /\ w[v].parts[s] = vols[v].parts[s]
    BY <2>2 DEF Linked
  <2> QED
    BY <1>7, <2>1, <2>2
<1>10. \A u, v \in 1..L + n : \A s \in DOMAIN w[u].parts, t \in DOMAIN w[v].parts :
         w[u].parts[s] = w[v].parts[t] => u = v /\ s = t
  <2> SUFFICES ASSUME NEW u \in 1..L + n, NEW v \in 1..L + n, NEW s \in DOMAIN w[u].parts, NEW t \in DOMAIN w[v].parts,
                      w[u].parts[s] = w[v].parts[t]
               PROVE  u = v /\ s = t
    OBVIOUS
  <2>1. CASE u = c /\ v = c
    BY <1>2, <1>7, <2>1
  <2>2. CASE u # c /\ v # c
    <3>1. /\ u \in 1..L /\ s \in DOMAIN vols[u].parts /\ w[u].parts[s] = vols[u].parts[s]
          /\ v \in 1..L /\ t \in DOMAIN vols[v].parts /\ w[v].parts[t] = vols[v].parts[t]
      BY <1>7, <2>2
    <3>2. \A m, k \in 1..Len(vols) : \A i \in DOMAIN vols[m].parts, j \in DOMAIN vols[k].parts :
            vols[m].parts[i] = vols[k].parts[j] => m = k /\ i = j
      BY DEF Linked
    <3>3. vols[u].parts[s] = vols[v].parts[t]
      BY <3>1
    <3> QED
      BY <3>1, <3>2, <3>3
  <2>3. CASE u = c /\ v # c
    <3>1. s \in 1..n /\ w[u].parts[s] = L + s /\ w[v].parts[t] \in 1..L
      BY <1>7, <2>3
    <3> QED
      BY <1>2, <3>1
  <2>4. CASE u # c /\ v = c
    <3>1. t \in 1..n /\ w[v].parts[t] = L + t /\ w[u].parts[s] \in 1..L
      BY <1>7, <2>4
    <3> QED
      BY <1>2, <3>1
  <2> QED
    BY <2>1, <2>2, <2>3, <2>4
<1>11. \A v \in 2..L + n : \E u \in 1..L + n : \E s \in DOMAIN w[u].parts : w[u].parts[s] = v
  <2> TAKE v \in 2..L + n
  <2>1. CASE v \in 2..L
    <3>1. PICK u \in 1..L : \E s \in DOMAIN vols[u].parts : vols[u].parts[s] = v
      BY <2>1 DEF Linked
    <3>2. u # c
      BY <3>1
    <3>3. w[u] = vols[u] /\ u \in 1..L + n
      BY <1>1, <1>2, <3>1, <3>2
    <3> QED
      BY <3>1, <3>3
  <2>2. CASE v > L
    <3>1. PICK m \in 1..n : m = v - L
      BY <1>2, <2>2
    <3>2. w[c].parts[m] = L + m /\ m \in DOMAIN w[c].parts
      BY <1>4
    <3>3. L + m = v /\ c \in 1..L + n
      BY <1>2, <3>1
    <3> QED
      BY <3>2, <3>3
  <2> QED
    BY <1>2, <2>1, <2>2
<1>12. Linked'
  BY <1>0, <1>1, <1>8, <1>9, <1>10, <1>11 DEF Linked
<1>13. \A k \in 1..L : w[k].offset = vols[k].offset /\ w[k].length = vols[k].length
  BY <1>1
<1> QED
  BY <1>0, <1>1, <1>3, <1>12, <1>13

\* A step that neither links a partition nor goes on to one.
LEMMA LoadingStays ==
  ASSUME AllFilled, Loading, phase \in {"load", "table"}, GoodCalls(calls, Len(vols), 1..5), calls # <<>>,
         Len(vols') = Len(vols), \A n \in 1..Len(vols) : vols'[n].parts = vols[n].parts,
         Len(calls') = Len(calls),
         \A n \in 1..Len(calls) : calls'[n].vol = calls[n].vol /\ calls'[n].next = calls[n].next,
         \A n \in 1..Len(calls) - 1 : calls'[n].step = calls[n].step,
         Current'.step < 5 => Current.step < 5, phase' = "table" => Current'.step < 5
  PROVE  Loading'
<1>1. /\ Len(calls) \in Nat \ {0} /\ Current = calls[Len(calls)]
      /\ \A n \in 1..Len(calls) : calls[n] \in Calls /\ calls[n].vol \in 1..Len(vols)
  BY CallsFront DEF GoodCalls
<1>2. Current' = calls'[Len(calls)]
  BY DEF Current, Last
<1>3. \A l, m \in 1..Len(calls') : l < m => calls'[l].vol < calls'[m].vol /\ calls'[l].step = 5
  <2> TAKE l, m \in 1..Len(calls')
  <2> HAVE l < m
  <2>1. l \in 1..Len(calls) - 1 /\ l \in 1..Len(calls) /\ m \in 1..Len(calls)
    BY <1>1
  <2>2. calls[l].vol < calls[m].vol /\ calls[l].step = 5
    BY <2>1 DEF Loading
  <2> QED
    BY <2>1, <2>2
<1>4. Current'.vol = Current.vol /\ Current'.next = Current.next /\ Current.vol \in 1..Len(vols)
  BY <1>1, <1>2
<1>5. Current'.step < 5 => Current'.next = 1 /\ DOMAIN Volume'.parts = {}
  BY <1>4 DEF Loading, Volume
<1>6. \A l \in 1..Len(calls') : \A v \in Waiting(calls[l])' : Unloaded(v)'
  <2> SUFFICES ASSUME NEW l \in 1..Len(calls), NEW v \in Waiting(calls[l])' PROVE Unloaded(v)'
    OBVIOUS
  <2>1. calls'[l].vol = calls[l].vol /\ calls'[l].next = calls[l].next /\ calls[l].vol \in 1..Len(vols)
    BY <1>1
  <2>2. v \in Waiting(calls[l])
    BY <2>1 DEF Waiting
  <2>3. Unloaded(v)
    BY <2>2 DEF Loading
  <2>4. v \in 1..Len(vols)
    <3>1. PICK s \in DOMAIN vols[calls[l].vol].parts : v = vols[calls[l].vol].parts[s]
      BY <2>2 DEF Waiting
    <3> QED
      BY <2>1, <3>1 DEF AllFilled, Filled
  <2> QED
    BY <2>3, <2>4 DEF Unloaded
<1> QED
  BY <1>3, <1>5, <1>6 DEF Loading

\* A partition that waits is one of the volumes, and newer than the one it is in.
LEMMA WaitingIs ==
  ASSUME AllFilled, Linked, NEW call, call.vol \in 1..Len(vols), NEW v \in Waiting(call)
  PROVE  /\ v \in 1..Len(vols) /\ call.vol < v
         /\ \E s \in DOMAIN vols[call.vol].parts : call.next <= s /\ v = vols[call.vol].parts[s]
<1>1. PICK s \in DOMAIN vols[call.vol].parts : call.next <= s /\ v = vols[call.vol].parts[s]
  BY DEF Waiting
<1>2. v \in 1..Len(vols) /\ call.vol < v
  BY <1>1 DEF AllFilled, Filled, Linked
<1> QED
  BY <1>1, <1>2

\* New partitions wait for the loop of the volume they are in.
LEMMA LinkLoading ==
  ASSUME AllFilled, Linked, Stack, Loading, phase = "table",
         NEW n \in Nat, NEW table, Fresh(table, n), n <= Available,
         vols' = WithPartitions(table), calls' = WithCurrent([Current EXCEPT !.step = 5]), phase' = "load"
  PROVE  Linked' /\ Loading'
<1> DEFINE L == Len(vols)
           N == Len(calls)
<1>1. GoodCalls(calls, L, 1..5) /\ calls # <<>>
  BY DEF Stack
<1>2. /\ N \in Nat \ {0} /\ Current = calls[N]
      /\ \A l \in 1..N : calls[l] \in Calls /\ calls[l].vol \in 1..L
  BY <1>1, CallsFront DEF GoodCalls
<1>3. PICK c \in 1..L : c = Current.vol /\ c = calls[N].vol
  BY <1>2
<1>4. Current.step < 5 /\ Current.next = 1 /\ DOMAIN vols[c].parts = {}
  BY <1>3 DEF Loading, Volume
<1>5. /\ Linked' /\ Len(vols') = L + n /\ L \in Nat
      /\ DOMAIN vols'[c].parts = 1..n /\ \A i \in 1..n : vols'[c].parts[i] = L + i
      /\ \A k \in 1..L : k # c => vols'[k] = vols[k]
      /\ \A i \in 1..n : vols'[L + i] = table[i] /\ DOMAIN table[i].parts = {}
  BY <1>3, <1>4, TableIsLinked, SeqIs DEF AllFilled
<1> DEFINE top == [Current EXCEPT !.step = 5]
<1>6. /\ Len(calls') = N /\ calls'[N].vol = c /\ calls'[N].step = 5
      /\ \A l \in 1..N - 1 : calls'[l] = calls[l]
  <2>1. Current \in Calls /\ 5 \in 0..5
    BY <1>2
  <2>a. top \in Calls /\ top.vol = Current.vol /\ top.step = 5
    BY <2>1, StepSet
  <2>2. top \in Calls /\ top.vol = c /\ top.step = 5
    BY <1>3, <2>a
  <2> HIDE DEF top
  <2>3. /\ Len(WithCurrent(top)) = N /\ WithCurrent(top)[N] = top
        /\ \A l \in 1..N - 1 : WithCurrent(top)[l] = calls[l]
    BY <1>1, <2>2, CallsWithCurrent
  <2> QED
    BY <2>2, <2>3 DEF top
<1> HIDE DEF top
<1>7. \A l \in 1..N : calls'[l].vol = calls[l].vol
  <2> TAKE l \in 1..N
  <2>1. l = N \/ l \in 1..N - 1
    BY <1>2
  <2> QED
    BY <1>3, <1>6, <2>1
<1>8. Current' = calls'[N]
  BY <1>6 DEF Current, Last
<1>9. \A l, m \in 1..N : l < m => calls'[l].vol < calls'[m].vol /\ calls'[l].step = 5
  <2> TAKE l, m \in 1..N
  <2> HAVE l < m
  <2>1. l \in 1..N - 1
    BY <1>2
  <2>2. calls[l].vol < calls[m].vol /\ calls[l].step = 5
    BY DEF Loading
  <2> QED
    BY <1>6, <1>7, <2>1, <2>2
<1>10. ASSUME NEW l \in 1..N, NEW v \in Waiting(calls[l])'
       PROVE  DOMAIN vols'[v].parts = {} /\ \A m \in 1..N : calls[m].vol # v
  <2>1. CASE l = N
    <3>1. PICK s \in 1..n : v = vols'[c].parts[s]
      BY <1>5, <1>6, <2>1 DEF Waiting
    <3>2. v = L + s /\ DOMAIN vols'[v].parts = {}
      BY <1>5, <3>1
    <3> QED
      BY <1>2, <1>5, <3>2
  <2>2. CASE l # N
    <3>1. l \in 1..N - 1 /\ l < N /\ N \in 1..N
      BY <1>2, <2>2
    <3>2. calls[l].vol < calls[N].vol
      BY <3>1 DEF Loading
    <3>3. calls[l].vol \in 1..L /\ calls[l].vol # c
      BY <1>2, <1>3, <3>2
    <3>4. vols'[calls[l].vol] = vols[calls[l].vol] /\ calls'[l] = calls[l]
      BY <1>5, <1>6, <3>1, <3>3
    <3>5. v \in Waiting(calls[l])
      BY <3>4 DEF Waiting
    <3>6. Unloaded(v) /\ v \in 1..L
      BY <3>3, <3>5, WaitingIs DEF Loading
    <3>7. v # c
      BY <1>3, <3>1, <3>6 DEF Unloaded
    <3>8. vols'[v] = vols[v]
      BY <1>5, <3>6, <3>7
    <3> QED
      BY <3>6, <3>8 DEF Unloaded
  <2> QED
    BY <2>1, <2>2
<1>11. \A l \in 1..N : \A v \in Waiting(calls[l])' : Unloaded(v)'
  BY <1>6, <1>7, <1>10 DEF Unloaded
<1>12. ~(Current'.step < 5)
  BY <1>6, <1>8
<1>13. Loading'
  BY <1>6, <1>9, <1>11, <1>12 DEF Loading
<1> QED
  BY <1>5, <1>13

\* The loop goes on, and with a nested map there is one call more.
LEMMA NestLoading ==
  ASSUME AllFilled, Linked, Stack, Loading, Nest
  PROVE  Loading'
<1> DEFINE N == Len(calls)
<1>1. /\ phase = "load" /\ phase' = "load" /\ vols' = vols /\ Current.step = 5
      /\ \/ Slot # 0 /\ calls' = Append(WithCurrent(Advanced), LoadCall(Slot))
         \/ calls' = WithCurrent(Advanced)
  BY DEF Nest
<1>2. GoodCalls(calls, Len(vols), 1..5) /\ calls # <<>>
  BY <1>1 DEF Stack
<1>3. /\ N \in Nat \ {0} /\ Current = calls[N]
      /\ \A l \in 1..N : calls[l] \in Calls /\ calls[l].vol \in 1..Len(vols)
  BY <1>2, CallsFront DEF GoodCalls
<1>4. /\ Advanced \in Calls /\ Advanced.vol = Current.vol /\ Advanced.step = 5
      /\ Advanced.next = Current.next + 1 /\ Current.next \in Nat
  BY <1>1, <1>3, AdvancedCall, CallIs
<1>5. PICK s : s = WithCurrent(Advanced)
  OBVIOUS
<1>6. /\ s \in Seq(Calls) /\ Len(s) = N /\ s[N] = Advanced
      /\ \A l \in 1..N - 1 : s[l] = calls[l]
  BY <1>2, <1>4, <1>5, CallsWithCurrent
<1>7. \A l \in 1..N : s[l].vol = calls[l].vol /\ s[l].step = calls[l].step /\ calls[l].next <= s[l].next
  <2> TAKE l \in 1..N
  <2>1. CASE l = N
    BY <1>1, <1>3, <1>4, <1>6, <2>1
  <2>2. CASE l # N
    <3>1. l \in 1..N - 1 /\ calls[l].next \in Nat
      BY <1>3, <2>2, CallIs
    <3> QED
      BY <1>6, <3>1
  <2> QED
    BY <2>1, <2>2
<1>8. \A l, m \in 1..N : l < m => s[l].vol < s[m].vol /\ s[l].step = 5
  BY <1>1, <1>7 DEF Loading
<1>9. ASSUME NEW l \in 1..N, NEW v \in Waiting(s[l])
      PROVE  /\ v \in Waiting(calls[l])
             /\ Slot # 0 => v # Slot
  <2>1. calls[l].vol \in 1..Len(vols) /\ s[l].vol = calls[l].vol /\ calls[l].next <= s[l].next
    BY <1>3, <1>7
  <2>2. PICK t \in DOMAIN vols[calls[l].vol].parts : s[l].next <= t /\ v = vols[calls[l].vol].parts[t]
    BY <2>1 DEF Waiting
  <2>3. t \in Nat /\ s[l].next \in Nat /\ calls[l].next \in Nat
    <3>1. t \in 1..vols[calls[l].vol].count
      BY <2>1, <2>2 DEF Linked
    <3>2. s[l] \in Calls
      <4> HIDE DEF Calls
      <4> QED
        BY <1>6, ElementOfSeq
    <3> QED
      BY <1>3, <3>1, <3>2, CallIs
  <2>4. calls[l].next <= t
    BY <2>1, <2>2, <2>3
  <2>5. v \in Waiting(calls[l])
    BY <2>2, <2>4 DEF Waiting
  <2>6. ASSUME Slot # 0, v = Slot PROVE FALSE
    <3>1. Current.next \in DOMAIN Volume.parts /\ Slot = vols[Current.vol].parts[Current.next]
      BY <2>6 DEF Slot, Volume
    <3>2. Current.vol \in 1..Len(vols) /\ Current.next \in DOMAIN vols[Current.vol].parts
      BY <1>3, <3>1 DEF Volume
    <3>3. \A m, k \in 1..Len(vols) : \A i \in DOMAIN vols[m].parts, j \in DOMAIN vols[k].parts :
            vols[m].parts[i] = vols[k].parts[j] => m = k /\ i = j
      BY DEF Linked
    <3>4. calls[l].vol = Current.vol /\ t = Current.next
      BY <2>1, <2>2, <2>6, <3>1, <3>2, <3>3
    <3>5. l = N
      <4>1. N \in 1..N /\ (l < N => calls[l].vol < calls[N].vol)
        BY <1>1, <1>3 DEF Loading
      <4> QED
        BY <1>3, <2>1, <3>4, <4>1
    <3>6. s[l].next = t + 1
      BY <1>4, <1>6, <3>4, <3>5
    <3> QED
      BY <2>2, <2>3, <3>6
  <2> QED
    BY <2>5, <2>6
<1>10. \A l \in 1..N : \A v \in Waiting(s[l]) : Unloaded(v) /\ (Slot # 0 => v # Slot)
  BY <1>1, <1>9 DEF Loading
<1>11. CASE calls' = s
  <2>1. Current' = s[N]
    BY <1>6, <1>11 DEF Current, Last
  <2>2. ~(Current'.step < 5)
    BY <1>4, <1>6, <2>1
  <2>3. \A l \in 1..N : \A v \in Waiting(calls[l])' : Unloaded(v)'
    <3> SUFFICES ASSUME NEW l \in 1..N, NEW v \in Waiting(calls[l])' PROVE Unloaded(v)'
      OBVIOUS
    <3>1. v \in Waiting(s[l])
      BY <1>1, <1>11 DEF Waiting
    <3> QED
      BY <1>1, <1>6, <1>7, <1>10, <1>11, <3>1 DEF Unloaded
  <2> QED
    BY <1>1, <1>6, <1>8, <1>11, <2>2, <2>3 DEF Loading
<1>12. CASE Slot # 0 /\ calls' = Append(s, LoadCall(Slot))
  <2>1. Current.vol \in 1..Len(vols) /\ Len(vols) \in Nat
    BY <1>3, SeqIs DEF AllFilled
  <2>2. PICK u \in 1..Len(vols) : u = Slot
    BY <1>12, <2>1, SlotIs
  <2>3. Current.next \in DOMAIN vols[Current.vol].parts /\ u = vols[Current.vol].parts[Current.next]
    BY <1>12, <2>2 DEF Slot, Volume
  <2>4. Unloaded(u) /\ Current.vol < u
    <3>1. Current.next <= Current.next
      BY <1>4
    <3>2. u \in Waiting(Current)
      BY <2>3, <3>1 DEF Waiting
    <3>3. N \in 1..N
      BY <1>3
    <3>4. Unloaded(u)
      BY <1>1, <1>3, <3>2, <3>3 DEF Loading
    <3> QED
      BY <2>1, <2>3, <3>4 DEF Linked
  <2> DEFINE top == LoadCall(u)
  <2>5. top \in Calls /\ top.vol = u /\ top.step = 1 /\ top.next = 1
    <3>1. top.next = 1
      BY DEF LoadCall
    <3> QED
      BY <2>1, <2>2, <3>1, NewCallIs
  <2> HIDE DEF top
  <2>6. calls' = Append(s, top)
    BY <1>12, <2>2 DEF top
  <2>7. /\ Len(calls') = N + 1 /\ calls'[N + 1] = top
        /\ \A l \in 1..N : calls'[l] = s[l]
    BY <1>6, <2>5, <2>6, CallsAppended
  <2>8. Current' = top
    BY <2>7 DEF Current, Last
  <2>9. \A l \in 1..N + 1 : l \in 1..N \/ l = N + 1
    BY <1>3
  <2>10. \A l \in 1..N : calls'[l].vol <= Current.vol
    <3> TAKE l \in 1..N
    <3>1. N \in 1..N /\ (l < N => calls[l].vol < calls[N].vol)
      BY <1>1, <1>3 DEF Loading
    <3>2. calls'[l].vol = calls[l].vol
      BY <1>7, <2>7
    <3> QED
      BY <1>3, <3>1, <3>2
  <2>11. \A l, m \in 1..N + 1 : l < m => calls'[l].vol < calls'[m].vol /\ calls'[l].step = 5
    <3> TAKE l, m \in 1..N + 1
    <3> HAVE l < m
    <3>1. l \in 1..N
      BY <1>3
    <3>2. CASE m \in 1..N
      BY <1>8, <2>7, <3>1, <3>2
    <3>3. CASE m = N + 1
      <4>1. calls'[l].vol \in 1..Len(vols) /\ calls'[m].vol = u
        BY <1>3, <1>7, <2>5, <2>7, <3>1, <3>3
      <4>2. calls'[l].step = 5
        <5>1. l = N \/ (l < N /\ N \in 1..N)
          BY <1>3, <3>1
        <5>2. s[l].step = 5
          BY <1>4, <1>6, <1>8, <3>1, <5>1
        <5> QED
          BY <2>7, <3>1, <5>2
      <4> QED
        BY <2>1, <2>4, <2>10, <3>1, <4>1, <4>2
    <3> QED
      BY <2>9, <3>2, <3>3
  <2>12. Current'.next = 1 /\ DOMAIN Volume'.parts = {}
    BY <1>1, <2>4, <2>5, <2>8 DEF Volume, Unloaded
  <2>13. ASSUME NEW l \in 1..N + 1, NEW v \in Waiting(calls[l])' PROVE Unloaded(v)'
    <3>1. l \in 1..N
      <4>1. l = N + 1 => DOMAIN vols[u].parts = {} /\ calls'[l].vol = u
        BY <2>4, <2>5, <2>7 DEF Unloaded
      <4>2. l # N + 1
        BY <1>1, <2>13, <4>1 DEF Waiting
      <4> QED
        BY <2>9, <4>2
    <3>2. v \in Waiting(s[l])
      BY <1>1, <2>7, <2>13, <3>1 DEF Waiting
    <3>3. Unloaded(v) /\ v # u
      BY <1>10, <1>12, <2>2, <3>1, <3>2
    <3>4. \A m \in 1..N + 1 : calls'[m].vol # v
      <4> TAKE m \in 1..N + 1
      <4>1. CASE m \in 1..N
        BY <1>7, <2>7, <3>3, <4>1 DEF Unloaded
      <4>2. CASE m = N + 1
        BY <2>5, <2>7, <3>3, <4>2
      <4> QED
        BY <2>9, <4>1, <4>2
    <3> QED
      BY <1>1, <2>7, <3>3, <3>4 DEF Unloaded
  <2> QED
    BY <1>1, <2>7, <2>11, <2>12, <2>13 DEF Loading
<1> QED
  BY <1>1, <1>5, <1>11, <1>12

\* A call ends, and the one below goes on.
LEMMA LoadedLoading ==
  ASSUME AllFilled, Stack, Loading, Loaded
  PROVE  Loading'
<1> DEFINE N == Len(calls)
<1>1. /\ phase = "load" /\ vols' = vols
      /\ N > 1 => calls' = Front(calls) /\ phase' = "load"
      /\ ~(N > 1) => phase' = "find"
  BY DEF Loaded
<1>2. GoodCalls(calls, Len(vols), 1..5) /\ calls # <<>>
  BY <1>1 DEF Stack
<1>3. /\ Len(Front(calls)) = N - 1 /\ N \in Nat \ {0}
      /\ \A l \in 1..N - 1 : Front(calls)[l] = calls[l]
  BY <1>2, CallsFront
<1>4. CASE N > 1
  <2>1. Len(calls') = N - 1 /\ \A l \in 1..N - 1 : calls'[l] = calls[l]
    BY <1>1, <1>3, <1>4
  <2>2. \A l \in 1..N - 1 : l \in 1..N /\ l < N
    BY <1>3
  <2>3. \A l \in 1..N - 1 : calls[l].step = 5
    <3>1. N \in 1..N
      BY <1>3
    <3> QED
      BY <1>1, <2>2, <3>1 DEF Loading
  <2>4. Current' = calls[N - 1] /\ N - 1 \in 1..N - 1
    BY <1>3, <1>4, <2>1 DEF Current, Last
  <2>5. ~(Current'.step < 5)
    BY <2>3, <2>4
  <2>6. \A l, m \in 1..N - 1 : l < m => calls'[l].vol < calls'[m].vol /\ calls'[l].step = 5
    BY <1>1, <2>1, <2>2 DEF Loading
  <2>7. \A l \in 1..N - 1 : \A v \in Waiting(calls[l])' : Unloaded(v)'
    <3> SUFFICES ASSUME NEW l \in 1..N - 1, NEW v \in Waiting(calls[l])' PROVE Unloaded(v)'
      OBVIOUS
    <3>1. v \in Waiting(calls[l])
      BY <1>1, <2>1 DEF Waiting
    <3>2. Unloaded(v)
      BY <1>1, <2>2, <3>1 DEF Loading
    <3> QED
      BY <1>1, <2>1, <2>2, <3>2 DEF Unloaded
  <2> QED
    BY <1>1, <1>4, <2>1, <2>5, <2>6, <2>7 DEF Loading
<1> QED
  BY <1>1, <1>4 DEF Loading

\* Reading a table links as many partitions of it as there are descriptors for,
\* or uses a volume that it did not get.
LinksTable(n, table) ==
  /\ Fresh(table, n) /\ n <= Available
  /\ vols' = WithPartitions(table) /\ calls' = WithCurrent([Current EXCEPT !.step = 5])
  /\ phase' = "load" /\ found' = found
  /\ table = Entries \/ n = Available

\* Load and LoadPart link a table, or crash.
LEMMA TableRead ==
  ASSUME disk \in Disks, Gapless, AllFilled, Stack, Load \/ LoadPart
  PROVE  /\ phase = "table" /\ disk' = disk
         /\ \/ \E n \in Nat : \E table : LinksTable(n, table)
            \/ phase' = "crashed" /\ UNCHANGED <<vols, calls, found>>
<1>1. phase = "table" /\ disk' = disk
  BY DEF Load, LoadPart
<1>2. PICK n \in Nat : Fresh(Entries, n)
  BY <1>1, EntriesAre
<1>3. Cardinality(DOMAIN Entries) = n
  BY <1>2, FS_Interval DEF Fresh
<1>4. CASE Load
  <2>1. /\ phase' = "load" /\ found' = found
        /\ vols' = WithPartitions(Entries) /\ calls' = WithCurrent([Current EXCEPT !.step = 5])
        /\ n <= Available
    BY <1>3, <1>4 DEF Load, Fits
  <2>2. PICK table : table = Entries
    OBVIOUS
  <2>3. LinksTable(n, table)
    BY <1>2, <2>1, <2>2 DEF LinksTable
  <2> QED
    BY <1>1, <2>3
<1>5. CASE LoadPart /\ Scheme = "gpt"
  <2> DEFINE part == [i \in 1..Available |-> Entries[i]]
  <2>1. /\ phase' = "load" /\ vols' = WithPartitions(part) /\ found' = found
        /\ calls' = WithCurrent([Current EXCEPT !.step = 5]) /\ ~(n <= Available)
    BY <1>3, <1>5 DEF LoadPart, Fits
  <2>2. Available \in Nat
    BY DescriptorsAssumption DEF AllFilled, Available
  <2>3. \A i \in 1..Available : i \in 1..n
    BY <2>1, <2>2
  <2>4. Fresh(part, Available)
    <3>1. DOMAIN part = 1..Available /\ \A i \in 1..Available : part[i] = Entries[i]
      OBVIOUS
    <3> HIDE DEF part
    <3> QED
      BY <1>2, <2>3, <3>1 DEF Fresh
  <2>5. PICK table : table = part
    OBVIOUS
  <2>6. PICK m \in Nat : m = Available
    BY <2>2
  <2>7. Fresh(table, m) /\ m <= Available /\ vols' = WithPartitions(table)
    BY <2>1, <2>4, <2>5, <2>6
  <2> HIDE DEF part
  <2>8. LinksTable(m, table)
    BY <2>1, <2>6, <2>7 DEF LinksTable
  <2> QED
    BY <1>1, <2>8
<1>6. CASE LoadPart /\ Scheme # "gpt"
  BY <1>1, <1>6 DEF LoadPart
<1> QED
  BY <1>1, <1>4, <1>5, <1>6

\* A test makes no volume and leaves the loop where it is.
LEMMA TestLoading ==
  ASSUME AllFilled, Linked, Stack, Loading, NextScheme \/ Detect
  PROVE  Linked' /\ Loading'
<1> DEFINE N == Len(calls)
<1>1. /\ phase = "load" /\ Current.step < 5
      /\ vols' = [vols EXCEPT ![Current.vol] = Tested(@, Scheme)]
  BY DEF NextScheme, Detect
<1>2. GoodCalls(calls, Len(vols), 1..5) /\ calls # <<>>
  BY <1>1 DEF Stack
<1>a. Current \in Calls /\ Current.vol \in 1..Len(vols)
  BY <1>2, TopOfCalls
<1>3. /\ N \in Nat \ {0} /\ Current = calls[N] /\ Current \in Calls /\ Current.vol \in 1..Len(vols)
      /\ \A l \in 1..N : calls[l] \in Calls
  BY <1>2, <1>a, CallsFront
<1>4. /\ Len(vols') = Len(vols)
      /\ \A n \in 1..Len(vols) : vols'[n].parts = vols[n].parts /\ vols'[n].count = vols[n].count
  <2>1. PICK c \in 1..Len(vols) : c = Current.vol
    BY <1>3
  <2>2. PICK w : w = vols'
    OBVIOUS
  <2>3. w = [vols EXCEPT ![c] = Tested(@, Scheme)]
    BY <1>1, <2>1, <2>2
  <2>4. /\ Len(w) = Len(vols)
        /\ \A n \in 1..Len(vols) : w[n].parts = vols[n].parts /\ w[n].count = vols[n].count
    BY <2>3, TestIs
  <2> QED
    BY <2>2, <2>4
<1>5. Linked'
  BY <1>4, LinkedStays
<1>6. CASE Detect
  <2>1. phase' = "table" /\ calls' = calls
    BY <1>6 DEF Detect
  <2>2. Current' = Current
    BY <2>1 DEF Current
  <2>3. Loading'
    BY <1>1, <1>2, <1>4, <2>1, <2>2, LoadingStays
  <2> QED
    BY <1>5, <2>3
<1>7. CASE NextScheme
  <2> DEFINE top == [Current EXCEPT !.step = Current.step + 1]
  <2>1. phase' = "load" /\ calls' = WithCurrent(top)
    BY <1>1, <1>7 DEF NextScheme
  <2>2. Current.step + 1 \in 0..5
    <3>1. Current.step \in 0..5
      BY <1>3, CallIs
    <3> QED
      BY <1>1, <3>1
  <2>3. top \in Calls /\ top.vol = Current.vol /\ top.next = Current.next
    BY <1>3, <2>2, StepSet
  <2> HIDE DEF top
  <2>4. /\ Len(calls') = N /\ calls'[N] = top
        /\ \A l \in 1..N - 1 : calls'[l] = calls[l]
    BY <1>2, <2>1, <2>3, CallsWithCurrent
  <2>5. \A l \in 1..N : calls'[l].vol = calls[l].vol /\ calls'[l].next = calls[l].next
    <3> TAKE l \in 1..N
    <3>1. l = N \/ l \in 1..N - 1
      BY <1>3
    <3> QED
      BY <1>3, <2>3, <2>4, <3>1
  <2>6. Loading'
    BY <1>1, <1>2, <1>4, <2>1, <2>4, <2>5, LoadingStays
  <2> QED
    BY <1>5, <2>6
<1> QED
  BY <1>6, <1>7

\* The device alone, which is being loaded.
LEMMA TreeInitLoading ==
  ASSUME TreeInit
  PROVE  Linked /\ Loading
<1> DEFINE length == Max(DOMAIN disk) + 1
           device == [ offset |-> 0, length |-> length, sector |-> 1, type |-> "unknown",
                       parts |-> <<>>, count |-> 0 ]
<1>1. vols = <<device>> /\ calls = <<LoadCall(1)>> /\ phase = "load"
  BY DEF TreeInit
<1> HIDE DEF length
<1>2. DOMAIN <<>> = {} /\ 1..0 = {}
  OBVIOUS
<1>3. Len(vols) = 1 /\ DOMAIN vols[1].parts = {} /\ vols[1].count = 0
  BY <1>1, <1>2
<1>4. Len(calls) = 1 /\ calls[1] = LoadCall(1) /\ Current = LoadCall(1)
  BY <1>1 DEF Current, Last
<1>5. LoadCall(1).vol = 1 /\ LoadCall(1).step = 1 /\ LoadCall(1).next = 1
  BY DEF LoadCall
<1>6. \A n \in 1..1 : n = 1
  OBVIOUS
<1>7. Linked
  <2>1. \A n \in 1..Len(vols) : n = 1 /\ DOMAIN vols[n].parts = {} /\ vols[n].count = 0
    BY <1>3, <1>6
  <2>2. \A n \in 2..Len(vols) : FALSE
    BY <1>3
  <2> QED
    <3>1. \A v \in 1..Len(vols) : DOMAIN vols[v].parts = 1..vols[v].count /\ vols[v].count <= MaxDescriptors
      <4> TAKE v \in 1..Len(vols)
      <4>1. vols[v].count = 0 /\ DOMAIN vols[v].parts = {}
        BY <2>1
      <4>2. 1..vols[v].count = {}
        BY <4>1
      <4> QED
        BY <4>1, <4>2, DescriptorsAssumption
    <3> QED
      BY <2>1, <2>2, <3>1 DEF Linked
<1>8. Loading
  <2>1. \A l \in 1..Len(calls) : l = 1 /\ Waiting(calls[l]) = {}
    BY <1>3, <1>4, <1>5, <1>6 DEF Waiting
  <2>2. Volume = vols[1]
    BY <1>4, <1>5 DEF Volume
  <2> QED
    BY <1>1, <1>3, <1>4, <1>5, <2>1, <2>2 DEF Loading
<1> QED
  BY <1>7, <1>8

\* Every volume is loaded once, and the slots of the volumes make a tree, on every
\* disk, whatever its maps contain.
THEOREM LinkedHolds == TreeSpec => [](Gapless => Linked /\ Loading)
<1>1. TreeInit => (Gapless => Linked /\ Loading)
  BY TreeInitLoading
<1>2. TreeInductive /\ (Gapless => Linked /\ Loading) /\ [TreeNext]_treeVars => (Gapless => Linked /\ Loading)'
  <2> SUFFICES ASSUME TreeInductive, Gapless => Linked /\ Loading, [TreeNext]_treeVars, Gapless'
               PROVE  Linked' /\ Loading'
    OBVIOUS
  <2>1. disk' = disk /\ disk \in Disks
    BY DEF TreeInductive, TreeNext, treeVars, NextScheme, Detect, Load, LoadPart, Nest, Loaded, Match,
           NoMatch, Descend, Return, Open, Close
  <2>2. Gapless
    BY <2>1 DEF Gapless
  <2>3. AllFilled /\ Stack /\ Linked /\ Loading
    BY <2>2 DEF TreeInductive
  <2>4. CASE UNCHANGED treeVars
    <3>1. vols' = vols /\ calls' = calls /\ phase' = phase
      BY <2>4 DEF treeVars
    <3>2. Linked'
      BY <2>3, <3>1 DEF Linked
    <3>3. Current' = Current /\ Volume' = Volume
      BY <3>1 DEF Current, Volume
    <3>4. (\A call : Waiting(call)' = Waiting(call)) /\ \A v : Unloaded(v)' <=> Unloaded(v)
      BY <3>1 DEF Waiting, Unloaded
    <3>5. \A l \in 1..Len(calls) : Waiting(calls[l])' = Waiting(calls[l])
      BY <3>1 DEF Waiting
    <3>6. Loading'
      BY <2>3, <3>1, <3>3, <3>4, <3>5 DEF Loading
    <3> QED
      BY <3>2, <3>6
  <2>5. CASE NextScheme \/ Detect
    BY <2>3, <2>5, TestLoading
  <2>6. CASE Load \/ LoadPart
    <3>1. CASE \E n \in Nat : \E table : LinksTable(n, table)
      <4>1. PICK n \in Nat : \E table : LinksTable(n, table)
        BY <3>1
      <4>2. PICK table : LinksTable(n, table)
        BY <4>1
      <4>3. phase = "table"
        BY <2>6 DEF Load, LoadPart
      <4> QED
        BY <2>3, <4>2, <4>3, LinkLoading DEF LinksTable
    <3>2. CASE phase' = "crashed" /\ UNCHANGED <<vols, calls, found>>
      BY <2>3, <3>2 DEF Linked, Loading
    <3> QED
      BY <2>1, <2>2, <2>3, <2>6, <3>1, <3>2, TableRead
  <2>7. CASE Nest
    <3>1. vols' = vols
      BY <2>7 DEF Nest
    <3> QED
      BY <2>3, <2>7, <3>1, NestLoading DEF Linked
  <2>8. CASE Loaded
    <3>1. vols' = vols
      BY <2>8 DEF Loaded
    <3> QED
      BY <2>3, <2>8, <3>1, LoadedLoading DEF Linked
  <2>9. CASE Match \/ NoMatch \/ Descend \/ Return \/ Open \/ Close
    <3>1. vols' = vols /\ phase' \notin {"load", "table"}
      BY <2>9 DEF Match, NoMatch, Descend, Return, Open, Close
    <3> QED
      BY <2>3, <3>1 DEF Linked, Loading
  <2> QED
    BY <2>4, <2>5, <2>6, <2>7, <2>8, <2>9 DEF TreeNext
<1> QED
  BY <1>1, <1>2, TreeInductiveHolds, PTL DEF TreeSpec

\* The volume and the slot a volume is in, as Path finds them.
Up(v) == CHOOSE at \in (1..v - 1) \X (1..MaxDescriptors + 4) :
           at[2] \in DOMAIN vols[at[1]].parts /\ vols[at[1]].parts[at[2]] = v

\* A function is Path up to a volume.
Follows(f, n) == f = [v \in 1..n |-> IF v = 1 THEN <<>> ELSE Append(f[Up(v)[1]], Up(v)[2])]

\* Every volume but the device has a parent, and a slot in it.
LEMMA UpIs ==
  ASSUME AllFilled, Linked, NEW v \in 2..Len(vols)
  PROVE  /\ Up(v)[1] \in 1..v - 1 /\ Up(v)[2] \in Nat \ {0}
         /\ Up(v)[2] \in DOMAIN vols[Up(v)[1]].parts /\ vols[Up(v)[1]].parts[Up(v)[2]] = v
<1> DEFINE S == (1..v - 1) \X (1..MaxDescriptors + 4)
           P(at) == at[2] \in DOMAIN vols[at[1]].parts /\ vols[at[1]].parts[at[2]] = v
<1>1. PICK u \in 1..Len(vols) : \E s \in DOMAIN vols[u].parts : vols[u].parts[s] = v
  BY DEF Linked
<1>2. PICK s \in DOMAIN vols[u].parts : vols[u].parts[s] = v
  BY <1>1
<1>3. u < v /\ s \in 1..vols[u].count /\ vols[u].count <= MaxDescriptors /\ vols[u].count \in Nat
  BY <1>1, <1>2 DEF Linked, AllFilled, Filled
<1>4. <<u, s>> \in S
  BY <1>1, <1>3, DescriptorsAssumption
<1>5. P(<<u, s>>)
  BY <1>2
<1>6. \E at \in S : P(at)
  BY <1>4, <1>5
<1>7. Up(v) = CHOOSE at \in S : P(at)
  BY DEF Up
<1> HIDE DEF S, P
<1>8. Up(v) \in S /\ P(Up(v))
  BY <1>6, <1>7
<1> QED
  BY <1>8 DEF S, P

\* The recursion of Path defines a function.
LEMMA PathExists ==
  ASSUME AllFilled, Linked
  PROVE  \E f : Follows(f, Len(vols))
<1> DEFINE L == Len(vols)
           Fails == {n \in Nat : n <= L /\ ~ \E f : Follows(f, n)}
<1>1. L \in Nat
  BY SeqIs DEF AllFilled
<1>2. CASE Fails = {}
  BY <1>1, <1>2
<1>3. CASE Fails # {}
  <2>1. PICK n \in Fails : \A m \in Fails : n <= m
    <3>1. Fails \subseteq Nat
      OBVIOUS
    <3> HIDE DEF Fails
    <3> QED
      BY <1>3, <3>1, LeastNatural
  <2>2. n \in Nat /\ n <= L /\ ~ \E f : Follows(f, n)
    BY <2>1
  <2>3. CASE n = 0
    <3> DEFINE f == [v \in 1..0 |-> <<>>]
    <3>1. \A v \in 1..0 : FALSE
      OBVIOUS
    <3>2. Follows(f, 0)
      BY <3>1 DEF Follows
    <3> QED
      BY <2>2, <2>3, <3>2
  <2>4. CASE n # 0
    <3>1. n - 1 \in Nat /\ n - 1 <= L /\ ~(n <= n - 1)
      BY <1>1, <2>2, <2>4
    <3>2. PICK f : Follows(f, n - 1)
      BY <2>1, <3>1
    <3>3. \A v \in 1..n - 1 : f[v] = IF v = 1 THEN <<>> ELSE Append(f[Up(v)[1]], Up(v)[2])
      BY <3>2 DEF Follows
    <3> DEFINE more == IF n = 1 THEN <<>> ELSE Append(f[Up(n)[1]], Up(n)[2])
               g == [v \in 1..n |-> IF v = n THEN more ELSE f[v]]
    <3>4. \A v \in 1..n : v # 1 => Up(v)[1] \in 1..n /\ Up(v)[1] # n /\ Up(v)[1] < v
      <4> TAKE v \in 1..n
      <4> HAVE v # 1
      <4>1. v \in 2..Len(vols)
        BY <1>1, <2>2
      <4>2. Up(v)[1] \in 1..v - 1
        BY <4>1, UpIs
      <4> QED
        BY <2>2, <4>2
    <3>5. \A v \in 1..n : g[v] = IF v = 1 THEN <<>> ELSE Append(g[Up(v)[1]], Up(v)[2])
      <4> TAKE v \in 1..n
      <4>1. v # 1 => g[Up(v)[1]] = f[Up(v)[1]]
        BY <3>4
      <4>2. CASE v = n
        <5>1. g[v] = more
          BY <4>2
        <5> HIDE DEF g
        <5> QED
          BY <4>1, <4>2, <5>1
      <4>3. CASE v # n
        <5>1. v \in 1..n - 1
          BY <2>2, <4>3
        <5>2. g[v] = f[v]
          BY <4>3
        <5> HIDE DEF g
        <5> QED
          BY <3>3, <4>1, <5>1, <5>2
      <4> QED
        BY <4>2, <4>3
    <3>6. g = [v \in 1..n |-> g[v]]
      OBVIOUS
    <3> HIDE DEF g
    <3>7. Follows(g, n)
      BY <3>5, <3>6 DEF Follows
    <3> QED
      BY <2>2, <3>7
  <2> QED
    BY <2>3, <2>4
<1> QED
  BY <1>2, <1>3

\* The path of a volume is that of the volume it is in, and its slot.
LEMMA PathIs ==
  ASSUME AllFilled, Linked
  PROVE  /\ Path[1] = <<>>
         /\ \A u \in 1..Len(vols) : \A s \in DOMAIN vols[u].parts :
              /\ vols[u].parts[s] \in 2..Len(vols) /\ s \in Nat \ {0}
              /\ Path[vols[u].parts[s]] = Append(Path[u], s)
         /\ \A v \in 1..Len(vols) : Path[v] \in Seq(Nat \ {0})
<1> DEFINE L == Len(vols)
<1>1. L \in Nat /\ L >= 1 /\ DOMAIN vols = 1..L
  BY SeqIs, DescriptorsAssumption DEF AllFilled
<1>2. Path = CHOOSE f : Follows(f, L)
  BY <1>1, Zenon DEF Path, Follows, Up
<1>3. Follows(Path, L)
  <2>1. \E f : Follows(f, L)
    BY PathExists
  <2> HIDE DEF L
  <2> QED
    BY <1>2, <2>1, Zenon
<1> HIDE DEF Path
<1>4. \A v \in 1..L : Path[v] = IF v = 1 THEN <<>> ELSE Append(Path[Up(v)[1]], Up(v)[2])
  BY <1>3 DEF Follows
<1>5. Path[1] = <<>>
  BY <1>1, <1>4
<1>8. \A v \in 2..L : Path[v] = Append(Path[Up(v)[1]], Up(v)[2])
  <2> TAKE v \in 2..L
  <2>1. v \in 1..L /\ v # 1
    BY <1>1
  <2>2. PICK w : w = Append(Path[Up(v)[1]], Up(v)[2])
    OBVIOUS
  <2>3. Path[v] = IF v = 1 THEN <<>> ELSE w
    BY <1>4, <2>1, <2>2, Zenon
  <2> QED
    BY <2>1, <2>2, <2>3
<1>6. ASSUME NEW u \in 1..L, NEW s \in DOMAIN vols[u].parts
      PROVE  /\ vols[u].parts[s] \in 2..L /\ s \in Nat \ {0}
             /\ Path[vols[u].parts[s]] = Append(Path[u], s)
  <2>1. PICK v : v = vols[u].parts[s]
    OBVIOUS
  <2>2. v \in 1..L /\ u < v /\ s \in 1..vols[u].count
    BY <2>1 DEF AllFilled, Filled, Linked
  <2>3. v \in 2..L /\ s \in Nat \ {0}
    BY <1>1, <2>2
  <2>4. /\ Up(v)[1] \in 1..v - 1 /\ Up(v)[2] \in DOMAIN vols[Up(v)[1]].parts
        /\ vols[Up(v)[1]].parts[Up(v)[2]] = v
    BY <2>3, UpIs
  <2>5. Up(v)[1] \in 1..L
    BY <2>3, <2>4
  <2>6. \A m, k \in 1..Len(vols) : \A i \in DOMAIN vols[m].parts, j \in DOMAIN vols[k].parts :
          vols[m].parts[i] = vols[k].parts[j] => m = k /\ i = j
    BY DEF Linked
  <2>7. Up(v)[1] = u /\ Up(v)[2] = s
    BY <2>1, <2>4, <2>5, <2>6
  <2> QED
    BY <1>8, <2>1, <2>3, <2>7
<1>7. \A v \in 1..L : Path[v] \in Seq(Nat \ {0})
  <2> DEFINE T == {v \in 1..L : ~(Path[v] \in Seq(Nat \ {0}))}
  <2>1. CASE T = {}
    BY <2>1
  <2>2. CASE T # {}
    <3>1. PICK v \in T : \A w \in T : v <= w
      <4>1. T \subseteq Nat
        OBVIOUS
      <4> HIDE DEF T
      <4> QED
        BY <2>2, <4>1, LeastNatural
    <3>2. v \in 2..L
      <4>1. <<>> \in Seq(Nat \ {0})
        BY EmptySeq
      <4>2. v \in 1..L /\ v # 1
        BY <1>5, <3>1, <4>1
      <4> QED
        BY <1>1, <4>2
    <3>3. Up(v)[1] \in 1..v - 1 /\ Up(v)[2] \in Nat \ {0}
      BY <3>2, UpIs
    <3>4. Up(v)[1] \in 1..L /\ ~(v <= Up(v)[1])
      BY <3>2, <3>3
    <3>5. Path[Up(v)[1]] \in Seq(Nat \ {0})
      BY <3>1, <3>4
    <3>6. Append(Path[Up(v)[1]], Up(v)[2]) \in Seq(Nat \ {0})
      BY <3>3, <3>5, AppendProperties
    <3>7. Path[v] = Append(Path[Up(v)[1]], Up(v)[2])
      BY <1>8, <3>2
    <3> QED
      BY <3>1, <3>6, <3>7
  <2> QED
    BY <2>1, <2>2
<1> QED
  BY <1>5, <1>6, <1>7

\* Every volume but the device is in another.
LEMMA ParentOf ==
  ASSUME AllFilled, Linked, NEW v \in 2..Len(vols)
  PROVE  \E u \in 1..Len(vols) : \E s \in DOMAIN vols[u].parts :
           /\ vols[u].parts[s] = v /\ u < v /\ s \in Nat \ {0}
           /\ Path[v] = Append(Path[u], s)
           /\ Len(Path[v]) = Len(Path[u]) + 1 /\ Path[v][Len(Path[v])] = s
           /\ \A j \in 1..Len(Path[u]) : Path[v][j] = Path[u][j]
<1>1. PICK u \in 1..Len(vols) : \E s \in DOMAIN vols[u].parts : vols[u].parts[s] = v
  BY DEF Linked
<1>2. PICK s \in DOMAIN vols[u].parts : vols[u].parts[s] = v
  BY <1>1
<1>3. u < v /\ s \in Nat \ {0} /\ Path[v] = Append(Path[u], s) /\ Path[u] \in Seq(Nat \ {0})
  BY <1>2, PathIs DEF Linked
<1>4. PICK p : p = Path[u]
  OBVIOUS
<1>5. /\ Len(Append(p, s)) = Len(p) + 1 /\ Append(p, s)[Len(p) + 1] = s
      /\ \A j \in 1..Len(p) : Append(p, s)[j] = p[j]
  BY <1>3, <1>4, AppendProperties
<1> QED
  BY <1>2, <1>3, <1>4, <1>5

\* No two volumes have the same path.
LEMMA SamePath ==
  ASSUME AllFilled, Linked, NEW u \in 1..Len(vols), NEW v \in 1..Len(vols), Path[u] = Path[v]
  PROVE  u = v
<1> DEFINE L == Len(vols)
           T == {x \in 1..L : \E y \in 1..L : y # x /\ Path[y] = Path[x]}
<1>1. \A x \in 2..L : Len(Path[x]) # 0
  <2> TAKE x \in 2..L
  <2>1. PICK y \in 1..L : Len(Path[x]) = Len(Path[y]) + 1 /\ Path[y] \in Seq(Nat \ {0})
    BY ParentOf, PathIs
  <2>2. Len(Path[y]) \in Nat
    BY <2>1, LenProperties
  <2> QED
    BY <2>1, <2>2
<1>2. Len(Path[1]) = 0
  BY PathIs
<1>3. CASE T = {}
  BY <1>3
<1>4. CASE T # {}
  <2>1. PICK x \in T : \A z \in T : x <= z
    <3>1. T \subseteq Nat
      OBVIOUS
    <3> HIDE DEF T
    <3> QED
      BY <1>4, <3>1, LeastNatural
  <2>2. PICK y \in 1..L : y # x /\ Path[y] = Path[x]
    BY <2>1
  <2>3. x \in 1..L /\ L \in Nat
    BY <2>1, SeqIs DEF AllFilled
  <2>4. x \in 2..L /\ y \in 2..L
    BY <1>1, <1>2, <2>2, <2>3
  <2>5. PICK p \in 1..L, s \in Nat \ {0} :
          /\ p < x /\ Path[x] = Append(Path[p], s)
          /\ s \in DOMAIN vols[p].parts /\ vols[p].parts[s] = x
    <3>1. PICK p \in 1..Len(vols) : \E s \in DOMAIN vols[p].parts :
           /\ vols[p].parts[s] = x /\ p < x /\ s \in Nat \ {0}
           /\ Path[x] = Append(Path[p], s)
           /\ Len(Path[x]) = Len(Path[p]) + 1 /\ Path[x][Len(Path[x])] = s
           /\ \A j \in 1..Len(Path[p]) : Path[x][j] = Path[p][j]
      BY <2>4, ParentOf
    <3> QED
      BY <3>1
  <2>7. PICK q \in 1..L, t \in Nat \ {0} :
          /\ Path[y] = Append(Path[q], t)
          /\ t \in DOMAIN vols[q].parts /\ vols[q].parts[t] = y
    <3>1. PICK q \in 1..Len(vols) : \E t \in DOMAIN vols[q].parts :
           /\ vols[q].parts[t] = y /\ q < y /\ t \in Nat \ {0}
           /\ Path[y] = Append(Path[q], t)
           /\ Len(Path[y]) = Len(Path[q]) + 1 /\ Path[y][Len(Path[y])] = t
           /\ \A j \in 1..Len(Path[q]) : Path[y][j] = Path[q][j]
      BY <2>4, ParentOf
    <3> QED
      BY <3>1
  <2>9. Path[p] = Path[q] /\ s = t
    <3>1. PICK a, b : a = Path[p] /\ b = Path[q]
      OBVIOUS
    <3>2. a \in Seq(Nat \ {0}) /\ b \in Seq(Nat \ {0})
      BY <3>1, PathIs
    <3>3. Append(a, s) = Append(b, t)
      BY <2>2, <2>5, <2>7, <3>1
    <3>4. a = b /\ s = t
      BY <3>2, <3>3, AppendInjective
    <3> QED
      BY <3>1, <3>4
  <2>10. ~(x <= p)
    BY <2>3, <2>5
  <2>11. p \notin T
    BY <2>1, <2>10
  <2>12. p = q
    BY <2>9, <2>11
  <2> QED
    BY <2>2, <2>5, <2>7, <2>9, <2>12
<1> QED
  BY <1>3, <1>4

\* The beginnings of a path are paths.
LEMMA AncestorOf ==
  ASSUME AllFilled, Linked, NEW v \in 1..Len(vols), NEW m \in 0..Len(Path[v])
  PROVE  \E u \in 1..Len(vols) : Len(Path[u]) = m /\ \A j \in 1..m : Path[u][j] = Path[v][j]
<1> DEFINE L == Len(vols)
           Has(x, k) == \E u \in 1..L : Len(Path[u]) = k /\ \A j \in 1..k : Path[u][j] = Path[x][j]
           T == {x \in 1..L : ~ \A k \in 0..Len(Path[x]) : Has(x, k)}
<1>1. CASE T = {}
  BY <1>1
<1>2. CASE T # {}
  <2>1. PICK x \in T : \A z \in T : x <= z
    <3>1. T \subseteq Nat
      OBVIOUS
    <3> HIDE DEF T
    <3> QED
      BY <1>2, <3>1, LeastNatural
  <2>2. x \in 1..L /\ L \in Nat /\ Len(Path[x]) \in Nat
    <3>1. x \in 1..L
      BY <2>1
    <3>2. Path[x] \in Seq(Nat \ {0})
      BY <3>1, PathIs
    <3> QED
      BY <3>1, <3>2, SeqIs, LenProperties DEF AllFilled
  <2>3. PICK k \in 0..Len(Path[x]) : ~Has(x, k)
    BY <2>1
  <2>4. k # Len(Path[x])
    BY <2>2, <2>3
  <2>5. x \in 2..L
    <3>1. Len(Path[1]) = 0
      BY PathIs
    <3> QED
      BY <2>2, <2>3, <2>4, <3>1
  <2>6. PICK p \in 1..L : /\ p < x /\ Len(Path[x]) = Len(Path[p]) + 1
                          /\ \A j \in 1..Len(Path[p]) : Path[x][j] = Path[p][j]
    BY <2>5, ParentOf
  <2>7. Len(Path[p]) \in Nat
    <3>1. Path[p] \in Seq(Nat \ {0})
      BY PathIs
    <3> QED
      BY <3>1, LenProperties
  <2>8. k \in 0..Len(Path[p])
    BY <2>2, <2>3, <2>4, <2>6, <2>7
  <2>9. Has(p, k)
    <3>1. ~(x <= p)
      BY <2>2, <2>6
    <3>2. p \notin T
      BY <2>1, <3>1
    <3> HIDE DEF Has
    <3> QED
      BY <2>8, <3>2
  <2>10. PICK u \in 1..L : Len(Path[u]) = k /\ \A j \in 1..k : Path[u][j] = Path[p][j]
    BY <2>9
  <2>11. \A j \in 1..k : Path[u][j] = Path[x][j]
    <3> TAKE j \in 1..k
    <3>1. j \in 1..Len(Path[p])
      BY <2>7, <2>8
    <3> QED
      BY <2>6, <2>10, <3>1
  <2> QED
    BY <2>3, <2>10, <2>11
<1> QED
  BY <1>1, <1>2

\* A path that begins like that of a volume goes on in one of its slots.
LEMMA GoesOn ==
  ASSUME AllFilled, Linked, NEW u \in 1..Len(vols), NEW v \in 1..Len(vols), NEW l \in 1..Len(Path[v]),
         Len(Path[u]) = l - 1, \A j \in 1..l - 1 : Path[u][j] = Path[v][j]
  PROVE  Path[v][l] \in DOMAIN vols[u].parts
<1>1. Path[u] \in Seq(Nat \ {0}) /\ Path[v] \in Seq(Nat \ {0})
  BY PathIs
<1>2. Len(Path[v]) \in Nat
  BY <1>1, LenProperties
<1>3. PICK w \in 1..Len(vols) : Len(Path[w]) = l /\ \A j \in 1..l : Path[w][j] = Path[v][j]
  <2>1. l \in 0..Len(Path[v])
    BY <1>2
  <2> QED
    BY <2>1, AncestorOf
<1>4. w \in 2..Len(vols)
  <2>1. Len(Path[1]) = 0 /\ Len(vols) \in Nat
    BY PathIs, SeqIs DEF AllFilled
  <2> QED
    BY <1>2, <1>3, <2>1
<1>5. PICK p \in 1..Len(vols) : \E s \in DOMAIN vols[p].parts :
        /\ Len(Path[w]) = Len(Path[p]) + 1 /\ Path[w][Len(Path[w])] = s
        /\ \A j \in 1..Len(Path[p]) : Path[w][j] = Path[p][j]
  BY <1>4, ParentOf
<1>6. Path[p] \in Seq(Nat \ {0}) /\ Len(Path[p]) \in Nat
  BY PathIs, LenProperties
<1>7. Len(Path[p]) = l - 1 /\ Path[v][l] \in DOMAIN vols[p].parts
  <2>1. Len(Path[p]) = l - 1
    BY <1>2, <1>3, <1>5, <1>6
  <2>2. PICK s \in DOMAIN vols[p].parts : Path[w][l] = s
    BY <1>3, <1>5
  <2>3. l \in 1..l
    BY <1>2
  <2>4. Path[v][l] = s
    BY <1>3, <2>2, <2>3
  <2> QED
    BY <2>1, <2>2, <2>4
<1>8. \A j \in 1..l - 1 : Path[p][j] = Path[u][j]
  <2> TAKE j \in 1..l - 1
  <2>1. j \in 1..l /\ j \in 1..Len(Path[p])
    BY <1>2, <1>7
  <2> QED
    BY <1>3, <1>5, <2>1
<1>9. Path[p] = Path[u]
  <2>1. PICK a, b : a = Path[p] /\ b = Path[u]
    OBVIOUS
  <2>2. a \in Seq(Nat \ {0}) /\ b \in Seq(Nat \ {0}) /\ Len(a) = Len(b) /\ \A j \in 1..Len(a) : a[j] = b[j]
    BY <1>1, <1>6, <1>7, <1>8, <2>1
  <2>3. a = b
    BY <2>2, SeqEqual
  <2> QED
    BY <2>1, <2>3
<1>10. p = u
  BY <1>9, SamePath
<1> QED
  BY <1>7, <1>10

\* The calls of a search stand along the path of the volume they have come to.
Track(s) ==
  \A l \in 1..Len(s) :
    /\ s[l].next >= 1 /\ Len(Path[s[l].vol]) = l - 1
    /\ \A j \in 1..l - 1 : Path[s[l].vol][j] = s[j].next - 1

\* The loop of call l leads to a volume in one of its next turns.
LeadsTo(s, l, v) ==
  /\ l <= Len(Path[v]) /\ s[l].next <= Path[v][l]
  /\ \A j \in 1..l - 1 : Path[v][j] = s[j].next - 1

\* The search has still to come to a volume.
AheadOf(s, v) ==
  \/ s[Len(s)].step = 0 /\ v = s[Len(s)].vol
  \/ \E l \in 1..Len(s) : LeadsTo(s, l, v)

Searching ==
  /\ phase = "find" => Track(calls) /\ \A v \in 1..Len(vols) : IsMatch(vols[v]) => AheadOf(calls, v)
  /\ FindIsFirst
  /\ phase = "ended" /\ found = 0 => \A v \in 1..Len(vols) : ~IsMatch(vols[v])

\* What holds of the call that searches.
LEMMA SearchIs ==
  ASSUME AllFilled, Linked, Stack, phase = "find", Track(calls)
  PROVE  /\ GoodCalls(calls, Len(vols), 0..1) /\ calls # <<>> /\ Len(calls) \in Nat \ {0}
         /\ \A l \in 1..Len(calls) : calls[l] \in Calls
         /\ Current = calls[Len(calls)] /\ Current \in Calls
         /\ Current.vol \in 1..Len(vols) /\ Current.next \in Nat \ {0}
         /\ Len(Path[Current.vol]) = Len(calls) - 1
         /\ \A j \in 1..Len(calls) - 1 : Path[Current.vol][j] = calls[j].next - 1
<1>1. GoodCalls(calls, Len(vols), 0..1) /\ calls # <<>>
  BY DEF Stack
<1>2. Current \in Calls /\ Current.vol \in 1..Len(vols)
  BY <1>1, TopOfCalls
<1>3. /\ Len(calls) \in Nat \ {0} /\ Current = calls[Len(calls)]
      /\ \A l \in 1..Len(calls) : calls[l] \in Calls
  BY <1>1, <1>2, CallsFront
<1>4. Current.next \in Nat
  BY <1>2, CallIs
<1>5. Len(calls) \in 1..Len(calls)
  BY <1>3
<1>6. /\ calls[Len(calls)].next >= 1 /\ Len(Path[calls[Len(calls)].vol]) = Len(calls) - 1
      /\ \A j \in 1..Len(calls) - 1 : Path[calls[Len(calls)].vol][j] = calls[j].next - 1
  BY <1>5 DEF Track
<1>7. Current.next >= 1
  BY <1>3, <1>6
<1>8. Current.next \in Nat \ {0}
  BY <1>4, <1>7
<1> QED
  BY <1>1, <1>2, <1>3, <1>6, <1>8

\* Every volume is ahead of the first call.
LEMMA FirstSearch ==
  ASSUME AllFilled, Linked, NEW s, s = <<FindCall(1)>>
  PROVE  Track(s) /\ \A v \in 1..Len(vols) : AheadOf(s, v)
<1>1. Len(s) = 1 /\ s[1].vol = 1 /\ s[1].step = 0 /\ s[1].next = 1
  BY DEF FindCall
<1>2. Path[1] = <<>> /\ Len(Path[1]) = 0
  BY PathIs
<1>3. Track(s)
  <2>1. \A l \in 1..Len(s) : l = 1
    BY <1>1
  <2> QED
    BY <1>1, <1>2, <2>1 DEF Track
<1>4. ASSUME NEW v \in 1..Len(vols) PROVE AheadOf(s, v)
  <2>1. CASE v = 1
    BY <1>1, <2>1 DEF AheadOf
  <2>2. CASE v # 1
    <3>1. v \in 2..Len(vols)
      BY <2>2, SeqIs DEF AllFilled
    <3>2. PICK u \in 1..Len(vols) : Len(Path[v]) = Len(Path[u]) + 1
      BY <3>1, ParentOf
    <3>3. Path[u] \in Seq(Nat \ {0}) /\ Path[v] \in Seq(Nat \ {0})
      BY PathIs
    <3>4. Len(Path[u]) \in Nat /\ 1 \in 1..Len(Path[v])
      BY <3>2, <3>3, LenProperties
    <3>5. Path[v][1] \in Nat \ {0}
      BY <3>3, <3>4, ElementOfSeq
    <3>6. LeadsTo(s, 1, v)
      BY <1>1, <3>4, <3>5 DEF LeadsTo
    <3> QED
      BY <1>1, <3>6 DEF AheadOf
  <2> QED
    BY <2>1, <2>2
<1> QED
  BY <1>3, <1>4

\* What leads to a volume depends on the calls up to one of them.
LEMMA LeadsAlike ==
  ASSUME NEW s, NEW t, NEW v, NEW l \in Nat \ {0}, LeadsTo(s, l, v),
         \A j \in 1..l : t[j].next = s[j].next
  PROVE  LeadsTo(t, l, v)
BY DEF LeadsTo

\* The volume of the call is the one the search has come to, and has no file system.
LEMMA NoMatchSearches ==
  ASSUME AllFilled, Linked, Stack, phase = "find", Track(calls), ~IsMatch(Volume),
         \A v \in 1..Len(vols) : IsMatch(vols[v]) => AheadOf(calls, v),
         NEW t, t = WithCurrent([Current EXCEPT !.step = 1])
  PROVE  Track(t) /\ \A v \in 1..Len(vols) : IsMatch(vols[v]) => AheadOf(t, v)
<1> DEFINE N == Len(calls)
           top == [Current EXCEPT !.step = 1]
<1>1. /\ GoodCalls(calls, Len(vols), 0..1) /\ calls # <<>> /\ N \in Nat \ {0}
      /\ Current = calls[N] /\ Current \in Calls
  BY SearchIs
<1>2. top \in Calls /\ top.vol = Current.vol /\ top.next = Current.next
  <2>1. 1 \in 0..5
    OBVIOUS
  <2> QED
    BY <1>1, <2>1, StepSet
<1> HIDE DEF top
<1>3. Len(t) = N /\ t[N] = top /\ \A l \in 1..N - 1 : t[l] = calls[l]
  BY <1>1, <1>2, CallsWithCurrent DEF top
<1>4. \A l \in 1..N : t[l].vol = calls[l].vol /\ t[l].next = calls[l].next
  <2> TAKE l \in 1..N
  <2>1. l = N \/ l \in 1..N - 1
    BY <1>1
  <2> QED
    BY <1>1, <1>2, <1>3, <2>1
<1>5. Track(t)
  <2> SUFFICES ASSUME NEW l \in 1..N
               PROVE  /\ t[l].next >= 1 /\ Len(Path[t[l].vol]) = l - 1
                      /\ \A j \in 1..l - 1 : Path[t[l].vol][j] = t[j].next - 1
    BY <1>3 DEF Track
  <2>1. \A j \in 1..l - 1 : j \in 1..N
    BY <1>1
  <2> QED
    BY <1>4, <2>1 DEF Track
<1>6. ASSUME NEW v \in 1..Len(vols), IsMatch(vols[v]) PROVE AheadOf(t, v)
  <2>1. v # Current.vol
    BY <1>6 DEF Volume
  <2>2. PICK l \in 1..N : LeadsTo(calls, l, v)
    BY <1>1, <1>6, <2>1 DEF AheadOf
  <2>3. l \in Nat \ {0} /\ \A j \in 1..l : t[j].next = calls[j].next
    BY <1>1, <1>4
  <2>4. LeadsTo(t, l, v)
    BY <2>2, <2>3, LeadsAlike
  <2> QED
    BY <1>3, <2>4 DEF AheadOf
<1> QED
  BY <1>5, <1>6

\* The search goes into the next partition, and leaves none behind.
LEMMA DescendSearches ==
  ASSUME AllFilled, Linked, Stack, phase = "find", Track(calls), Current.step = 1, More,
         \A v \in 1..Len(vols) : IsMatch(vols[v]) => AheadOf(calls, v),
         NEW t, t = WithCurrent(Advanced) \o IF Slot # 0 THEN <<FindCall(Slot)>> ELSE <<>>
  PROVE  Track(t) /\ \A v \in 1..Len(vols) : IsMatch(vols[v]) => AheadOf(t, v)
<1> DEFINE N == Len(calls)
           u == Current.vol
           n == Current.next
<1>1. /\ GoodCalls(calls, Len(vols), 0..1) /\ calls # <<>> /\ N \in Nat \ {0}
      /\ Current = calls[N] /\ Current \in Calls /\ u \in 1..Len(vols) /\ n \in Nat \ {0}
      /\ Len(Path[u]) = N - 1 /\ \A j \in 1..N - 1 : Path[u][j] = calls[j].next - 1
  BY SearchIs
<1>2. n \in DOMAIN vols[u].parts
  <2>1. DOMAIN vols[u].parts = 1..vols[u].count /\ n <= vols[u].count /\ vols[u].count \in Nat
    BY <1>1 DEF Linked, More, Volume, AllFilled, Filled
  <2> QED
    BY <1>1, <2>1
<1>3. PICK c : c = vols[u].parts[n]
  OBVIOUS
<1>4. c \in 2..Len(vols) /\ Path[c] = Append(Path[u], n) /\ Path[u] \in Seq(Nat \ {0})
  BY <1>1, <1>2, <1>3, PathIs
<1>5. Slot = c
  BY <1>2, <1>3 DEF Slot, Volume
<1>6. /\ Path[c] \in Seq(Nat \ {0}) /\ Len(Path[c]) = N /\ Path[c][N] = n
      /\ \A j \in 1..N - 1 : Path[c][j] = calls[j].next - 1
  <2>1. PICK p : p = Path[u]
    OBVIOUS
  <2>2. p \in Seq(Nat \ {0}) /\ Len(p) = N - 1 /\ Path[c] = Append(p, n)
    BY <1>1, <1>4, <2>1
  <2>3. /\ Append(p, n) \in Seq(Nat \ {0}) /\ Len(Append(p, n)) = Len(p) + 1
        /\ Append(p, n)[Len(p) + 1] = n /\ \A j \in 1..Len(p) : Append(p, n)[j] = p[j]
    BY <1>1, <2>2, AppendProperties
  <2> QED
    BY <1>1, <2>1, <2>2, <2>3
<1>7. /\ Advanced \in Calls /\ Advanced.vol = u /\ Advanced.next = n + 1
  BY <1>1, AdvancedCall
<1>8. PICK w : w = WithCurrent(Advanced)
  OBVIOUS
<1>9. w \in Seq(Calls) /\ Len(w) = N /\ w[N] = Advanced /\ \A l \in 1..N - 1 : w[l] = calls[l]
  BY <1>1, <1>7, <1>8, CallsWithCurrent
<1>10. PICK call : call = FindCall(c)
  OBVIOUS
<1>11. call \in Calls /\ call.vol = c /\ call.step = 0 /\ call.next = 1
  BY <1>4, <1>10, NewCallIs DEF FindCall
<1>12. t = Append(w, call)
  <2>1. t = w \o <<call>>
    BY <1>4, <1>5, <1>8, <1>10
  <2>2. w \o <<call>> = Append(w, call)
    <3> HIDE DEF Calls
    <3> QED
      BY <1>9, <1>11, AppendIsConcat
  <2> QED
    BY <2>1, <2>2
<1>13. Len(t) = N + 1 /\ t[N + 1] = call /\ t[N] = Advanced /\ \A l \in 1..N - 1 : t[l] = calls[l]
  <2>1. /\ Len(Append(w, call)) = Len(w) + 1 /\ Append(w, call)[Len(w) + 1] = call
        /\ \A l \in 1..Len(w) : Append(w, call)[l] = w[l]
    BY <1>9, <1>11, CallsAppended
  <2>2. N \in 1..Len(w) /\ \A l \in 1..N - 1 : l \in 1..Len(w)
    BY <1>1, <1>9
  <2> HIDE DEF u, n
  <2> QED
    BY <1>9, <1>12, <2>1, <2>2
<1> HIDE DEF u, n
<1>14. Track(t)
  <2> SUFFICES ASSUME NEW l \in 1..N + 1
               PROVE  /\ t[l].next >= 1 /\ Len(Path[t[l].vol]) = l - 1
                      /\ \A j \in 1..l - 1 : Path[t[l].vol][j] = t[j].next - 1
    BY <1>13 DEF Track
  <2>1. CASE l \in 1..N - 1
    <3>1. t[l] = calls[l] /\ l \in 1..N /\ \A j \in 1..l - 1 : t[j] = calls[j]
      <4>1. l \in 1..N /\ \A j \in 1..l - 1 : j \in 1..N - 1
        BY <1>1, <2>1
      <4> QED
        BY <1>13, <2>1, <4>1
    <3>2. /\ calls[l].next >= 1 /\ Len(Path[calls[l].vol]) = l - 1
          /\ \A j \in 1..l - 1 : Path[calls[l].vol][j] = calls[j].next - 1
      BY <3>1 DEF Track
    <3> QED
      BY <3>1, <3>2
  <2>2. CASE l = N
    <3>1. t[l].next = n + 1 /\ t[l].vol = u /\ n + 1 >= 1 /\ Len(Path[u]) = l - 1
      BY <1>1, <1>7, <1>13, <2>2 DEF u, n
    <3>2. \A j \in 1..l - 1 : Path[u][j] = t[j].next - 1
      BY <1>1, <1>13, <2>2
    <3> QED
      BY <3>1, <3>2
  <2>3. CASE l = N + 1
    <3>1. t[l].next = 1 /\ t[l].vol = c /\ Len(Path[c]) = l - 1
      BY <1>1, <1>6, <1>11, <1>13, <2>3
    <3>2. \A j \in 1..l - 1 : Path[c][j] = t[j].next - 1
      <4> TAKE j \in 1..l - 1
      <4>1. j = N \/ j \in 1..N - 1
        BY <1>1, <2>3
      <4>2. CASE j = N
        <5>1. n + 1 - 1 = n
          BY <1>1
        <5> QED
          BY <1>6, <1>7, <1>13, <4>2, <5>1
      <4>3. CASE j \in 1..N - 1
        BY <1>6, <1>13, <4>3
      <4> QED
        BY <4>1, <4>2, <4>3
    <3>3. t[l].next >= 1
      BY <1>11, <1>13, <2>3
    <3> QED
      BY <3>1, <3>2, <3>3
  <2>4. l \in 1..N - 1 \/ l = N \/ l = N + 1
    BY <1>1
  <2> QED
    BY <2>1, <2>2, <2>3, <2>4
<1>15. ASSUME NEW v \in 1..Len(vols), IsMatch(vols[v]) PROVE AheadOf(t, v)
  <2>1. PICK l \in 1..N : LeadsTo(calls, l, v)
    <3>1. AheadOf(calls, v)
      BY <1>15
    <3> QED
      BY <1>1, <3>1 DEF AheadOf
  <2>2. CASE l # N
    <3>1. l \in Nat \ {0} /\ \A j \in 1..l : t[j].next = calls[j].next
      BY <1>1, <1>13, <2>2
    <3>2. LeadsTo(t, l, v)
      BY <2>1, <3>1, LeadsAlike
    <3>3. l \in 1..Len(t)
      BY <1>1, <1>13
    <3> QED
      BY <3>2, <3>3 DEF AheadOf
  <2>3. CASE l = N
    <3>1. Path[v] \in Seq(Nat \ {0})
      BY PathIs
    <3>2. /\ N <= Len(Path[v]) /\ n <= Path[v][N] /\ \A j \in 1..N - 1 : Path[v][j] = calls[j].next - 1
      BY <1>1, <2>1, <2>3 DEF LeadsTo, n
    <3>3. Len(Path[v]) \in Nat /\ N \in 1..Len(Path[v])
      BY <1>1, <3>1, <3>2, LenProperties
    <3>4. Path[v][N] \in Nat \ {0}
      BY <3>1, <3>3, ElementOfSeq
    <3>5. CASE Path[v][N] # n
      <4>1. n + 1 <= Path[v][N]
        BY <1>1, <3>2, <3>4, <3>5
      <4>2. \A j \in 1..N - 1 : Path[v][j] = t[j].next - 1
        BY <1>13, <3>2
      <4>3. LeadsTo(t, N, v) /\ N \in 1..Len(t)
        BY <1>1, <1>7, <1>13, <3>2, <4>1, <4>2 DEF LeadsTo
      <4> QED
        BY <4>3 DEF AheadOf
    <3>6. CASE Path[v][N] = n /\ Len(Path[v]) = N
      <4>1. \A j \in 1..N : Path[v][j] = Path[c][j]
        <5> TAKE j \in 1..N
        <5>1. j = N \/ j \in 1..N - 1
          BY <1>1
        <5> QED
          BY <1>6, <3>2, <3>6, <5>1
      <4>2. Path[v] = Path[c]
        <5>1. PICK a, b : a = Path[v] /\ b = Path[c]
          OBVIOUS
        <5>2. a \in Seq(Nat \ {0}) /\ b \in Seq(Nat \ {0}) /\ Len(a) = Len(b) /\ \A j \in 1..Len(a) : a[j] = b[j]
          BY <1>6, <3>1, <3>6, <4>1, <5>1
        <5>3. a = b
          BY <5>2, SeqEqual
        <5> QED
          BY <5>1, <5>3
      <4>3. c \in 1..Len(vols)
        BY <1>4
      <4>4. v = c
        BY <4>2, <4>3, SamePath
      <4> QED
        BY <1>11, <1>13, <4>4 DEF AheadOf
    <3>7. CASE Path[v][N] = n /\ Len(Path[v]) # N
      <4>1. N + 1 \in 1..Len(Path[v])
        BY <1>1, <3>3, <3>7
      <4>2. Path[v][N + 1] \in Nat \ {0}
        BY <3>1, <4>1, ElementOfSeq
      <4>3. \A j \in 1..N : Path[v][j] = t[j].next - 1
        <5> TAKE j \in 1..N
        <5>1. j = N \/ j \in 1..N - 1
          BY <1>1
        <5>2. CASE j = N
          <6>1. n + 1 - 1 = n
            BY <1>1
          <6>2. t[j].next = n + 1 /\ Path[v][j] = n
            BY <1>7, <1>13, <3>7, <5>2
          <6>3. Advanced.next - 1 = n
            <7>1. PICK m \in Nat : m = n
              BY <1>1
            <7>2. Advanced.next = m + 1
              BY <1>7, <7>1
            <7>3. Advanced.next - 1 = m
              BY <7>2
            <7> QED
              BY <7>1, <7>3
          <6> QED
            BY <1>13, <3>7, <5>2, <6>3
        <5>3. CASE j \in 1..N - 1
          BY <1>13, <3>2, <5>3
        <5> QED
          BY <5>1, <5>2, <5>3
      <4>4. LeadsTo(t, N + 1, v)
        <5>1. PICK m \in Nat : m = N + 1
          BY <1>1
        <5>2. t[m].next <= Path[v][m] /\ m <= Len(Path[v])
          <6>1. t[m].next = 1 /\ Path[v][m] \in Nat \ {0}
            BY <1>11, <1>13, <4>2, <5>1
          <6>2. m <= Len(Path[v])
            BY <4>1, <5>1
          <6>3. \A k \in Nat \ {0} : 1 <= k
            OBVIOUS
          <6>4. 1 <= Path[v][m]
            BY <6>1, <6>3
          <6> QED
            BY <6>1, <6>2, <6>4, Zenon
        <5>3. 1..m - 1 = 1..N
          BY <1>1, <5>1
        <5>4. LeadsTo(t, m, v)
          BY <4>3, <5>2, <5>3 DEF LeadsTo
        <5> QED
          BY <5>1, <5>4
      <4>5. N + 1 \in 1..Len(t)
        BY <1>1, <1>13
      <4> QED
        BY <4>4, <4>5 DEF AheadOf
    <3> QED
      BY <3>5, <3>6, <3>7
  <2> QED
    BY <2>2, <2>3
<1> QED
  BY <1>14, <1>15

\* The loop of the last call is over, so it leads nowhere.
LEMMA ReturnSearches ==
  ASSUME AllFilled, Linked, Stack, phase = "find", Track(calls), Current.step = 1, ~More,
         \A v \in 1..Len(vols) : IsMatch(vols[v]) => AheadOf(calls, v),
         NEW t, t = Front(calls)
  PROVE  /\ Track(t)
         /\ \A v \in 1..Len(vols) : IsMatch(vols[v]) => Len(calls) # 1 /\ AheadOf(t, v)
<1> DEFINE N == Len(calls)
           u == Current.vol
<1>1. /\ GoodCalls(calls, Len(vols), 0..1) /\ calls # <<>> /\ N \in Nat \ {0}
      /\ Current = calls[N] /\ Current \in Calls /\ u \in 1..Len(vols) /\ Current.next \in Nat \ {0}
      /\ Len(Path[u]) = N - 1 /\ \A j \in 1..N - 1 : Path[u][j] = calls[j].next - 1
  BY SearchIs
<1>2. Len(t) = N - 1 /\ \A l \in 1..N - 1 : t[l] = calls[l]
  BY <1>1, CallsFront
<1>3. Track(t)
  <2> SUFFICES ASSUME NEW l \in 1..N - 1
               PROVE  /\ t[l].next >= 1 /\ Len(Path[t[l].vol]) = l - 1
                      /\ \A j \in 1..l - 1 : Path[t[l].vol][j] = t[j].next - 1
    BY <1>2 DEF Track
  <2>1. t[l] = calls[l] /\ l \in 1..N /\ \A j \in 1..l - 1 : t[j] = calls[j]
    BY <1>1, <1>2
  <2> QED
    BY <2>1 DEF Track
<1>4. ASSUME NEW v \in 1..Len(vols), IsMatch(vols[v]) PROVE N # 1 /\ AheadOf(t, v)
  <2>1. PICK l \in 1..N : LeadsTo(calls, l, v)
    <3>1. AheadOf(calls, v)
      BY <1>4
    <3> QED
      BY <1>1, <3>1 DEF AheadOf
  <2>2. l # N
    <3> SUFFICES ASSUME l = N PROVE FALSE
      OBVIOUS
    <3>1. Path[v] \in Seq(Nat \ {0})
      BY PathIs
    <3>2. /\ N <= Len(Path[v]) /\ Current.next <= Path[v][N]
          /\ \A j \in 1..N - 1 : Path[v][j] = calls[j].next - 1
      BY <1>1, <2>1 DEF LeadsTo
    <3>3. N \in 1..Len(Path[v])
      BY <1>1, <3>1, <3>2, LenProperties
    <3>4. \A j \in 1..N - 1 : Path[u][j] = Path[v][j]
      BY <1>1, <3>2
    <3>5. Path[v][N] \in DOMAIN vols[u].parts
      BY <1>1, <3>3, <3>4, GoesOn
    <3>6. DOMAIN vols[u].parts = 1..vols[u].count /\ vols[u].count \in Nat /\ ~(Current.next <= vols[u].count)
      BY <1>1 DEF Linked, More, Volume, AllFilled, Filled
    <3> QED
      BY <1>1, <3>2, <3>5, <3>6
  <2>3. l \in 1..N - 1 /\ l \in Nat \ {0}
    BY <1>1, <2>2
  <2>4. \A j \in 1..l : t[j].next = calls[j].next
    BY <1>1, <1>2, <2>3
  <2>5. LeadsTo(t, l, v)
    BY <2>1, <2>3, <2>4, LeadsAlike
  <2>6. N # 1 /\ l \in 1..Len(t)
    BY <1>1, <1>2, <2>3
  <2> QED
    BY <2>5, <2>6 DEF AheadOf
<1> QED
  BY <1>3, <1>4

\* The volume the search has come to is before all those ahead of it.
LEMMA MatchIsFirst ==
  ASSUME AllFilled, Linked, Stack, phase = "find", Track(calls), NEW v \in 1..Len(vols), AheadOf(calls, v)
  PROVE  v = Current.vol \/ Before(Path[Current.vol], Path[v])
<1> DEFINE N == Len(calls)
           u == Current.vol
<1>1. /\ N \in Nat \ {0} /\ Current = calls[N] /\ u \in 1..Len(vols)
      /\ Len(Path[u]) = N - 1 /\ \A j \in 1..N - 1 : Path[u][j] = calls[j].next - 1
      /\ \A l \in 1..N : calls[l] \in Calls
  BY SearchIs
<1>2. Path[u] \in Seq(Nat \ {0}) /\ Path[v] \in Seq(Nat \ {0})
  BY <1>1, PathIs
<1>3. DOMAIN Path[u] = 1..N - 1 /\ DOMAIN Path[v] = 1..Len(Path[v]) /\ Len(Path[v]) \in Nat
  BY <1>1, <1>2, LenProperties
<1>4. CASE \E l \in 1..N : LeadsTo(calls, l, v)
  <2>1. PICK l \in 1..N : LeadsTo(calls, l, v)
    BY <1>4
  <2>2. /\ l <= Len(Path[v]) /\ calls[l].next <= Path[v][l]
        /\ \A j \in 1..l - 1 : Path[v][j] = calls[j].next - 1
    BY <2>1 DEF LeadsTo
  <2>3. CASE l = N
    <3>1. Len(Path[u]) < Len(Path[v]) /\ \A i \in DOMAIN Path[u] : Path[u][i] = Path[v][i]
      BY <1>1, <1>3, <2>2, <2>3
    <3> QED
      BY <3>1 DEF Before
  <2>4. CASE l # N
    <3>1. l \in 1..N - 1 /\ l \in 1..Len(Path[v])
      BY <1>1, <1>3, <2>2, <2>4
    <3>2. Path[v][l] \in Nat /\ calls[l].next \in Nat
      BY <1>1, <1>2, <3>1, ElementOfSeq, CallIs
    <3>3. Path[u][l] < Path[v][l]
      BY <1>1, <2>2, <3>1, <3>2
    <3>4. \A j \in 1..(l - 1) : Path[u][j] = Path[v][j]
      <4> TAKE j \in 1..(l - 1)
      <4>1. j \in 1..N - 1
        BY <1>1, <3>1
      <4> QED
        BY <1>1, <2>2, <4>1
    <3>5. l \in DOMAIN Path[u] \cap DOMAIN Path[v]
      BY <1>3, <3>1
    <3> QED
      BY <3>3, <3>4, <3>5 DEF Before
  <2> QED
    BY <2>3, <2>4
<1> QED
  BY <1>1, <1>4 DEF AheadOf

\* The disk says which volumes have a file system.
LEMMA MatchStays ==
  ASSUME disk' = disk, vols' = vols
  PROVE  Path' = Path /\ \A v : IsMatch(vols[v])' <=> IsMatch(vols[v])
<1>1. Path' = Path
  BY DEF Path
<1>2. \A v : IsMatch(vols[v])' <=> IsMatch(vols[v])
  BY DEF IsMatch, hfs_test, BlockAt, Blank
<1> QED
  BY <1>1, <1>2

\* The steps of hfsplus_find keep what the search has still to come to.
LEMMA FindSearches ==
  ASSUME AllFilled, Linked, Stack, Outcome, Searching, disk' = disk, NoMatch \/ Descend \/ Return
  PROVE  Searching'
<1>1. phase = "find" /\ vols' = vols /\ found' = found /\ phase' \in {"find", "ended"}
  BY DEF NoMatch, Descend, Return
<1>2. Track(calls) /\ \A v \in 1..Len(vols) : IsMatch(vols[v]) => AheadOf(calls, v)
  BY <1>1 DEF Searching
<1>3. Path' = Path /\ \A v : IsMatch(vols[v])' <=> IsMatch(vols[v])
  BY <1>1, MatchStays
<1>4. PICK t : t = calls'
  OBVIOUS
<1>5. /\ phase' = "find" => Track(t) /\ \A v \in 1..Len(vols) : IsMatch(vols[v]) => AheadOf(t, v)
      /\ phase' = "ended" => \A v \in 1..Len(vols) : ~IsMatch(vols[v])
  <2>1. CASE NoMatch
    <3>1. ~IsMatch(Volume) /\ t = WithCurrent([Current EXCEPT !.step = 1]) /\ phase' = "find"
      BY <1>1, <1>4, <2>1 DEF NoMatch
    <3>2. Track(t) /\ \A v \in 1..Len(vols) : IsMatch(vols[v]) => AheadOf(t, v)
      BY <1>1, <1>2, <3>1, NoMatchSearches
    <3> QED
      BY <3>1, <3>2
  <2>2. CASE Descend
    <3>1. /\ Current.step = 1 /\ More /\ phase' = "find"
          /\ t = WithCurrent(Advanced) \o IF Slot # 0 THEN <<FindCall(Slot)>> ELSE <<>>
      BY <1>1, <1>4, <2>2 DEF Descend
    <3>2. Track(t) /\ \A v \in 1..Len(vols) : IsMatch(vols[v]) => AheadOf(t, v)
      BY <1>1, <1>2, <3>1, DescendSearches
    <3> QED
      BY <3>1, <3>2
  <2>3. CASE Return
    <3>1. Current.step = 1 /\ ~More /\ t = Front(calls) /\ (phase' = "ended" => Len(calls) = 1)
      BY <1>4, <2>3 DEF Return
    <3>2. /\ Track(t)
          /\ \A v \in 1..Len(vols) : IsMatch(vols[v]) => Len(calls) # 1 /\ AheadOf(t, v)
      BY <1>1, <1>2, <3>1, ReturnSearches
    <3> QED
      BY <3>1, <3>2
  <2> QED
    BY <2>1, <2>2, <2>3
<1>6. phase' = "find" => Track(calls)' /\ \A v \in 1..Len(vols') : IsMatch(vols[v])' => AheadOf(calls, v)'
  <2>1. phase' = "find" => Track(calls)'
    BY <1>3, <1>4, <1>5 DEF Track
  <2>2. ASSUME phase' = "find", NEW v \in 1..Len(vols), IsMatch(vols[v]) PROVE AheadOf(calls, v)'
    <3>1. AheadOf(t, v)
      BY <1>5, <2>2
    <3> QED
      BY <1>3, <1>4, <3>1 DEF AheadOf, LeadsTo
  <2> QED
    BY <1>1, <1>3, <2>1, <2>2
<1>7. phase' = "ended" => \A v \in 1..Len(vols') : ~IsMatch(vols[v])'
  BY <1>1, <1>3, <1>5
<1>8. FindIsFirst'
  BY <1>1 DEF FindIsFirst
<1> QED
  BY <1>6, <1>7, <1>8 DEF Searching

\* The search ends at the first volume that matches.
LEMMA MatchSearches ==
  ASSUME AllFilled, Linked, Stack, Searching, disk' = disk, Match
  PROVE  Searching'
<1>1. phase = "find" /\ vols' = vols /\ found' = Current.vol /\ phase' = "open"
  BY DEF Match
<1>2. Track(calls) /\ \A v \in 1..Len(vols) : IsMatch(vols[v]) => AheadOf(calls, v)
  BY <1>1 DEF Searching
<1>3. Path' = Path /\ \A v : IsMatch(vols[v])' <=> IsMatch(vols[v])
  BY <1>1, MatchStays
<1>4. DOMAIN vols' = 1..Len(vols)
  BY <1>1, SeqIs DEF AllFilled
<1>5. ASSUME NEW v \in 1..Len(vols), IsMatch(vols[v])
      PROVE  v = Current.vol \/ Before(Path[Current.vol], Path[v])
  BY <1>1, <1>2, <1>5, MatchIsFirst
<1>6. FindIsFirst'
  BY <1>1, <1>3, <1>4, <1>5 DEF FindIsFirst
<1> QED
  BY <1>1, <1>6 DEF Searching

\* The search begins with everything ahead of it.
LEMMA LoadedSearches ==
  ASSUME AllFilled, Linked, disk' = disk, Loaded
  PROVE  Searching'
<1>1. vols' = vols /\ phase' \in {"load", "find"} /\ (phase' = "find" => calls' = <<FindCall(1)>>)
  BY DEF Loaded
<1>2. Path' = Path /\ \A v : IsMatch(vols[v])' <=> IsMatch(vols[v])
  BY <1>1, MatchStays
<1>3. FindIsFirst'
  BY <1>1 DEF FindIsFirst
<1>4. CASE phase' = "find"
  <2>1. PICK t : t = calls'
    OBVIOUS
  <2>2. Track(t) /\ \A v \in 1..Len(vols) : AheadOf(t, v)
    BY <1>1, <1>4, <2>1, FirstSearch
  <2>3. Track(calls)'
    BY <1>2, <2>1, <2>2 DEF Track
  <2>4. \A v \in 1..Len(vols') : AheadOf(calls, v)'
    BY <1>1, <1>2, <2>1, <2>2 DEF AheadOf, LeadsTo
  <2> QED
    BY <1>3, <1>4, <2>3, <2>4 DEF Searching
<1>5. CASE phase' = "load"
  BY <1>3, <1>5 DEF Searching
<1> QED
  BY <1>1, <1>4, <1>5

\* Whatever the disk holds, and as long as no MBR has gaps, hfsplus_find has
\* still to come to every volume with a file system that it has not tested.
THEOREM SearchingHolds == TreeSpec => [](Gapless => Searching)
<1>1. TreeInit => (Gapless => Searching)
  BY DEF TreeInit, Searching, FindIsFirst
<1>2. /\ TreeInductive /\ (Gapless => Linked /\ Loading) /\ (Gapless => Searching) /\ [TreeNext]_treeVars
      => (Gapless => Searching)'
  <2> SUFFICES ASSUME TreeInductive, Gapless => Linked /\ Loading, Gapless => Searching,
                      [TreeNext]_treeVars, Gapless'
               PROVE  Searching'
    OBVIOUS
  <2>1. disk' = disk /\ disk \in Disks
    BY DEF TreeInductive, TreeNext, treeVars, NextScheme, Detect, Load, LoadPart, Nest, Loaded, Match,
           NoMatch, Descend, Return, Open, Close
  <2>2. Gapless
    BY <2>1 DEF Gapless
  <2>3. AllFilled /\ Stack /\ Outcome /\ Linked /\ Searching
    BY <2>2 DEF TreeInductive
  <2>4. CASE UNCHANGED treeVars
    <3>1. vols' = vols /\ calls' = calls /\ phase' = phase /\ found' = found
      BY <2>4 DEF treeVars
    <3>2. Path' = Path /\ \A v : IsMatch(vols[v])' <=> IsMatch(vols[v])
      BY <2>1, <3>1, MatchStays
    <3>3. Track(calls)' <=> Track(calls)
      BY <3>1, <3>2 DEF Track
    <3>4. \A v : AheadOf(calls, v)' <=> AheadOf(calls, v)
      BY <3>1, <3>2 DEF AheadOf, LeadsTo
    <3>5. FindIsFirst'
      BY <2>2, <2>3, <3>1, <3>2 DEF FindIsFirst, Searching
    <3> QED
      BY <2>3, <3>1, <3>2, <3>3, <3>4, <3>5 DEF Searching
  <2>5. CASE NextScheme \/ Detect \/ Load \/ LoadPart \/ Nest
    <3>1. phase' \in {"load", "table", "crashed"}
      BY <2>5 DEF NextScheme, Detect, Load, LoadPart, Nest
    <3> QED
      BY <3>1 DEF Searching, FindIsFirst
  <2>6. CASE Loaded
    BY <2>1, <2>3, <2>6, LoadedSearches
  <2>7. CASE Match
    BY <2>1, <2>3, <2>7, MatchSearches
  <2>8. CASE NoMatch \/ Descend \/ Return
    BY <2>1, <2>3, <2>8, FindSearches
  <2>9. CASE Open \/ Close
    <3>1. phase \in {"open", "close"} /\ phase' \notin {"open", "find"} /\ found' = found
      BY <2>9 DEF Open, Close
    <3>2. found' # 0
      BY <2>3, <3>1 DEF Outcome
    <3> QED
      BY <3>1, <3>2 DEF Searching, FindIsFirst
  <2> QED
    BY <2>4, <2>5, <2>6, <2>7, <2>8, <2>9 DEF TreeNext
<1> QED
  BY <1>1, <1>2, TreeInductiveHolds, LinkedHolds, PTL DEF TreeSpec

\* The volume that hfsplus_find returns is the first in the order of the
\* partitions that has a file system, as long as no MBR has gaps.
THEOREM FindIsFirstHolds == TreeSpec => []FindIsFirst
<1>1. (Gapless => Searching) => FindIsFirst
  BY DEF Searching, FindIsFirst
<1> QED
  BY SearchingHolds, <1>1, PTL

-----------------------------------------------------------------------------
(***************************************************************************)
(* Nothing that the maps designate is overlooked                           *)
(***************************************************************************)

\* Two volumes are the same blocks of the device.
SameWindow(v, w) == v.offset = w.offset /\ v.length = w.length

\* What is read of a volume depends on nothing else.
LEMMA WindowIs ==
  ASSUME NEW v, NEW w, SameWindow(v, w)
  PROVE  /\ \A x : BlockAt(v, x) = BlockAt(w, x)
         /\ GptSizes(v) = GptSizes(w) /\ ApmSizes(v) = ApmSizes(w) /\ Gpt(v) = Gpt(w)
         /\ \A scheme : Detected(v, scheme) <=> Detected(w, scheme)
         /\ IsMatch(v) <=> IsMatch(w)
<1>1. \A x : BlockAt(v, x) = BlockAt(w, x)
  BY DEF BlockAt, SameWindow
<1>2. FirstLba(v) = FirstLba(w)
  BY <1>1 DEF FirstLba
<1>3. GptSizes(v) = GptSizes(w)
  BY <1>1, <1>2 DEF GptSizes
<1>4. ApmSizes(v) = ApmSizes(w)
  BY <1>1 DEF ApmSizes
<1>5. Gpt(v) = Gpt(w)
  BY <1>1, <1>2, <1>3 DEF Gpt
<1>6. \A scheme : Detected(v, scheme) <=> Detected(w, scheme)
  BY DetectedAsBefore DEF SameWindow
<1>7. hfs_test(v) = hfs_test(w)
  BY <1>1 DEF hfs_test
<1>8. IsMatch(v) <=> IsMatch(w)
  BY <1>7 DEF IsMatch
<1> QED
  BY <1>1, <1>3, <1>4, <1>5, <1>6, <1>8

\* A table depends on the sector size besides.
LEMMA TableIsSame ==
  ASSUME NEW v, NEW w, SameWindow(v, w), v.sector = w.sector, NEW scheme \in {"gpt", "apm", "mbr"}
  PROVE  Table(v, scheme) = Table(w, scheme)
<1>1. \A x : BlockAt(v, x) = BlockAt(w, x)
  BY WindowIs
<1>2. \A first, count, type : Partition(v, first, count, type) = Partition(w, first, count, type)
  BY DEF Partition
<1>3. MbrTable(v) = MbrTable(w)
  <2>1. PICK es : es = BlockAt(v, 0).entries /\ es = BlockAt(w, 0).entries
    BY <1>1
  <2>2. MbrTable(v) = [i \in {j \in 1..4 : es[j].type # "none"} |->
                         Partition(v, es[i].first, es[i].count, es[i].type)]
    BY <2>1, Zenon DEF MbrTable
  <2>3. MbrTable(w) = [i \in {j \in 1..4 : es[j].type # "none"} |->
                         Partition(w, es[i].first, es[i].count, es[i].type)]
    BY <2>1, Zenon DEF MbrTable
  <2> QED
    BY <1>2, <2>2, <2>3
<1>4. ApmTable(v) = ApmTable(w)
  <2>1. \A i : ApmEntry(v, i) = ApmEntry(w, i)
    BY <1>1 DEF ApmEntry
  <2>2. PICK S : S = {i \in 1..MaxDescriptors + 1 : \A j \in 1..(i - 1) : j + 1 < ApmEntry(v, j).count}
    OBVIOUS
  <2>3. S = {i \in 1..MaxDescriptors + 1 : \A j \in 1..(i - 1) : j + 1 < ApmEntry(w, j).count}
    BY <2>1, <2>2
  <2>4. ApmTable(v) = [i \in 1..Max(S) |-> Partition(v, ApmEntry(v, i).start, ApmEntry(v, i).length, "data")]
    BY <2>2, Zenon DEF ApmTable
  <2>5. ApmTable(w) = [i \in 1..Max(S) |-> Partition(w, ApmEntry(w, i).start, ApmEntry(w, i).length, "data")]
    BY <2>3, Zenon DEF ApmTable
  <2> QED
    BY <1>2, <2>1, <2>4, <2>5
<1>5. GptTable(v) = GptTable(w)
  <2>1. PICK es : es = Gpt(v).entries /\ es = Gpt(w).entries
    BY WindowIs
  <2>2. GptTable(v) = [i \in {j \in DOMAIN es : \A k \in 1..j : es[k].first # 0 \/ es[k].last # 0} |->
                         Partition(v, es[i].first, es[i].last - es[i].first, es[i].type)]
    BY <2>1, Zenon DEF GptTable
  <2>3. GptTable(w) = [i \in {j \in DOMAIN es : \A k \in 1..j : es[k].first # 0 \/ es[k].last # 0} |->
                         Partition(w, es[i].first, es[i].last - es[i].first, es[i].type)]
    BY <2>1, Zenon DEF GptTable
  <2> QED
    BY <1>2, <2>2, <2>3
<1> QED
  BY <1>3, <1>4, <1>5 DEF Table

\* A test sets the same sector size on volumes that had the same.
LEMMA TestedAlike ==
  ASSUME NEW v, NEW w, IsVolume(v), IsVolume(w), SameWindow(v, w), v.sector = w.sector, NEW scheme
  PROVE  Tested(v, scheme).sector = Tested(w, scheme).sector
<1> DEFINE sector == CASE scheme = "gpt" /\ GptSizes(v) # {} -> Min(GptSizes(v))
                       [] scheme = "apm" /\ ApmSizes(v) # {} -> Min(ApmSizes(v))
                       [] OTHER -> v.sector
<1>1. Tested(v, scheme) = [v EXCEPT !.sector = sector]
  BY Zenon DEF Tested
<1>2. GptSizes(v) = GptSizes(w) /\ ApmSizes(v) = ApmSizes(w)
  BY WindowIs
<1>3. sector = CASE scheme = "gpt" /\ GptSizes(w) # {} -> Min(GptSizes(w))
                 [] scheme = "apm" /\ ApmSizes(w) # {} -> Min(ApmSizes(w))
                 [] OTHER -> w.sector
  BY <1>2
<1>4. Tested(w, scheme) = [w EXCEPT !.sector = sector]
  BY <1>3, Zenon DEF Tested
<1> HIDE DEF sector
<1>5. [v EXCEPT !.sector = sector].sector = sector /\ [w EXCEPT !.sector = sector].sector = sector
  BY DEF IsVolume
<1> QED
  BY <1>1, <1>4, <1>5

\* The tests for Core Storage and an MBR leave the sector size alone.
LEMMA TestedNot ==
  ASSUME NEW v, IsVolume(v), NEW scheme \in {"cs", "mbr"}
  PROVE  Tested(v, scheme).sector = v.sector
<1>1. Tested(v, scheme) = [v EXCEPT !.sector = v.sector]
  BY DEF Tested
<1>2. [v EXCEPT !.sector = v.sector].sector = v.sector
  BY DEF IsVolume
<1> QED
  BY <1>1, <1>2

\* The sector size of a volume before test k, from the one it was made with.
AfterTests(v, k) ==
  CASE k = 1 -> v.sector
    [] k = 2 -> Tested(v, "gpt").sector
    [] k \in 3..5 -> Tested(Tested(v, "gpt"), "apm").sector

\* One test more is the next state of the sector size.
LEMMA TestAdvances ==
  ASSUME NEW u, NEW m, IsVolume(u), IsVolume(m), SameWindow(u, m),
         NEW k \in 1..4, u.sector = AfterTests(m, k)
  PROVE  Tested(u, Schemes[k]).sector = AfterTests(m, k + 1)
<1>1. PICK t : t = Tested(m, "gpt")
  OBVIOUS
<1>2. IsVolume(t) /\ SameWindow(u, t)
  BY <1>1, TestedIs DEF SameWindow
<1>3. CASE k = 1
  <2>1. u.sector = m.sector /\ Schemes[k] = "gpt" /\ AfterTests(m, k + 1) = t.sector
    BY <1>1, <1>3 DEF AfterTests, Schemes
  <2> QED
    BY <1>1, <2>1, TestedAlike
<1>4. CASE k = 2
  <2>1. u.sector = t.sector /\ Schemes[k] = "apm" /\ AfterTests(m, k + 1) = Tested(t, "apm").sector
    BY <1>1, <1>4 DEF AfterTests, Schemes
  <2> QED
    BY <1>2, <2>1, TestedAlike
<1>5. CASE k = 3
  <2>1. Schemes[k] = "cs" /\ AfterTests(m, k + 1) = AfterTests(m, k)
    BY <1>5 DEF AfterTests, Schemes
  <2> QED
    BY <2>1, TestedNot
<1>6. CASE k = 4
  <2>1. Schemes[k] = "mbr" /\ AfterTests(m, k + 1) = AfterTests(m, k)
    BY <1>6 DEF AfterTests, Schemes
  <2> QED
    BY <2>1, TestedNot
<1> QED
  BY <1>3, <1>4, <1>5, <1>6

\* The partitions that are made when the first scheme is detected are those the
\* map designates.
LEMMA PartsAre ==
  ASSUME NEW u, NEW m, IsVolume(m), SameWindow(u, m), NEW k \in {1, 2, 4},
         u.sector = AfterTests(m, k + 1), Detected(u, Schemes[k]),
         \A j \in 1..4 : j < k /\ j # 3 => ~Detected(u, Schemes[j])
  PROVE  PartsOf(m) = Range(Table(u, Schemes[k]))
<1> DEFINE tested(i) == IF i = 1 THEN Tested(m, "gpt") ELSE Tested(Tested(m, "gpt"), "apm")
           S == {i \in 1..4 : i # 3 /\ Detected(m, Schemes[i])}
<1>1. \A scheme : Detected(u, scheme) <=> Detected(m, scheme)
  BY WindowIs
<1>2. k \in S /\ \A j \in S : k <= j
  BY <1>1
<1>3. Min(S) = k
  <2>1. S \subseteq Nat
    OBVIOUS
  <2> HIDE DEF S
  <2>2. Min(S) \in S /\ \A j \in S : Min(S) <= j
    BY <1>2, <2>1 DEF Min
  <2>3. Min(S) <= k /\ k <= Min(S)
    BY <1>2, <2>2
  <2>4. k \in Nat /\ Min(S) \in Nat
    BY <1>2, <2>1, <2>2
  <2> QED
    BY <2>3, <2>4
<1>4. PartsOf(m) = Range(Table(tested(Min(S)), Schemes[Min(S)]))
  <2>1. S # {}
    BY <1>2
  <2>2. PartsOf(m) = IF S = {} THEN {} ELSE Range(Table(tested(Min(S)), Schemes[Min(S)]))
    BY Zenon DEF PartsOf
  <2> HIDE DEF S, tested
  <2> QED
    BY <2>1, <2>2
<1>5. PICK t : t = Tested(m, "gpt")
  OBVIOUS
<1>6. IsVolume(t) /\ SameWindow(u, t)
  BY <1>5, TestedIs DEF SameWindow
<1>7. PICK w : w = tested(k)
  OBVIOUS
<1>8. SameWindow(u, w) /\ u.sector = w.sector
  <2>1. CASE k = 1
    BY <1>5, <1>6, <1>7, <2>1 DEF AfterTests
  <2>2. CASE k # 1
    <3>1. w = Tested(t, "apm")
      BY <1>5, <1>7, <2>2
    <3>2. SameWindow(u, w)
      BY <1>6, <3>1, TestedIs DEF SameWindow
    <3>3. AfterTests(m, k + 1) = Tested(t, "apm").sector
      BY <1>5, <2>2 DEF AfterTests
    <3> QED
      BY <3>1, <3>2, <3>3
  <2> QED
    BY <2>1, <2>2
<1>9. Schemes[k] \in {"gpt", "apm", "mbr"}
  BY DEF Schemes
<1>10. Table(u, Schemes[k]) = Table(w, Schemes[k])
  BY <1>8, <1>9, TableIsSame
<1> HIDE DEF tested, S
<1> QED
  BY <1>3, <1>4, <1>7, <1>10

\* A volume in which no test finds a map designates nothing.
LEMMA NoParts ==
  ASSUME NEW u, NEW m, SameWindow(u, m), \A j \in 1..4 : j # 3 => ~Detected(u, Schemes[j])
  PROVE  PartsOf(m) = {}
<1> DEFINE S == {i \in 1..4 : i # 3 /\ Detected(m, Schemes[i])}
<1>1. \A scheme : Detected(u, scheme) <=> Detected(m, scheme)
  BY WindowIs
<1>2. S = {}
  BY <1>1
<1> QED
  BY <1>2, Zenon DEF PartsOf

\* A test finds the same as long as the disk is the same.
LEMMA TestsStay ==
  ASSUME disk' = disk
  PROVE  /\ \A u, scheme : Tested(u, scheme)' = Tested(u, scheme)
         /\ \A u, k : AfterTests(u, k)' = AfterTests(u, k)
<1>1. \A u, x : BlockAt(u, x)' = BlockAt(u, x)
  BY DEF BlockAt
<1>2. \A u : FirstLba(u)' = FirstLba(u)
  BY <1>1 DEF FirstLba
<1>3. \A u : GptSizes(u)' = GptSizes(u)
  BY <1>1, <1>2 DEF GptSizes
<1>4. \A u : ApmSizes(u)' = ApmSizes(u)
  BY <1>1 DEF ApmSizes
<1>5. \A u, scheme : Tested(u, scheme)' = Tested(u, scheme)
  BY <1>3, <1>4, Zenon DEF Tested
<1>6. \A u, k : AfterTests(u, k)' = AfterTests(u, k)
  BY <1>5, Zenon DEF AfterTests
<1> QED
  BY <1>5, <1>6

\* So do the maps.
LEMMA PartsStay ==
  ASSUME disk' = disk, NEW v
  PROVE  PartsOf(v)' = PartsOf(v)
<1>1. \A u, x : BlockAt(u, x)' = BlockAt(u, x)
  BY DEF BlockAt
<1>2. \A u : FirstLba(u)' = FirstLba(u)
  BY <1>1 DEF FirstLba
<1>3. \A u : GptSizes(u)' = GptSizes(u)
  BY <1>1, <1>2 DEF GptSizes
<1>5. \A u : Gpt(u)' = Gpt(u)
  BY <1>1, <1>2, <1>3 DEF Gpt
<1>6. \A u, scheme : Detected(u, scheme)' <=> Detected(u, scheme)
  BY DetectedStays
<1>7. \A u, i : ApmEntry(u, i)' = ApmEntry(u, i)
  BY <1>1 DEF ApmEntry
<1>8. \A u : MbrTable(u)' = MbrTable(u)
  BY <1>1, Zenon DEF MbrTable, Partition
<1>9. \A u : ApmTable(u)' = ApmTable(u)
  BY <1>7, Zenon DEF ApmTable, Partition
<1>10. \A u : GptTable(u)' = GptTable(u)
  BY <1>5, Zenon DEF GptTable, Partition
<1>11. \A u, scheme : Table(u, scheme)' = Table(u, scheme)
  BY <1>8, <1>9, <1>10 DEF Table
<1>12. \A u, scheme : Tested(u, scheme)' = Tested(u, scheme)
  BY TestsStay
<1> QED
  BY <1>6, <1>11, <1>12, Zenon DEF PartsOf

\* A volume that loading has still to come to.
Awaited(v) ==
  \/ Current.step < 5 /\ v = Current.vol
  \/ \E l \in 1..Len(calls) : v \in Waiting(calls[l])

\* Where loading is: the volumes to come are as they were made, and the one it is at
\* as the tests before have left it.
Underway(made) ==
  /\ \A l \in 1..Len(calls) : \A v \in Waiting(calls[l]) : vols[v] = made[v]
  /\ \A u, m, k : u = Volume /\ m = made[Current.vol] /\ k = Current.step /\ k < 5 =>
       /\ phase = "load" => u.sector = AfterTests(m, k)
       /\ phase = "table" => u.sector = AfterTests(m, k + 1)
       /\ \A j \in 1..4 : j < k /\ j # 3 => ~Detected(u, Schemes[j])

Reached(made) == {made[c] : c \in 1..Len(vols)}

\* The volumes as they were made, and that all of them whose turn has come have
\* been loaded with every partition that a map of theirs designates.
Made(made) ==
  /\ \A v \in 1..Len(vols) : IsVolume(made[v]) /\ SameWindow(made[v], vols[v])
  /\ made[1].sector = 1 /\ made[1].type = "map" /\ made[1].parts = <<>> /\ made[1].count = 0
  /\ phase \in {"load", "table"} => Underway(made)
  /\ phase # "crashed" =>
       \A v \in 1..Len(vols) : IsMap(made[v].type) =>
         \/ phase \in {"load", "table"} /\ Awaited(v)
         \/ PartsOf(made[v]) \subseteq Reached(made)

\* A step that makes no volume, and that no awaited volume is left behind by.
LEMMA MadeKept ==
  ASSUME disk' = disk, NEW made, Made(made), phase # "crashed", Len(vols') = Len(vols),
         \A v \in 1..Len(vols) : SameWindow(vols'[v], vols[v]),
         phase' \in {"load", "table"} => Underway(made)',
         \A v \in 1..Len(vols) : phase \in {"load", "table"} /\ IsMap(made[v].type) /\ Awaited(v) =>
           \/ phase' \in {"load", "table"} /\ Awaited(v)'
           \/ PartsOf(made[v]) \subseteq Reached(made)
  PROVE  Made(made)'
<1>1. \A v \in 1..Len(vols) : PartsOf(made[v])' = PartsOf(made[v])
  BY PartsStay
<1>2. Reached(made)' = Reached(made)
  BY DEF Reached
<1>3. \A v \in 1..Len(vols') : IsVolume(made[v]) /\ SameWindow(made[v], vols'[v])
  BY DEF Made, SameWindow
<1>4. \A v \in 1..Len(vols') : IsMap(made[v].type) =>
        \/ phase' \in {"load", "table"} /\ Awaited(v)'
        \/ PartsOf(made[v])' \subseteq Reached(made)'
  BY <1>1, <1>2 DEF Made
<1>5. made[1].sector = 1 /\ made[1].type = "map" /\ made[1].parts = <<>> /\ made[1].count = 0
  BY DEF Made
<1> QED
  BY <1>3, <1>4, <1>5 DEF Made, SameWindow

\* A test is another step towards the table.
LEMMA TestMade ==
  ASSUME AllFilled, Linked, Stack, Loading, disk' = disk, NEW made, Made(made), NextScheme \/ Detect
  PROVE  Made(made)'
<1> DEFINE N == Len(calls)
<1>1. /\ phase = "load" /\ Current.step < 5
      /\ vols' = [vols EXCEPT ![Current.vol] = Tested(@, Scheme)]
  BY DEF NextScheme, Detect
<1>2. GoodCalls(calls, Len(vols), 1..5) /\ calls # <<>>
  BY <1>1 DEF Stack
<1>a. Current \in Calls /\ Current.vol \in 1..Len(vols) /\ Current.step \in 1..5
  BY <1>2, TopOfCalls
<1>3. /\ N \in Nat \ {0} /\ Current = calls[N]
      /\ \A l \in 1..N : calls[l] \in Calls /\ calls[l].vol \in 1..Len(vols)
  BY <1>2, <1>a, CallsFront DEF GoodCalls
<1>4. PICK c \in 1..Len(vols) : c = Current.vol
  BY <1>a
<1>5. PICK k \in 1..4 : k = Current.step
  BY <1>1, <1>a
<1>6. Scheme = Schemes[k] /\ Volume = vols[c]
  BY <1>4, <1>5 DEF Scheme, Volume
<1>7. /\ Len(vols') = Len(vols) /\ vols'[c] = Tested(vols[c], Schemes[k])
      /\ \A n \in 1..Len(vols) : n # c => vols'[n] = vols[n]
      /\ \A n \in 1..Len(vols) : vols'[n].parts = vols[n].parts /\ SameWindow(vols'[n], vols[n])
  <2>1. PICK w : w = vols'
    OBVIOUS
  <2>2. w = [vols EXCEPT ![c] = Tested(@, Scheme)]
    BY <1>1, <1>4, <2>1
  <2>3. /\ Len(w) = Len(vols) /\ w[c] = Tested(vols[c], Scheme)
        /\ \A n \in 1..Len(vols) : n # c => w[n] = vols[n]
        /\ \A n \in 1..Len(vols) : /\ w[n].parts = vols[n].parts /\ w[n].count = vols[n].count
                                   /\ w[n].offset = vols[n].offset /\ w[n].length = vols[n].length
    BY <2>2, TestIs
  <2> QED
    BY <1>6, <2>1, <2>3 DEF SameWindow
<1>8. IsVolume(vols[c]) /\ IsVolume(made[c]) /\ SameWindow(vols[c], made[c])
  BY DEF AllFilled, Filled, Made, SameWindow
<1>9. /\ vols[c].sector = AfterTests(made[c], k)
      /\ \A j \in 1..4 : j < k /\ j # 3 => ~Detected(vols[c], Schemes[j])
  <2>1. Underway(made)
    BY <1>1 DEF Made
  <2> QED
    BY <1>1, <1>4, <1>5, <1>6, <2>1 DEF Underway
<1>10. PICK t : t = vols'[c]
  OBVIOUS
<1>11. t.sector = AfterTests(made[c], k + 1) /\ SameWindow(t, vols[c])
  BY <1>7, <1>8, <1>9, <1>10, TestAdvances
<1>12. \A scheme : Detected(t, scheme)' <=> Detected(vols[c], scheme)
  BY <1>11, WindowIs, DetectedStays
<1>13. \A m, j : AfterTests(m, j)' = AfterTests(m, j)
  BY TestsStay
<1>14. /\ Len(calls') = N /\ Current' = calls'[N] /\ phase' \in {"load", "table"}
       /\ \A l \in 1..N : calls'[l].vol = calls[l].vol /\ calls'[l].next = calls[l].next
       /\ \/ Detect /\ phase' = "table" /\ Current'.step = k
          \/ NextScheme /\ phase' = "load" /\ Current'.step = k + 1
  <2>1. CASE Detect
    BY <1>3, <1>5, <2>1 DEF Detect, Current
  <2>2. CASE NextScheme
    <3> DEFINE top == [Current EXCEPT !.step = Current.step + 1]
    <3>1. phase' = "load" /\ calls' = WithCurrent(top)
      BY <1>1, <2>2 DEF NextScheme
    <3>2. Current.step + 1 \in 0..5
      BY <1>5
    <3>3. top \in Calls /\ top.vol = Current.vol /\ top.next = Current.next /\ top.step = Current.step + 1
      BY <1>a, <3>2, StepSet
    <3> HIDE DEF top
    <3>4. /\ Len(calls') = N /\ calls'[N] = top
          /\ \A l \in 1..N - 1 : calls'[l] = calls[l]
      BY <1>2, <3>1, <3>3, CallsWithCurrent
    <3>5. \A l \in 1..N : calls'[l].vol = calls[l].vol /\ calls'[l].next = calls[l].next
      <4> TAKE l \in 1..N
      <4>1. l = N \/ l \in 1..N - 1
        BY <1>3
      <4> QED
        BY <1>3, <3>3, <3>4, <4>1
    <3>6. Current' = calls'[N]
      BY <3>4 DEF Current, Last
    <3> QED
      BY <1>5, <2>2, <3>1, <3>3, <3>4, <3>5, <3>6
  <2> QED
    BY <2>1, <2>2
<1>15. Current'.vol = c /\ Volume' = t
  <2>1. N \in 1..N
    BY <1>3
  <2>2. Current'.vol = c
    BY <1>3, <1>4, <1>14, <2>1
  <2> QED
    BY <1>10, <2>2 DEF Volume
<1>16. \A l \in 1..N : Waiting(calls[l])' = Waiting(calls[l])
  <2> TAKE l \in 1..N
  <2>1. calls[l].vol \in 1..Len(vols) /\ vols'[calls[l].vol].parts = vols[calls[l].vol].parts
    BY <1>3, <1>7
  <2> QED
    BY <1>14, <2>1 DEF Waiting
<1>17. Underway(made)'
  <2>1. \A l \in 1..N : \A v \in Waiting(calls[l])' : vols'[v] = made[v]
    <3> SUFFICES ASSUME NEW l \in 1..N, NEW v \in Waiting(calls[l]) PROVE vols'[v] = made[v]
      BY <1>16
    <3>1. Unloaded(v) /\ v \in 1..Len(vols) /\ vols[v] = made[v]
      BY <1>1, <1>3, WaitingIs DEF Loading, Made, Underway
    <3>2. v # c
      <4>1. N \in 1..N
        BY <1>3
      <4> QED
        BY <1>3, <1>4, <3>1, <4>1 DEF Unloaded
    <3> QED
      BY <1>7, <3>1, <3>2
  <2>2. \A u, m, i : u = Volume' /\ m = made[Current'.vol] /\ i = Current'.step /\ i < 5 =>
          /\ phase' = "load" => u.sector = AfterTests(m, i)'
          /\ phase' = "table" => u.sector = AfterTests(m, i + 1)'
          /\ \A j \in 1..4 : j < i /\ j # 3 => ~Detected(u, Schemes[j])'
    <3> SUFFICES ASSUME NEW i, i = Current'.step, i < 5
                 PROVE  /\ phase' = "load" => t.sector = AfterTests(made[c], i)
                        /\ phase' = "table" => t.sector = AfterTests(made[c], i + 1)
                        /\ \A j \in 1..4 : j < i /\ j # 3 => ~Detected(vols[c], Schemes[j])
      BY <1>12, <1>13, <1>15
    <3>1. CASE Detect /\ phase' = "table" /\ Current'.step = k
      BY <1>9, <1>11, <3>1
    <3>2. CASE NextScheme /\ phase' = "load" /\ Current'.step = k + 1
      <4>1. ~Detected(vols[c], Schemes[k]) \/ k = 3
        <5>1. ~Detected(vols[c], Schemes[k]) \/ Schemes[k] = "cs"
          BY <1>6, <3>2 DEF NextScheme
        <5>2. k # 3 => Schemes[k] # "cs"
          <6>1. k = 1 \/ k = 2 \/ k = 3 \/ k = 4
            OBVIOUS
          <6> QED
            BY <6>1 DEF Schemes
        <5> QED
          BY <5>1, <5>2
      <4>2. \A j \in 1..4 : j < k + 1 => j < k \/ j = k
        OBVIOUS
      <4> QED
        BY <1>9, <1>11, <3>2, <4>1, <4>2
    <3> QED
      BY <1>14, <3>1, <3>2
  <2> QED
    BY <1>14, <2>1, <2>2 DEF Underway
<1>18. ASSUME NEW v \in 1..Len(vols), Awaited(v)
       PROVE  Awaited(v)' \/ PartsOf(made[v]) \subseteq Reached(made)
  <2>1. CASE \E l \in 1..N : v \in Waiting(calls[l])
    BY <1>14, <1>16, <2>1 DEF Awaited
  <2>2. CASE v = c /\ Current'.step < 5
    BY <1>15, <2>2 DEF Awaited
  <2>3. CASE v = c /\ ~(Current'.step < 5)
    <3>1. NextScheme /\ k = 4
      BY <1>14, <2>3
    <3>2. Schemes[4] = "mbr"
      BY DEF Schemes
    <3>3. ~Detected(vols[c], Schemes[4])
      BY <1>6, <3>1, <3>2 DEF NextScheme
    <3>4. \A j \in 1..4 : j # 3 => ~Detected(vols[c], Schemes[j])
      BY <1>9, <3>1, <3>3
    <3>5. PartsOf(made[c]) = {}
      BY <1>8, <3>4, NoParts
    <3> QED
      BY <2>3, <3>5
  <2> QED
    BY <1>4, <1>18, <2>1, <2>2, <2>3 DEF Awaited
<1> QED
  BY <1>1, <1>7, <1>14, <1>17, <1>18, MadeKept

\* With a table, all the partitions that its map designates are made.
LEMMA LinkMade ==
  ASSUME AllFilled, Linked, Stack, Loading, disk' = disk, phase = "table", NEW made, Made(made),
         NEW n \in Nat, NEW table, LinksTable(n, table), table = Entries
  PROVE  \E more : Made(more)'
<1> DEFINE N == Len(calls)
<1>1. GoodCalls(calls, Len(vols), 1..5) /\ calls # <<>>
  BY DEF Stack
<1>a. Current \in Calls /\ Current.vol \in 1..Len(vols) /\ Current.step \in 1..5
  BY <1>1, TopOfCalls
<1>2. /\ N \in Nat \ {0} /\ Current = calls[N]
      /\ \A l \in 1..N : calls[l] \in Calls /\ calls[l].vol \in 1..Len(vols)
  BY <1>1, <1>a, CallsFront DEF GoodCalls
<1>3. PICK c \in 1..Len(vols) : c = Current.vol /\ c = calls[N].vol
  BY <1>a, <1>2
<1>4. Current.step < 5 /\ Current.next = 1 /\ DOMAIN vols[c].parts = {}
  BY <1>3 DEF Loading, Volume
<1>5. PICK k \in 1..4 : k = Current.step
  BY <1>a, <1>4
<1>6. PICK L \in Nat : L = Len(vols) /\ L >= 1
  BY SeqIs DEF AllFilled
<1>7. Scheme = Schemes[k] /\ Volume = vols[c]
  BY <1>3, <1>5 DEF Scheme, Volume
<1>8. /\ Fresh(table, n) /\ n <= Available /\ vols' = WithPartitions(table)
      /\ calls' = WithCurrent([Current EXCEPT !.step = 5]) /\ phase' = "load"
  BY DEF LinksTable
<1>9. /\ Len(vols') = L + n
      /\ DOMAIN vols'[c].parts = 1..n /\ \A i \in 1..n : vols'[c].parts[i] = L + i
      /\ \A v \in 1..L : v # c => vols'[v] = vols[v]
      /\ \A v \in 1..L : SameWindow(vols'[v], vols[v])
      /\ \A i \in 1..n : vols'[L + i] = table[i]
  <2>1. /\ Linked' /\ Len(vols') = Len(vols) + n
        /\ DOMAIN vols'[c].parts = 1..n /\ \A i \in 1..n : vols'[c].parts[i] = Len(vols) + i
        /\ \A v \in 1..Len(vols) : v # c => vols'[v] = vols[v]
        /\ \A v \in 1..Len(vols) : vols'[v].offset = vols[v].offset /\ vols'[v].length = vols[v].length
        /\ \A i \in 1..n : vols'[Len(vols) + i] = table[i] /\ DOMAIN table[i].parts = {}
    <3>1. c = Current.vol /\ DOMAIN vols[c].parts = {}
      BY <1>3, <1>4
    <3>2. Fresh(table, n) /\ n <= Available /\ vols' = WithPartitions(table)
      BY <1>8
    <3> QED
      BY <3>1, <3>2, TableIsLinked, SMTT(30)
  <2>2. \A v \in 1..Len(vols) : SameWindow(vols'[v], vols[v])
    BY <2>1 DEF SameWindow
  <2> QED
    BY <1>6, <2>1, <2>2
<1> DEFINE top == [Current EXCEPT !.step = 5]
<1>10. /\ Len(calls') = N /\ calls'[N].vol = c /\ calls'[N].step = 5 /\ calls'[N].next = 1
       /\ \A l \in 1..N - 1 : calls'[l] = calls[l]
  <2>1. 5 \in 0..5
    OBVIOUS
  <2>a. top \in Calls /\ top.vol = Current.vol /\ top.step = 5 /\ top.next = Current.next
    BY <1>a, <2>1, StepSet
  <2>2. top \in Calls /\ top.vol = c /\ top.step = 5 /\ top.next = 1
    BY <1>3, <1>4, <2>a
  <2> HIDE DEF top
  <2>3. /\ Len(WithCurrent(top)) = N /\ WithCurrent(top)[N] = top
        /\ \A l \in 1..N - 1 : WithCurrent(top)[l] = calls[l]
    BY <1>1, <2>2, CallsWithCurrent
  <2> QED
    BY <1>8, <2>2, <2>3 DEF top
<1> HIDE DEF top
<1>11. PICK more : /\ \A v \in 1..L : more[v] = made[v]
                   /\ \A i \in 1..n : more[L + i] = table[i]
  <2> DEFINE f == [v \in 1..L + n |-> IF v <= L THEN made[v] ELSE table[v - L]]
  <2>1. \A v \in 1..L : f[v] = made[v]
    BY <1>6
  <2>2. \A i \in 1..n : f[L + i] = table[i]
    <3> TAKE i \in 1..n
    <3>1. L + i \in 1..L + n /\ ~(L + i <= L) /\ (L + i) - L = i
      BY <1>6
    <3> QED
      BY <3>1
  <2> HIDE DEF f
  <2> QED
    BY <2>1, <2>2
<1>12. \A v \in 1..L + n : v \in 1..L \/ \E i \in 1..n : v = L + i
  <2> TAKE v \in 1..L + n
  <2>1. ~(v \in 1..L) => v - L \in 1..n /\ v = L + (v - L)
    BY <1>6
  <2> QED
    BY <2>1
<1>13. Reached(made) \subseteq Reached(more)' /\ \A i \in 1..n : table[i] \in Reached(more)'
  <2>1. \A v \in 1..L : v \in 1..L + n
    BY <1>6
  <2>2. \A i \in 1..n : L + i \in 1..L + n
    BY <1>6
  <2>3. Reached(more)' = {more[v] : v \in 1..L + n}
    BY <1>9 DEF Reached
  <2>4. Reached(made) = {made[v] : v \in 1..L}
    BY <1>6 DEF Reached
  <2> QED
    BY <1>11, <2>1, <2>2, <2>3, <2>4
<1>14. \A v : PartsOf(v)' = PartsOf(v)
  BY PartsStay
<1>15. PartsOf(made[c]) \subseteq Reached(more)'
  <2>1. Underway(made)
    BY DEF Made
  <2>2. /\ vols[c].sector = AfterTests(made[c], k + 1)
        /\ \A j \in 1..4 : j < k /\ j # 3 => ~Detected(vols[c], Schemes[j])
    BY <1>3, <1>5, <1>7, <2>1 DEF Underway
  <2>3. Detected(vols[c], Schemes[k]) /\ Schemes[k] \in {"gpt", "apm", "mbr"}
    BY <1>7 DEF Stack
  <2>4. k \in {1, 2, 4}
    <3>1. k = 1 \/ k = 2 \/ k = 3 \/ k = 4
      OBVIOUS
    <3>2. Schemes[3] = "cs"
      BY DEF Schemes
    <3> QED
      BY <2>3, <3>1, <3>2
  <2>5. IsVolume(made[c]) /\ SameWindow(vols[c], made[c])
    BY DEF Made, SameWindow
  <2>6. PartsOf(made[c]) = Range(Table(vols[c], Schemes[k]))
    BY <2>2, <2>3, <2>4, <2>5, PartsAre
  <2>7. table = Table(vols[c], Schemes[k])
    BY <1>7 DEF Entries
  <2>8. Range(table) = {table[i] : i \in 1..n}
    BY <1>8 DEF Fresh, Range
  <2> QED
    BY <1>13, <2>6, <2>7, <2>8
<1>16. \A l \in 1..N - 1 : Waiting(calls[l])' = Waiting(calls[l])
  <2> TAKE l \in 1..N - 1
  <2>1. l \in 1..N /\ N \in 1..N /\ l < N
    BY <1>2
  <2>2. calls[l].vol < calls[N].vol /\ calls[l].vol \in 1..L
    BY <1>2, <1>6, <2>1 DEF Loading
  <2>3. vols'[calls[l].vol] = vols[calls[l].vol] /\ calls'[l] = calls[l]
    BY <1>3, <1>6, <1>9, <1>10, <2>2
  <2> QED
    BY <2>3 DEF Waiting
<1>17. \A l \in 1..N : l = N => /\ Waiting(calls[l]) = {}
                                /\ \A v : v \in Waiting(calls[l])' <=> \E i \in 1..n : v = L + i
  <2> TAKE l \in 1..N
  <2> HAVE l = N
  <2>1. Waiting(calls[l]) = {}
    BY <1>3, <1>4 DEF Waiting
  <2>2. \A i \in 1..n : 1 <= i
    OBVIOUS
  <2>3. calls'[l].vol = c /\ calls'[l].next = 1
    BY <1>10
  <2>4. Waiting(calls[l])' = {vols'[c].parts[i] : i \in 1..n}
    BY <1>9, <2>2, <2>3 DEF Waiting
  <2>5. \A v : v \in Waiting(calls[l])' <=> \E i \in 1..n : v = vols'[c].parts[i]
    BY <2>4
  <2>6. \A i \in 1..n : vols'[c].parts[i] = L + i
    BY <1>9
  <2> QED
    BY <2>1, <2>5, <2>6
<1>18. \A v \in 1..Len(vols') : IsVolume(more[v]) /\ SameWindow(more[v], vols'[v])
  <2> SUFFICES ASSUME NEW v \in 1..L + n PROVE IsVolume(more[v]) /\ SameWindow(more[v], vols'[v])
    BY <1>9
  <2>1. CASE v \in 1..L
    BY <1>6, <1>9, <1>11, <2>1 DEF Made, SameWindow
  <2>2. CASE \E i \in 1..n : v = L + i
    BY <1>8, <1>9, <1>11, <2>2 DEF Fresh, SameWindow
  <2> QED
    BY <1>12, <2>1, <2>2
<1>19. more[1].sector = 1 /\ more[1].type = "map" /\ more[1].parts = <<>> /\ more[1].count = 0
  <2>1. 1 \in 1..L
    BY <1>6
  <2> QED
    BY <1>11, <2>1 DEF Made
<1>20. N \in 1..N /\ \A l \in 1..N : l = N \/ l \in 1..N - 1
  BY <1>2
<1>21. Current' = calls'[N] /\ ~(Current'.step < 5)
  <2>1. Current' = calls'[N]
    BY <1>10 DEF Current, Last
  <2> QED
    BY <1>10, <2>1
<1>22. Underway(more)'
  <2>1. \A l \in 1..N : \A v \in Waiting(calls[l])' : vols'[v] = more[v]
    <3> SUFFICES ASSUME NEW l \in 1..N, NEW v \in Waiting(calls[l])' PROVE vols'[v] = more[v]
      OBVIOUS
    <3>1. CASE l = N
      <4>1. PICK i \in 1..n : v = L + i
        BY <1>17, <3>1
      <4> QED
        BY <1>9, <1>11, <4>1
    <3>2. CASE l \in 1..N - 1
      <4>1. v \in Waiting(calls[l])
        BY <1>16, <3>2
      <4>2. Unloaded(v) /\ v \in 1..Len(vols) /\ vols[v] = made[v]
        BY <1>2, <4>1, WaitingIs DEF Loading, Made, Underway
      <4>3. v # c
        BY <1>3, <1>20, <4>2 DEF Unloaded
      <4> QED
        BY <1>6, <1>9, <1>11, <4>2, <4>3
    <3> QED
      BY <1>20, <3>1, <3>2
  <2> QED
    BY <1>10, <1>21, <2>1 DEF Underway
<1>23. \A v \in 1..Len(vols') : IsMap(more[v].type) => Awaited(v)' \/ PartsOf(more[v])' \subseteq Reached(more)'
  <2> SUFFICES ASSUME NEW v \in 1..L + n, IsMap(more[v].type)
               PROVE  Awaited(v)' \/ PartsOf(more[v]) \subseteq Reached(more)'
    BY <1>9, <1>14
  <2>1. CASE v \in 1..L
    <3>1. more[v] = made[v]
      BY <1>11, <2>1
    <3>2. CASE PartsOf(made[v]) \subseteq Reached(made)
      BY <1>13, <3>1, <3>2
    <3>3. CASE v = c
      BY <1>15, <3>1, <3>3
    <3>4. CASE \E l \in 1..N : v \in Waiting(calls[l])
      <4>1. PICK l \in 1..N - 1 : v \in Waiting(calls[l])
        BY <1>17, <1>20, <3>4
      <4>2. l \in 1..N /\ v \in Waiting(calls[l])'
        BY <1>2, <1>16, <4>1
      <4> QED
        BY <1>10, <4>2 DEF Awaited
    <3>5. Awaited(v) \/ PartsOf(made[v]) \subseteq Reached(made)
      BY <1>6, <2>1, <3>1 DEF Made
    <3> QED
      BY <1>3, <3>2, <3>3, <3>4, <3>5 DEF Awaited
  <2>2. CASE \E i \in 1..n : v = L + i
    <3>1. PICK l \in 1..N : l = N
      BY <1>20
    <3>2. v \in Waiting(calls[l])'
      BY <1>17, <2>2, <3>1
    <3> QED
      BY <1>10, <3>2 DEF Awaited
  <2> QED
    BY <1>12, <2>1, <2>2
<1>24. Made(more)'
  BY <1>8, <1>18, <1>19, <1>22, <1>23 DEF Made, SameWindow
<1> QED
  BY <1>24

\* The device was made as a map, which no test has changed.
LEMMA TreeInitMade ==
  ASSUME TreeInit
  PROVE  \E made : Made(made)
<1> DEFINE length == Max(DOMAIN disk) + 1
           device == [ offset |-> 0, length |-> length, sector |-> 1, type |-> "unknown",
                       parts |-> <<>>, count |-> 0 ]
           root == [ offset |-> 0, length |-> length, sector |-> 1, type |-> "map",
                     parts |-> <<>>, count |-> 0 ]
<1>1. vols = <<device>> /\ calls = <<LoadCall(1)>> /\ phase = "load"
  BY DEF TreeInit
<1> HIDE DEF length
<1>2. DOMAIN <<>> = {}
  OBVIOUS
<1>3. Len(vols) = 1 /\ vols[1] = device /\ DOMAIN vols[1].parts = {}
  BY <1>1, <1>2
<1>4. Len(calls) = 1 /\ calls[1] = LoadCall(1) /\ Current = LoadCall(1)
  BY <1>1 DEF Current, Last
<1>5. LoadCall(1).vol = 1 /\ LoadCall(1).step = 1 /\ LoadCall(1).next = 1
  BY DEF LoadCall
<1>6. \A n \in 1..1 : n = 1
  OBVIOUS
<1>7. PICK made : made = [n \in 1..1 |-> root]
  OBVIOUS
<1>8. made[1] = root
  BY <1>7
<1>9. IsVolume(made[1]) /\ SameWindow(made[1], vols[1])
  BY <1>3, <1>8 DEF IsVolume, SameWindow
<1>10. Underway(made)
  <2>1. \A l \in 1..Len(calls) : Waiting(calls[l]) = {}
    BY <1>3, <1>4, <1>5, <1>6 DEF Waiting
  <2>2. Volume = device /\ Current.vol = 1 /\ Current.step = 1
    BY <1>3, <1>4, <1>5 DEF Volume
  <2>3. AfterTests(root, 1) = 1
    BY DEF AfterTests
  <2>4. \A j \in 1..4 : ~(j < 1)
    OBVIOUS
  <2> HIDE DEF root
  <2>5. \A u, m, k : u = Volume /\ m = made[Current.vol] /\ k = Current.step /\ k < 5 =>
          /\ phase = "load" => u.sector = AfterTests(m, k)
          /\ phase = "table" => u.sector = AfterTests(m, k + 1)
          /\ \A j \in 1..4 : j < k /\ j # 3 => ~Detected(u, Schemes[j])
    BY <1>1, <1>8, <2>2, <2>3, <2>4
  <2> QED
    BY <2>1, <2>5 DEF Underway
<1>11. Awaited(1)
  BY <1>4, <1>5 DEF Awaited
<1>12. made[1].sector = 1 /\ made[1].type = "map" /\ made[1].parts = <<>> /\ made[1].count = 0
  BY <1>8
<1>13. Made(made)
  BY <1>1, <1>3, <1>6, <1>9, <1>10, <1>11, <1>12 DEF Made
<1> QED
  BY <1>13

\* The loop comes to the next slot, and leaves no map behind.
LEMMA NestMade ==
  ASSUME AllFilled, Linked, Stack, Loading, disk' = disk, NEW made, Made(made), Nest
  PROVE  Made(made)'
<1> DEFINE N == Len(calls)
<1>1. /\ phase = "load" /\ phase' = "load" /\ vols' = vols /\ Current.step = 5
      /\ \/ Slot # 0 /\ calls' = Append(WithCurrent(Advanced), LoadCall(Slot))
         \/ ~(Slot # 0 /\ IsMap(vols[Slot].type)) /\ calls' = WithCurrent(Advanced)
  BY DEF Nest
<1>2. GoodCalls(calls, Len(vols), 1..5) /\ calls # <<>>
  BY <1>1 DEF Stack
<1>a. Current \in Calls /\ Current.vol \in 1..Len(vols)
  BY <1>2, TopOfCalls
<1>3. /\ N \in Nat \ {0} /\ Current = calls[N]
      /\ \A l \in 1..N : calls[l] \in Calls /\ calls[l].vol \in 1..Len(vols)
  BY <1>2, <1>a, CallsFront DEF GoodCalls
<1>4. /\ Advanced \in Calls /\ Advanced.vol = Current.vol /\ Advanced.step = 5
      /\ Advanced.next = Current.next + 1 /\ Current.next \in Nat
  BY <1>1, <1>a, AdvancedCall, CallIs
<1>5. PICK s : s = WithCurrent(Advanced)
  OBVIOUS
<1>6. /\ s \in Seq(Calls) /\ Len(s) = N /\ s[N] = Advanced
      /\ \A l \in 1..N - 1 : s[l] = calls[l]
  BY <1>2, <1>4, <1>5, CallsWithCurrent
<1>7. N \in 1..N /\ \A l \in 1..N : l = N \/ l \in 1..N - 1
  BY <1>3
<1>8. ASSUME NEW l \in 1..N, NEW v \in Waiting(calls[l])
      PROVE  /\ vols[v] = made[v] /\ v \in 1..Len(vols)
             /\ v \in Waiting(s[l]) \/ (Slot # 0 /\ v = Slot)
  <2>1. v \in 1..Len(vols) /\ vols[v] = made[v]
    BY <1>1, <1>3, WaitingIs DEF Made, Underway
  <2>2. CASE l \in 1..N - 1
    BY <1>6, <2>1, <2>2
  <2>3. CASE l = N
    <3>1. PICK t \in DOMAIN vols[Current.vol].parts : Current.next <= t /\ v = vols[Current.vol].parts[t]
      BY <1>3, <1>8, <2>3 DEF Waiting
    <3>2. t \in Nat
      <4>1. t \in 1..vols[Current.vol].count
        BY <1>a, <3>1 DEF Linked
      <4> QED
        BY <4>1
    <3>3. CASE t = Current.next
      <4>1. Slot = v
        BY <3>1, <3>3 DEF Slot, Volume
      <4> QED
        BY <2>1, <4>1
    <3>4. CASE t # Current.next
      <4>1. Current.next + 1 <= t
        BY <1>4, <3>1, <3>2, <3>4
      <4>2. s[l].vol = Current.vol /\ s[l].next = Current.next + 1
        BY <1>4, <1>6, <2>3
      <4>3. v \in Waiting(s[l])
        BY <3>1, <4>1, <4>2 DEF Waiting
      <4> QED
        BY <2>1, <4>3
    <3> QED
      BY <3>3, <3>4
  <2> QED
    BY <1>7, <2>2, <2>3
<1>9. ASSUME NEW l \in 1..N, NEW v \in Waiting(s[l])
       PROVE  v \in Waiting(calls[l])
  <2>1. CASE l \in 1..N - 1
    BY <1>6, <1>9, <2>1
  <2>2. CASE l = N
    <3>1. s[l].vol = Current.vol /\ s[l].next = Current.next + 1
      BY <1>4, <1>6, <2>2
    <3>2. PICK t \in DOMAIN vols[Current.vol].parts : Current.next + 1 <= t /\ v = vols[Current.vol].parts[t]
      BY <1>9, <3>1 DEF Waiting
    <3>3. t \in Nat
      <4>1. t \in 1..vols[Current.vol].count
        BY <1>a, <3>2 DEF Linked
      <4> QED
        BY <4>1
    <3>4. Current.next <= t
      BY <1>4, <3>2, <3>3
    <3> QED
      BY <1>3, <2>2, <3>2, <3>4 DEF Waiting
  <2> QED
    BY <1>7, <2>1, <2>2
<1>10. \A v \in 1..Len(vols) : SameWindow(vols'[v], vols[v])
  BY <1>1 DEF SameWindow
<1>11. ASSUME NEW v \in 1..Len(vols), Awaited(v), IsMap(made[v].type)
       PROVE  \/ \E l \in 1..N : v \in Waiting(s[l])
              \/ Slot # 0 /\ v = Slot /\ IsMap(vols[Slot].type)
  <2>1. PICK l \in 1..N : v \in Waiting(calls[l])
    BY <1>1, <1>11 DEF Awaited
  <2> QED
    BY <1>8, <1>11, <2>1
<1>12. CASE calls' = s /\ ~(Slot # 0 /\ IsMap(vols[Slot].type))
  <2>1. Current' = s[N]
    BY <1>6, <1>12 DEF Current, Last
  <2>2. ~(Current'.step < 5)
    BY <1>4, <1>6, <2>1
  <2>3. \A l \in 1..N : Waiting(calls[l])' = Waiting(s[l])
    BY <1>1, <1>12 DEF Waiting
  <2>4. Underway(made)'
    <3>1. \A l \in 1..N : \A v \in Waiting(calls[l])' : vols'[v] = made[v]
      BY <1>1, <1>8, <1>9, <2>3
    <3>2. Len(calls') = N
      BY <1>6, <1>12
    <3>3. \A k : k = Current'.step => ~(k < 5)
      BY <2>2
    <3> QED
      BY <3>1, <3>2, <3>3, Zenon DEF Underway
  <2>5. \A v \in 1..Len(vols) : Awaited(v) /\ IsMap(made[v].type) => Awaited(v)'
    BY <1>6, <1>11, <1>12, <2>3 DEF Awaited
  <2> QED
    BY <1>1, <1>10, <2>4, <2>5, MadeKept
<1>13. CASE Slot # 0 /\ calls' = Append(s, LoadCall(Slot))
  <2>1. Len(vols) \in Nat
    BY SeqIs DEF AllFilled
  <2>2. PICK u \in 1..Len(vols) : u = Slot
    BY <1>a, <1>13, <2>1, SlotIs
  <2>3. Current.next \in DOMAIN vols[Current.vol].parts /\ u = vols[Current.vol].parts[Current.next]
    BY <1>13, <2>2 DEF Slot, Volume
  <2>4. u \in Waiting(calls[N])
    <3>1. Current.next <= Current.next
      BY <1>4
    <3> QED
      BY <1>3, <2>3, <3>1 DEF Waiting
  <2>5. vols[u] = made[u] /\ DOMAIN vols[u].parts = {}
    BY <1>1, <1>7, <1>8, <2>4 DEF Loading, Unloaded
  <2> DEFINE top == LoadCall(u)
  <2>6. top \in Calls /\ top.vol = u /\ top.step = 1 /\ top.next = 1
    <3>1. top.next = 1
      BY DEF LoadCall
    <3> QED
      BY <2>1, <2>2, <3>1, NewCallIs
  <2> HIDE DEF top
  <2>7. calls' = Append(s, top)
    BY <1>13, <2>2 DEF top
  <2>8. /\ Len(calls') = N + 1 /\ calls'[N + 1] = top
        /\ \A l \in 1..N : calls'[l] = s[l]
    BY <1>6, <2>6, <2>7, CallsAppended
  <2>9. Current' = top
    BY <2>8 DEF Current, Last
  <2>10. \A l \in 1..N + 1 : l \in 1..N \/ l = N + 1
    BY <1>3
  <2>11. \A l \in 1..N : Waiting(calls[l])' = Waiting(s[l])
    BY <1>1, <2>8 DEF Waiting
  <2>12. \A l \in 1..N + 1 : l = N + 1 => Waiting(calls[l])' = {}
    BY <1>1, <2>5, <2>6, <2>8 DEF Waiting
  <2>13. Underway(made)'
    <3>1. \A l \in 1..N + 1 : \A v \in Waiting(calls[l])' : vols'[v] = made[v]
      <4> SUFFICES ASSUME NEW l \in 1..N + 1, NEW v \in Waiting(calls[l])' PROVE vols'[v] = made[v]
        OBVIOUS
      <4>1. l \in 1..N
        BY <2>10, <2>12
      <4> QED
        BY <1>1, <1>8, <1>9, <2>11, <4>1
    <3>2. Volume' = vols[u] /\ Current'.vol = u /\ Current'.step = 1
      BY <1>1, <2>6, <2>9 DEF Volume
    <3>3. AfterTests(made[u], 1)' = made[u].sector
      BY TestsStay DEF AfterTests
    <3>4. \A j \in 1..4 : ~(j < 1)
      OBVIOUS
    <3>5. \A w, m, k : w = Volume' /\ m = made[Current'.vol] /\ k = Current'.step /\ k < 5 =>
            /\ phase' = "load" => w.sector = AfterTests(m, k)'
            /\ phase' = "table" => w.sector = AfterTests(m, k + 1)'
            /\ \A j \in 1..4 : j < k /\ j # 3 => ~Detected(w, Schemes[j])'
      BY <1>1, <2>5, <3>2, <3>3, <3>4
    <3> QED
      BY <2>8, <3>1, <3>5 DEF Underway
  <2>14. ASSUME NEW v \in 1..Len(vols), Awaited(v), IsMap(made[v].type) PROVE Awaited(v)'
    <3>1. CASE v = u
      BY <2>6, <2>9, <3>1 DEF Awaited
    <3>2. CASE v # u
      <4>1. PICK l \in 1..N : v \in Waiting(s[l])
        BY <1>11, <2>2, <2>14, <3>2
      <4>2. l \in 1..N + 1 /\ v \in Waiting(calls[l])'
        BY <1>3, <2>11, <4>1
      <4> QED
        BY <2>8, <4>2 DEF Awaited
    <3> QED
      BY <3>1, <3>2
  <2> QED
    BY <1>1, <1>10, <2>13, <2>14, MadeKept
<1> QED
  BY <1>1, <1>5, <1>12, <1>13

\* The loop of a call is over when nothing waits for it.
LEMMA LoadedMade ==
  ASSUME AllFilled, Linked, Stack, Loading, disk' = disk, NEW made, Made(made), Loaded
  PROVE  Made(made)'
<1> DEFINE N == Len(calls)
<1>1. /\ phase = "load" /\ vols' = vols /\ Current.step = 5 /\ ~More
      /\ N > 1 => calls' = Front(calls) /\ phase' = "load"
      /\ ~(N > 1) => phase' = "find"
  BY DEF Loaded
<1>2. GoodCalls(calls, Len(vols), 1..5) /\ calls # <<>>
  BY <1>1 DEF Stack
<1>a. Current \in Calls /\ Current.vol \in 1..Len(vols) /\ Current.next \in Nat
  BY <1>2, TopOfCalls, CallIs
<1>3. /\ Len(Front(calls)) = N - 1 /\ N \in Nat \ {0} /\ Current = calls[N]
      /\ \A l \in 1..N - 1 : Front(calls)[l] = calls[l]
  BY <1>2, CallsFront
<1>4. Waiting(Current) = {}
  <2>1. /\ DOMAIN vols[Current.vol].parts = 1..vols[Current.vol].count /\ vols[Current.vol].count \in Nat
        /\ ~(Current.next <= vols[Current.vol].count)
    BY <1>1, <1>a DEF Linked, AllFilled, Filled, More, Volume
  <2>2. \A t \in DOMAIN vols[Current.vol].parts : ~(Current.next <= t)
    BY <1>a, <2>1
  <2> QED
    BY <2>2 DEF Waiting
<1>5. \A v \in 1..Len(vols) : SameWindow(vols'[v], vols[v])
  BY <1>1 DEF SameWindow
<1>6. \A l \in 1..N : l = N \/ l \in 1..N - 1
  BY <1>3
<1>7. ASSUME NEW v, Awaited(v) PROVE \E l \in 1..N - 1 : v \in Waiting(calls[l])
  <2>1. PICK l \in 1..N : v \in Waiting(calls[l])
    BY <1>1, <1>7 DEF Awaited
  <2> QED
    BY <1>3, <1>4, <1>6, <2>1
<1>8. CASE N > 1
  <2>1. Len(calls') = N - 1 /\ \A l \in 1..N - 1 : calls'[l] = calls[l]
    BY <1>1, <1>3, <1>8
  <2>2. \A l \in 1..N - 1 : l \in 1..N /\ l < N /\ N \in 1..N
    BY <1>3
  <2>3. \A l \in 1..N - 1 : calls[l].step = 5
    BY <1>1, <2>2 DEF Loading
  <2>4. Current' = calls[N - 1] /\ N - 1 \in 1..N - 1
    BY <1>3, <1>8, <2>1 DEF Current, Last
  <2>5. ~(Current'.step < 5)
    BY <2>3, <2>4
  <2>6. \A l \in 1..N - 1 : Waiting(calls[l])' = Waiting(calls[l])
    BY <1>1, <2>1 DEF Waiting
  <2>7. Underway(made)'
    <3>1. \A l \in 1..N - 1 : \A v \in Waiting(calls[l])' : vols'[v] = made[v]
      BY <1>1, <2>2, <2>6 DEF Made, Underway
    <3> QED
      BY <2>1, <2>5, <3>1 DEF Underway
  <2>8. \A v \in 1..Len(vols) : Awaited(v) => Awaited(v)'
    BY <1>7, <2>1, <2>6 DEF Awaited
  <2> QED
    BY <1>1, <1>5, <1>8, <2>7, <2>8, MadeKept
<1>9. CASE ~(N > 1)
  <2>1. \A l \in 1..N - 1 : FALSE
    BY <1>3, <1>9
  <2>2. \A v : ~Awaited(v)
    BY <1>7, <2>1
  <2>3. phase' = "find"
    BY <1>1, <1>9
  <2> QED
    BY <1>1, <1>5, <2>2, <2>3, MadeKept
<1> QED
  BY <1>8, <1>9

\* What the maps among some volumes designate.
Designates(volumes) == UNION {PartsOf(v) : v \in {u \in volumes : IsMap(u.type)}}

\* A set with the device, and with what the maps in it designate, has all that is
\* designated.
LEMMA DesignatedWithin ==
  ASSUME NEW S, NEW device \in S,
         device = [vols[1] EXCEPT !.sector = 1, !.type = "map", !.parts = <<>>, !.count = 0],
         \A v \in S : IsMap(v.type) => PartsOf(v) \subseteq S
  PROVE  Designated \subseteq S
<1> DEFINE L == MaxDescriptors
           root == [vols[1] EXCEPT !.sector = 1, !.type = "map", !.parts = <<>>, !.count = 0]
           Reaches(f, n) == f = [m \in 0..n |-> IF m = 0 THEN {root} ELSE f[m - 1] \cup Designates(f[m - 1])]
           Sets == SUBSET S
           Fails == {n \in 0..L : ~ \E f \in [0..n -> Sets] : Reaches(f, n)}
<1>0. root \in S
  OBVIOUS
<1> HIDE DEF root
<1>1. L \in Nat
  BY DescriptorsAssumption
<1>2. \A volumes \in Sets : Designates(volumes) \subseteq S
  BY DEF Designates
<1>3. CASE Fails # {}
  <2>1. PICK n \in Fails : \A m \in Fails : n <= m
    <3>1. Fails \subseteq Nat
      BY <1>1
    <3> HIDE DEF Fails
    <3> QED
      BY <1>3, <3>1, LeastNatural
  <2>2. n \in 0..L /\ ~ \E f \in [0..n -> Sets] : Reaches(f, n)
    BY <2>1
  <2>3. CASE n = 0
    <3> DEFINE f == [m \in 0..0 |-> {root}]
    <3>1. f \in [0..n -> Sets]
      BY <1>0, <2>3
    <3>2. Reaches(f, n)
      BY <2>3
    <3> HIDE DEF f, Sets, Reaches
    <3> QED
      BY <2>2, <3>1, <3>2
  <2>4. CASE n # 0
    <3>1. n - 1 \in 0..L /\ ~(n <= n - 1)
      BY <1>1, <2>2, <2>4
    <3>2. PICK f \in [0..(n - 1) -> Sets] : Reaches(f, n - 1)
      BY <2>1, <3>1
    <3> DEFINE more == f[n - 1] \cup Designates(f[n - 1])
               g == [m \in 0..n |-> IF m = n THEN more ELSE f[m]]
    <3>3. more \in Sets
      <4>1. f[n - 1] \in Sets
        BY <2>2, <2>4, <3>2
      <4> QED
        BY <1>2, <4>1 DEF Designates
    <3> HIDE DEF more
    <3>4. g \in [0..n -> Sets]
      <4> HIDE DEF Sets
      <4>1. \A m \in 0..n : m # n => f[m] \in Sets
        <5> TAKE m \in 0..n
        <5>1. m # n => m \in 0..(n - 1)
          BY <2>2
        <5> HIDE DEF Reaches
        <5> QED
          BY <3>2, <5>1
      <4> HIDE DEF Reaches
      <4> QED
        BY <3>3, <4>1
    <3>5. \A m \in 0..n : g[m] = IF m = 0 THEN {root} ELSE g[m - 1] \cup Designates(g[m - 1])
      <4> TAKE m \in 0..n
      <4>1. CASE m = n
        <5>1. m - 1 \in 0..n /\ m - 1 # n
          BY <2>2, <2>4, <4>1
        <5>2. g[m] = more /\ g[m - 1] = f[m - 1]
          BY <4>1, <5>1
        <5> QED
          BY <2>4, <4>1, <5>2 DEF more
      <4>2. CASE m # n /\ m = 0
        <5>1. m \in 0..(n - 1)
          BY <2>2, <4>2
        <5> QED
          BY <3>2, <4>2, <5>1
      <4>3. CASE m # n /\ m # 0
        <5>1. m \in 0..(n - 1) /\ m - 1 \in 0..n /\ m - 1 # n
          BY <2>2, <4>3
        <5>2. g[m] = f[m] /\ g[m - 1] = f[m - 1]
          BY <4>3, <5>1
        <5>3. f[m] = f[m - 1] \cup Designates(f[m - 1])
          BY <3>2, <4>3, <5>1
        <5> QED
          BY <4>3, <5>2, <5>3
      <4> QED
        BY <4>1, <4>2, <4>3
    <3>6. Reaches(g, n)
      <4> HIDE DEF g
      <4>1. g = [m \in 0..n |-> g[m]]
        BY <3>4
      <4> QED
        BY <3>5, <4>1
    <3> HIDE DEF g, Sets, Reaches
    <3> QED
      BY <2>2, <3>4, <3>6
  <2> QED
    BY <2>3, <2>4
<1>4. CASE Fails = {}
  <2> DEFINE reach == CHOOSE f : Reaches(f, L)
  <2>1. L \in 0..L
    BY <1>1
  <2>2. \E f \in [0..L -> Sets] : Reaches(f, L)
    BY <1>4, <2>1
  <2>3. Reaches(reach, L)
    <3> HIDE DEF Reaches, Sets, L
    <3> QED
      BY <2>2, Zenon
  <2>4. Designated = reach[L]
    BY Zenon DEF Designated, Designates, root
  <2> HIDE DEF reach
  <2>5. \A m \in 0..L : reach[m] = IF m = 0 THEN {root} ELSE reach[m - 1] \cup Designates(reach[m - 1])
    BY <2>3
  <2> DEFINE Escapes == {m \in 0..L : ~ (reach[m] \subseteq S)}
  <2>6. CASE Escapes = {}
    BY <2>1, <2>4, <2>6
  <2>7. CASE Escapes # {}
    <3>1. PICK m \in Escapes : \A y \in Escapes : m <= y
      <4>1. Escapes \subseteq Nat
        BY <1>1
      <4> HIDE DEF Escapes
      <4> QED
        BY <2>7, <4>1, LeastNatural
    <3>2. m \in 0..L /\ ~(reach[m] \subseteq S)
      BY <3>1
    <3>3. m # 0
      BY <1>0, <2>5, <3>2
    <3>4. m - 1 \in 0..L /\ ~(m <= m - 1)
      BY <1>1, <3>2, <3>3
    <3>5. reach[m - 1] \subseteq S
      BY <3>1, <3>4
    <3>6. reach[m] = reach[m - 1] \cup Designates(reach[m - 1])
      BY <2>5, <3>2, <3>3
    <3> QED
      BY <1>2, <3>2, <3>5, <3>6 DEF Designates
  <2> QED
    BY <2>6, <2>7
<1> QED
  BY <1>3, <1>4

\* A step that leaves the volumes and the calls as they are.
LEMMA MadeUnchanged ==
  ASSUME disk' = disk, UNCHANGED <<vols, calls, phase>>, NEW made, Made(made)
  PROVE  Made(made)'
<1>1. \A v : PartsOf(v)' = PartsOf(v)
  BY PartsStay
<1>2. /\ \A u, k : AfterTests(u, k)' = AfterTests(u, k)
      /\ \A u, scheme : Detected(u, scheme)' <=> Detected(u, scheme)
  BY TestsStay, DetectedStays
<1>3. Current' = Current /\ Volume' = Volume
  BY DEF Current, Volume
<1>4. \A l \in 1..Len(calls) : Waiting(calls[l])' = Waiting(calls[l])
  BY DEF Waiting
<1>5. \A v : Awaited(v)' <=> Awaited(v)
  BY <1>3, <1>4 DEF Awaited
<1>6. Reached(made)' = Reached(made)
  BY DEF Reached
<1>7. phase \in {"load", "table"} => Underway(made)'
  <2> SUFFICES ASSUME phase \in {"load", "table"} PROVE Underway(made)'
    OBVIOUS
  <2>1. Underway(made)
    BY DEF Made
  <2>2. \A l \in 1..Len(calls') : \A v \in Waiting(calls[l])' : vols'[v] = made[v]
    BY <1>4, <2>1 DEF Underway
  <2>3. \A u, m, k : u = Volume' /\ m = made[Current'.vol] /\ k = Current'.step /\ k < 5 =>
          /\ phase' = "load" => u.sector = AfterTests(m, k)'
          /\ phase' = "table" => u.sector = AfterTests(m, k + 1)'
          /\ \A j \in 1..4 : j < k /\ j # 3 => ~Detected(u, Schemes[j])'
    BY <1>2, <1>3, <2>1 DEF Underway
  <2> QED
    BY <2>2, <2>3 DEF Underway
<1>8. \A v \in 1..Len(vols') : IsVolume(made[v]) /\ SameWindow(made[v], vols'[v])
  BY DEF Made, SameWindow
<1>9. phase' # "crashed" => \A v \in 1..Len(vols') : IsMap(made[v].type) =>
        \/ phase' \in {"load", "table"} /\ Awaited(v)'
        \/ PartsOf(made[v])' \subseteq Reached(made)'
  BY <1>1, <1>5, <1>6 DEF Made
<1>10. made[1].sector = 1 /\ made[1].type = "map" /\ made[1].parts = <<>> /\ made[1].count = 0
  BY DEF Made
<1> QED
  BY <1>7, <1>8, <1>9, <1>10 DEF Made, SameWindow

\* A step that makes no volume when the loading is over, or when it fails.
LEMMA MadeOver ==
  ASSUME disk' = disk, vols' = vols, phase' \notin {"load", "table"}, NEW made, Made(made),
         phase' = "crashed" \/ phase \notin {"load", "table", "crashed"}
  PROVE  Made(made)'
<1>1. CASE phase' = "crashed"
  <2>1. \A v \in 1..Len(vols') : IsVolume(made[v]) /\ SameWindow(made[v], vols'[v])
    BY DEF Made, SameWindow
  <2>2. made[1].sector = 1 /\ made[1].type = "map" /\ made[1].parts = <<>> /\ made[1].count = 0
    BY DEF Made
  <2> QED
    BY <1>1, <2>1, <2>2 DEF Made, SameWindow
<1>2. CASE phase \notin {"load", "table", "crashed"}
  <2>1. \A v \in 1..Len(vols) : SameWindow(vols'[v], vols[v])
    BY DEF SameWindow
  <2> QED
    BY <1>2, <2>1, MadeKept
<1> QED
  BY <1>1, <1>2

\* The volumes are those that their maps designate, as they were made, when no MBR
\* has gaps and there was a descriptor for each.
Founded == Gapless /\ Available > 0 => \E made : Made(made)

\* Every step keeps that: a table that is cut short leaves no descriptor.
LEMMA FoundedStep ==
  ASSUME TreeInductive, Gapless => Linked /\ Loading, Founded, [TreeNext]_treeVars
  PROVE  Founded'
<1> SUFFICES ASSUME Gapless', (Available > 0)' PROVE \E made : Made(made)'
  BY DEF Founded
<1>1. disk' = disk /\ disk \in Disks
  BY DEF TreeInductive, TreeNext, treeVars, NextScheme, Detect, Load, LoadPart, Nest, Loaded, Match,
         NoMatch, Descend, Return, Open, Close
<1>2. Gapless
  BY <1>1 DEF Gapless
<1>3. AllFilled /\ Stack /\ Linked /\ Loading
  BY <1>2 DEF TreeInductive
<1>4. PICK L \in Nat : L = Len(vols) /\ L <= MaxDescriptors + 1 /\ MaxDescriptors \in Nat
  BY <1>3, DescriptorsAssumption DEF AllFilled
<1>5. Len(vols') = Len(vols) => \E made : Made(made)
  <2>1. Len(vols') = Len(vols) => Available > 0
    BY DEF Available
  <2> QED
    BY <1>2, <2>1 DEF Founded
<1>6. CASE UNCHANGED treeVars
  <2>1. UNCHANGED <<vols, calls, phase>>
    BY <1>6 DEF treeVars
  <2>2. PICK made : Made(made)
    BY <1>5, <2>1
  <2> QED
    BY <1>1, <2>1, <2>2, MadeUnchanged
<1>7. CASE NextScheme \/ Detect
  <2>1. vols' = [vols EXCEPT ![Current.vol] = Tested(@, Scheme)]
    BY <1>7 DEF NextScheme, Detect
  <2>2. Len(vols') = Len(vols)
    <3>1. IsSeq(vols)
      BY <1>3 DEF AllFilled
    <3> QED
      BY <2>1, <3>1, SeqIs
  <2>3. PICK made : Made(made)
    BY <1>5, <2>2
  <2> QED
    BY <1>1, <1>3, <1>7, <2>3, TestMade
<1>8. CASE Load \/ LoadPart
  <2>1. /\ phase = "table"
        /\ \/ \E n \in Nat : \E table : LinksTable(n, table)
           \/ phase' = "crashed" /\ UNCHANGED <<vols, calls, found>>
    BY <1>1, <1>2, <1>3, <1>8, TableRead
  <2>2. CASE \E n \in Nat : \E table : LinksTable(n, table)
    <3>1. PICK n \in Nat : \E table : LinksTable(n, table)
      BY <2>2
    <3>2. PICK table : LinksTable(n, table)
      BY <3>1
    <3>3. PICK c \in 1..Len(vols) : c = Current.vol /\ DOMAIN vols[c].parts = {}
      <4>1. Current.vol \in 1..Len(vols)
        BY <1>3, <2>1, TopOfCalls DEF Stack
      <4>2. DOMAIN Volume.parts = {}
        BY <1>3, <2>1 DEF Loading
      <4> QED
        BY <4>1, <4>2 DEF Volume
    <3>4. Fresh(table, n) /\ n <= Available /\ vols' = WithPartitions(table)
      BY <3>2 DEF LinksTable
    <3>5. Len(vols') = Len(vols) + n
      BY <1>3, <3>3, <3>4, TableIsLinked
    <3>6. L + n < MaxDescriptors + 1
      <4>1. Available' = MaxDescriptors + 1 - (L + n)
        BY <1>4, <3>5 DEF Available
      <4> QED
        BY <1>4, <4>1
    <3>7. Available = MaxDescriptors + 1 - L
      BY <1>4 DEF Available
    <3>8. Available > 0 /\ n # Available
      BY <1>4, <3>6, <3>7
    <3>9. PICK made : Made(made)
      BY <1>2, <3>8 DEF Founded
    <3>10. table = Entries
      BY <3>2, <3>8 DEF LinksTable
    <3> QED
      BY <1>1, <1>3, <2>1, <3>2, <3>9, <3>10, LinkMade
  <2>3. CASE phase' = "crashed" /\ UNCHANGED <<vols, calls, found>>
    <3>1. PICK made : Made(made)
      BY <1>5, <2>3
    <3> QED
      BY <1>1, <2>3, <3>1, MadeOver
  <2> QED
    BY <2>1, <2>2, <2>3
<1>9. CASE Nest \/ Loaded
  <2>1. vols' = vols
    BY <1>9 DEF Nest, Loaded
  <2>2. PICK made : Made(made)
    BY <1>5, <2>1
  <2> QED
    BY <1>1, <1>3, <1>9, <2>2, NestMade, LoadedMade
<1>10. CASE Match \/ NoMatch \/ Descend \/ Return \/ Open \/ Close
  <2>1. vols' = vols /\ phase' \notin {"load", "table"} /\ phase \in {"find", "open", "close"}
    BY <1>10 DEF Match, NoMatch, Descend, Return, Open, Close
  <2>2. PICK made : Made(made)
    BY <1>5, <2>1
  <2> QED
    BY <1>1, <2>1, <2>2, MadeOver
<1> QED
  BY <1>6, <1>7, <1>8, <1>9, <1>10 DEF TreeNext

\* Once the loading is over, all that is designated was made.
LEMMA DesignatedMade ==
  ASSUME AllFilled, NEW made, Made(made), phase \notin {"load", "table", "crashed"}
  PROVE  Designated \subseteq Reached(made)
<1>1. 1 \in 1..Len(vols)
  <2>1. PICK L \in Nat : L = Len(vols) /\ 1 <= L
    BY SeqIs DEF AllFilled
  <2> QED
    BY <2>1
<1>2. made[1] \in Reached(made)
  BY <1>1 DEF Reached
<1>3. made[1] = [vols[1] EXCEPT !.sector = 1, !.type = "map", !.parts = <<>>, !.count = 0]
  <2>1. /\ made[1] = [ offset |-> made[1].offset, length |-> made[1].length, sector |-> 1, type |-> "map",
                       parts |-> <<>>, count |-> 0 ]
        /\ made[1].offset = vols[1].offset /\ made[1].length = vols[1].length
    <3>1. IsVolume(made[1]) /\ SameWindow(made[1], vols[1])
      BY <1>1 DEF Made
    <3>2. made[1].sector = 1 /\ made[1].type = "map" /\ made[1].parts = <<>> /\ made[1].count = 0
      BY DEF Made
    <3> QED
      BY <3>1, <3>2 DEF IsVolume, SameWindow
  <2>2. vols[1] = [ offset |-> vols[1].offset, length |-> vols[1].length, sector |-> vols[1].sector,
                    type |-> vols[1].type, parts |-> vols[1].parts, count |-> vols[1].count ]
    BY <1>1 DEF AllFilled, Filled, IsVolume
  <2>3. PICK o, l, s, t, p, c :
          /\ vols[1] = [ offset |-> o, length |-> l, sector |-> s, type |-> t, parts |-> p, count |-> c ]
          /\ o = vols[1].offset /\ l = vols[1].length
    BY <2>2
  <2>4. [vols[1] EXCEPT !.sector = 1, !.type = "map", !.parts = <<>>, !.count = 0]
        = [ offset |-> o, length |-> l, sector |-> 1, type |-> "map", parts |-> <<>>, count |-> 0 ]
    <3> DEFINE R(a, b, d, e) == [ offset |-> o, length |-> l, sector |-> a, type |-> b, parts |-> d, count |-> e ]
    <3>1. PICK d1 : d1 = [vols[1] EXCEPT !.sector = 1]
      OBVIOUS
    <3>2. d1 = R(1, t, p, c)
      BY <2>3, <3>1
    <3>3. PICK d2 : d2 = [d1 EXCEPT !.type = "map"]
      OBVIOUS
    <3>4. d2 = R(1, "map", p, c)
      BY <3>2, <3>3
    <3>5. PICK d3 : d3 = [d2 EXCEPT !.parts = <<>>]
      OBVIOUS
    <3>6. d3 = R(1, "map", <<>>, c)
      BY <3>4, <3>5
    <3>7. [d3 EXCEPT !.count = 0] = R(1, "map", <<>>, 0)
      BY <3>6
    <3> HIDE DEF R
    <3>8. [vols[1] EXCEPT !.sector = 1, !.type = "map", !.parts = <<>>, !.count = 0] = [d3 EXCEPT !.count = 0]
      BY <3>1, <3>3, <3>5
    <3> QED
      BY <3>7, <3>8 DEF R
  <2> QED
    BY <2>1, <2>3, <2>4
<1>4. \A v \in Reached(made) : IsMap(v.type) => PartsOf(v) \subseteq Reached(made)
  BY DEF Made, Reached
<1> QED
  BY <1>2, <1>3, <1>4, DesignatedWithin

\* On every disk without gaps, and for any number of descriptors, what has been
\* loaded are the volumes that the maps designate (volumes_load).
THEOREM FoundedHolds == TreeSpec => []Founded
<1>1. TreeInit => Founded
  BY TreeInitMade DEF Founded
<1>2. TreeInductive /\ (Gapless => Linked /\ Loading) /\ Founded /\ [TreeNext]_treeVars => Founded'
  BY FoundedStep
<1> QED
  BY <1>1, <1>2, TreeInductiveHolds, LinkedHolds, PTL DEF TreeSpec

\* When the program says that there is no file system, none of the volumes that
\* the maps designate has one, however deep they are nested.
THEOREM NothingOverlookedHolds == TreeSpec => []NothingOverlooked
<1>1. TreeInductive /\ Founded /\ (Gapless => Searching) => NothingOverlooked
  <2> SUFFICES ASSUME TreeInductive, Founded, Gapless => Searching,
                      phase = "ended", found = 0, Gapless, Available > 0,
                      NEW v \in Designated
               PROVE  ~IsMatch(v)
    BY DEF NothingOverlooked
  <2>1. PICK made : Made(made)
    BY DEF Founded
  <2>2. v \in Reached(made)
    BY <2>1, DesignatedMade DEF TreeInductive
  <2>3. PICK c \in 1..Len(vols) : v = made[c]
    BY <2>2 DEF Reached
  <2>4. ~IsMatch(vols[c])
    BY DEF Searching
  <2>5. SameWindow(v, vols[c])
    BY <2>1, <2>3 DEF Made
  <2> QED
    BY <2>4, <2>5, WindowIs
<1> QED
  BY <1>1, TreeInductiveHolds, FoundedHolds, SearchingHolds, PTL
=============================================================================
