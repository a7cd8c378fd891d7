-------------------------- MODULE ForkStream_proof --------------------------
(* What reaches the client of a fork's stream belongs to the fork, for any   *)
(* list of extents, any sizes and wherever reads fall short; and where no    *)
(* chunk is cut by the border of an extent, the copy of a fork is the fork.  *)
(* The second half is about where the lists come from: they are numbered,    *)
(* as the reads take them to be, and complete where the records are.         *)
EXTENDS ForkStream, ForkExtents, SequenceTheorems, WellFoundedInduction, TLAPS

USE SizesAssumption

Extent == [logicalStart : Nat, startBlock : Nat, blockCount : Nat]
Request == [start : Nat, count : Nat]

\* Buffers and positions have their types, and no read returns more than it was
\* asked for.
Types ==
  /\ readable \in BOOLEAN /\ fork \in Forks
  /\ offset \in Nat /\ cursor = offset
  /\ size \in Nat /\ asked \in Nat /\ size <= asked
  /\ request \in Request /\ remaining \in Request
  /\ DOMAIN outer \subseteq Nat /\ \A j \in DOMAIN outer : outer[j] \in Int
  /\ DOMAIN inner \subseteq Nat /\ \A j \in DOMAIN inner : inner[j] \in Int
  /\ buf \in [0..(asked - 1) -> Int]
  /\ f_out \in Seq(Int)

\* The buffers have room for what is requested.
Buffers ==
  /\ pc = "request" => DOMAIN outer = 0..(request.count * BlockSize - 1)
  /\ pc = "loop" =>
       /\ request.count >= 1
       /\ \A j \in Nat : j < request.count * BlockSize => j \in DOMAIN inner /\ j \in DOMAIN outer

\* The byte is no byte of the volume, or one of the fork.
Own(byte) == byte >= 0 => \E e \in Extents : byte \in BytesOf(e)

\* On their way from the volume to the copy, bytes of the fork are all there is.
OwnBytes ==
  /\ \A j \in DOMAIN inner : Own(inner[j])
  /\ \A j \in DOMAIN outer : Own(outer[j])
  /\ \A j \in DOMAIN buf : Own(buf[j])
  /\ \A n \in DOMAIN f_out : Own(f_out[n])

-----------------------------------------------------------------------------

LEMMA LeastIs ==
  ASSUME NEW a \in Int, NEW b \in Int
  PROVE  Least(a, b) = IF a <= b THEN a ELSE b
<1>1. \E x \in {a, b} : \A y \in {a, b} : x <= y
  OBVIOUS
<1> QED
  BY <1>1 DEF Least, Min

LEMMA MostIs ==
  ASSUME NEW a \in Int, NEW b \in Int
  PROVE  Max({a, b}) = IF a >= b THEN a ELSE b
<1>1. \E x \in {a, b} : \A y \in {a, b} : x >= y
  OBVIOUS
<1> QED
  BY <1>1 DEF Max

\* What a sequence with another behind it is.
LEMMA Concatenated ==
  ASSUME NEW s \in Seq(Int), NEW t \in Seq(Int)
  PROVE  /\ s \o t \in Seq(Int) /\ Len(s \o t) = Len(s) + Len(t)
         /\ DOMAIN (s \o t) = 1..(Len(s) + Len(t))
         /\ \A n \in 1..(Len(s) + Len(t)) :
              (s \o t)[n] = IF n <= Len(s) THEN s[n] ELSE t[n - Len(s)]
OBVIOUS

\* Products, for the provers: of natural numbers, and of sums.
LEMMA Products ==
  ASSUME NEW a \in Nat, NEW b \in Nat
  PROVE  a * b \in Nat
OBVIOUS

LEMMA Distributes ==
  ASSUME NEW a \in Int, NEW c \in Int, NEW b \in Int
  PROVE  a * b + c * b = (a + c) * b /\ a * b - c * b = (a - c) * b /\ 1 * b = b
OBVIOUS

LEMMA Monotone ==
  ASSUME NEW a \in Int, NEW c \in Int, NEW b \in Nat, a <= c
  PROVE  a * b <= c * b
OBVIOUS

\* A byte of the fork is in its block, at its place in it.
LEMMA Blocks ==
  ASSUME NEW a \in Nat
  PROVE  /\ (a \div BlockSize) * BlockSize + (a % BlockSize) = a
         /\ a % BlockSize \in 0..(BlockSize - 1)
         /\ a \div BlockSize \in Nat /\ (a \div BlockSize) * BlockSize \in Nat
<1>1. /\ (a \div BlockSize) * BlockSize + (a % BlockSize) = a
      /\ a % BlockSize \in 0..(BlockSize - 1) /\ a \div BlockSize \in Nat
  OBVIOUS
<1>2. BlockSize \in Nat
  OBVIOUS
<1> QED
  BY <1>1, <1>2, Products, Zenon

-----------------------------------------------------------------------------

\* extentlist_find: the extent that has the block, which is the only one.
LEMMA Find ==
  ASSUME fork \in Forks, NEW b \in Nat, NEW e \in Extents, range_contains(e, b)
  PROVE  /\ e \in Extent
         /\ Containing(b) = {e}
         /\ extentlist_find(b) =
              [start |-> e.startBlock + (b - e.logicalStart),
               count |-> e.blockCount - (b - e.logicalStart)]
<1>1. /\ fork.extents \in Seq(Extent)
      /\ \A i, j \in DOMAIN fork.extents :
           i < j => fork.extents[i].logicalStart + fork.extents[i].blockCount
                      <= fork.extents[j].logicalStart
  BY ForksAssumption DEF Extent
<1>2. DOMAIN fork.extents \subseteq Int /\ \A i \in DOMAIN fork.extents : fork.extents[i] \in Extent
  BY <1>1
<1>3. PICK i \in DOMAIN fork.extents : e = fork.extents[i]
  BY DEF Extents
<1>4. ASSUME NEW x \in Extents, range_contains(x, b) PROVE x = e
  <2>1. PICK j \in DOMAIN fork.extents : x = fork.extents[j]
    BY DEF Extents
  <2>2. e \in Extent /\ x \in Extent /\ i \in Int /\ j \in Int
    BY <1>2, <1>3, <2>1
  <2> DEFINE end(y) == y.logicalStart + y.blockCount
  <2>3. /\ i < j => end(e) <= x.logicalStart
        /\ j < i => end(x) <= e.logicalStart
    BY <1>1, <1>3, <2>1, Zenon
  <2>4. /\ e.logicalStart \in Nat /\ e.blockCount \in Nat
        /\ x.logicalStart \in Nat /\ x.blockCount \in Nat
    BY <2>2 DEF Extent
  <2>5. b < end(e) /\ b < end(x) /\ e.logicalStart <= b /\ x.logicalStart <= b
    BY <1>4, <2>4 DEF range_contains
  <2> HIDE DEF end
  <2>6. end(e) \in Int /\ end(x) \in Int
    BY <2>4 DEF end
  <2>7. i = j
    BY <2>2, <2>3, <2>4, <2>5, <2>6
  <2> QED
    BY <1>3, <2>1, <2>7
<1>5. Containing(b) = {e}
  BY <1>4 DEF Containing
<1>6. (CHOOSE x \in Containing(b) : TRUE) = e
  BY <1>5
<1> QED
  BY <1>2, <1>3, <1>5, <1>6 DEF extentlist_find

-----------------------------------------------------------------------------
(***************************************************************************)
(* Bytes of the fork only.                                                 *)
(***************************************************************************)

\* What the fork is made of.
LEMMA ForkIs ==
  ASSUME fork \in Forks
  PROVE  /\ fork.totalBlocks \in Nat /\ fork.logicalSize \in Nat
         /\ \A e \in Extents : e \in Extent
<1>1. fork.extents \in Seq(Extent)
  BY ForksAssumption DEF Extent
<1>2. \A i \in DOMAIN fork.extents : fork.extents[i] \in Extent
  BY <1>1
<1> QED
  BY <1>2, ForksAssumption DEF Extents

\* Whether a byte is one of the fork depends on the fork alone.
LEMMA OwnFrame ==
  ASSUME UNCHANGED fork, NEW byte, Own(byte)
  PROVE  Own(byte)'
BY DEF Own, Extents, BytesOf

\* The sizes and offsets of a range that was cut.
LEMMA CutIs ==
  ASSUME Types, Cut > 0
  PROVE  /\ Cut \in Nat /\ Cut <= size /\ offset + Cut <= fork.logicalSize
         /\ fork.logicalSize - offset > 0
         /\ Cut = size \/ offset + Cut = fork.logicalSize
<1>1. size \in Nat /\ offset \in Nat /\ fork.logicalSize \in Nat
  BY ForkIs DEF Types
<1> QED
  BY <1>1, LeastIs DEF Cut

LEMMA InitOwn == StreamInit => Types /\ Buffers /\ OwnBytes
<1> SUFFICES ASSUME StreamInit PROVE Types /\ Buffers /\ OwnBytes
  OBVIOUS
<1>1. /\ readable \in BOOLEAN /\ fork \in Forks /\ offset \in Nat /\ size \in Nat
      /\ asked = size /\ cursor = offset /\ f_out = <<>>
      /\ request = [start |-> 0, count |-> 0] /\ remaining = request
      /\ outer = <<>> /\ inner = <<>>
      /\ buf = [j \in 0..(size - 1) |-> Untouched] /\ pc = "check"
  BY RangesAssumption DEF StreamInit, Init
<1>2. request \in Request /\ remaining \in Request
  BY <1>1 DEF Request
<1>3. Untouched \in Int /\ Own(Untouched)
  BY DEF Own, Untouched
<1>4. Types
  BY <1>1, <1>2, <1>3 DEF Types
<1> QED
  BY <1>1, <1>3, <1>4 DEF OwnBytes, Buffers

LEMMA RoundOwn ==
  ASSUME Types, OwnBytes, Round, UNCHANGED stream
  PROVE  Types' /\ Buffers' /\ OwnBytes'
<1>1. /\ pc' = "request"
      /\ UNCHANGED <<readable, fork, offset, remaining, inner, buf, asked, cursor, f_out>>
      /\ Cut > 0 /\ size' = Cut
      /\ request' = [ start |-> offset \div BlockSize,
                      count |-> size' \div BlockSize
                                + IF (offset + size') % BlockSize # 0 THEN 1 ELSE 0 ]
      /\ outer' = [j \in 0..(request'.count * BlockSize - 1) |-> Zero]
  BY DEF Round, ranges, stream
<1>2. size' \in Nat /\ size' <= asked'
  BY <1>1, CutIs DEF Types
<1>3. request' \in Request
  <2>1. offset \div BlockSize \in Nat /\ size' \div BlockSize \in Nat
    BY <1>2, Blocks DEF Types
  <2> QED
    BY <1>1, <2>1 DEF Request
<1>4. request'.count * BlockSize \in Nat
  BY <1>3, Products DEF Request
<1>5. DOMAIN outer' \subseteq Nat /\ \A j \in DOMAIN outer' : outer'[j] = Zero
  BY <1>1, <1>4
<1>6. Zero \in Int /\ Own(Zero)
  BY DEF Own, Zero
<1>7. Types'
  BY <1>1, <1>2, <1>3, <1>5, <1>6 DEF Types
<1>8. Buffers'
  BY <1>1, <1>4 DEF Buffers
<1> QED
  BY <1>1, <1>5, <1>6, <1>7, <1>8, OwnFrame DEF OwnBytes

\* A trimmed request begins where it did, and is not longer than it was unless it
\* was empty.
LEMMA TrimmedIs ==
  ASSUME Types
  PROVE  /\ Trimmed \in Request /\ Trimmed.start = request.start
         /\ Trimmed.count = request.count
              \/ /\ fork.totalBlocks <= request.start + Trimmed.count /\ Trimmed.count >= 1
                 /\ Trimmed.count <= request.count \/ Trimmed.count = 1
<1>1. /\ request = [start |-> request.start, count |-> request.count]
      /\ request.start \in Nat /\ request.count \in Nat /\ fork.totalBlocks \in Nat
  BY ForkIs DEF Types, Request
<1> DEFINE most == Max({fork.totalBlocks - request.start, 1})
<1>2. /\ most \in Nat /\ most >= 1 /\ fork.totalBlocks <= request.start + most
      /\ most = fork.totalBlocks - request.start \/ most = 1
  <2> DEFINE left == fork.totalBlocks - request.start
  <2>1. left \in Int /\ 1 \in Int /\ (left <= 1 \/ left >= 1)
    BY <1>1
  <2>2. most = IF left >= 1 THEN left ELSE 1
    BY <2>1, MostIs, Zenon
  <2> QED
    BY <1>1, <2>2
<1> HIDE DEF most
<1>3. CASE request.start + request.count >= fork.totalBlocks
  <2>1. Trimmed = [request EXCEPT !.count = most]
    BY <1>3 DEF Trimmed, most
  <2>2. Trimmed = [start |-> request.start, count |-> most]
    BY <1>1, <2>1, Zenon
  <2> QED
    BY <1>1, <1>2, <1>3, <2>2 DEF Request
<1>4. CASE ~(request.start + request.count >= fork.totalBlocks)
  BY <1>1, <1>4 DEF Trimmed, Types
<1> QED
  BY <1>3, <1>4

LEMMA BeginOwn ==
  ASSUME Types, Buffers, OwnBytes, Begin, UNCHANGED stream
  PROVE  Types' /\ Buffers' /\ OwnBytes'
<1>1. /\ pc = "request" /\ pc' = "loop" /\ request.count >= 1
      /\ UNCHANGED <<readable, fork, offset, size, outer, buf, asked, cursor, f_out>>
      /\ request' = Trimmed /\ remaining' = request'
      /\ inner' = [j \in 0..(request.count * BlockSize - 1) |-> Zero]
  BY DEF Begin, Bad, Types, Request, ranges, stream
<1>2. Trimmed \in Request
  BY TrimmedIs
<1>3. request.count * BlockSize \in Nat
  BY Products DEF Types, Request
<1>4. DOMAIN inner' \subseteq Nat /\ \A j \in DOMAIN inner' : inner'[j] = Zero
  BY <1>1, <1>3
<1>5. Zero \in Int /\ Own(Zero)
  BY DEF Own, Zero
<1>6. Types'
  BY <1>1, <1>2, <1>4, <1>5 DEF Types
<1>7. Buffers'
  <2>1. request'.count >= 1 /\ request'.count <= request.count /\ request'.count \in Nat
    BY <1>1, TrimmedIs DEF Types, Request
  <2>2. request'.count * BlockSize <= request.count * BlockSize
    BY <2>1, Monotone DEF Types, Request
  <2>3. request'.count * BlockSize \in Nat
    BY <2>1, Products
  <2>4. \A j \in Nat : j < request'.count * BlockSize => j \in 0..(request.count * BlockSize - 1)
    BY <1>3, <2>2, <2>3
  <2> QED
    BY <1>1, <2>1, <2>4 DEF Buffers
<1> QED
  BY <1>1, <1>4, <1>5, <1>6, <1>7, OwnFrame DEF OwnBytes

\* An extent goes on to its end, and no further.
LEMMA FoundIs ==
  ASSUME Types, NEW b \in Nat, Containing(b) # {}
  PROVE  /\ extentlist_find(b).start \in Nat /\ extentlist_find(b).count \in Nat
         /\ \E e \in Extents :
              /\ e.startBlock \in Nat /\ e.blockCount \in Nat
              /\ e.startBlock <= extentlist_find(b).start
              /\ extentlist_find(b).start + extentlist_find(b).count = e.startBlock + e.blockCount
<1>1. PICK e \in Extents : range_contains(e, b)
  BY DEF Containing
<1>2. /\ e \in Extent
      /\ extentlist_find(b) = [start |-> e.startBlock + (b - e.logicalStart),
                               count |-> e.blockCount - (b - e.logicalStart)]
  BY <1>1, Find DEF Types
<1> QED
  BY <1>1, <1>2 DEF range_contains, Extent

LEMMA TransfersAre ==
  ASSUME NEW n \in Nat, NEW bytes \in Transfers(n)
  PROVE  bytes \in Nat /\ bytes <= n * BlockSize /\ (readable => bytes = n * BlockSize)
<1>1. n * BlockSize \in Nat
  BY Products
<1> QED
  BY <1>1 DEF Transfers

\* The bytes that a read of the volume brings are those of one extent: it is as
\* long as the extent goes on, at most.
LEMMA TransfersOwn ==
  ASSUME Types, NEW b \in Nat, NEW n \in Nat, Containing(b) # {},
         NEW bytes \in Transfers(Least(extentlist_find(b).count, n)),
         NEW j \in Nat, j < bytes
  PROVE  /\ extentlist_find(b).start * BlockSize + j \in Nat
         /\ Own(extentlist_find(b).start * BlockSize + j)
<1> DEFINE found == extentlist_find(b)
           count == Least(found.count, n)
<1>1. PICK e \in Extents :
        /\ found.start \in Nat /\ found.count \in Nat /\ e.startBlock \in Nat /\ e.blockCount \in Nat
        /\ e.startBlock <= found.start
        /\ found.start + found.count = e.startBlock + e.blockCount
  BY FoundIs
<1>2. count \in Nat /\ count <= found.count
  BY <1>1, LeastIs
<1>3. bytes \in Nat /\ bytes <= count * BlockSize
  BY <1>2, TransfersAre
<1> HIDE DEF found, count
<1>4. /\ count * BlockSize \in Nat /\ found.start * BlockSize \in Nat
      /\ found.count * BlockSize \in Nat /\ e.startBlock * BlockSize \in Nat
      /\ (e.startBlock + e.blockCount) * BlockSize \in Nat
  BY <1>1, <1>2, Products
<1>5. /\ count * BlockSize <= found.count * BlockSize
      /\ e.startBlock * BlockSize <= found.start * BlockSize
  BY <1>1, <1>2, Monotone
<1>6. found.start * BlockSize + found.count * BlockSize = (e.startBlock + e.blockCount) * BlockSize
  <2>1. found.start * BlockSize + found.count * BlockSize = (found.start + found.count) * BlockSize
    BY <1>1, Distributes
  <2> QED
    BY <1>1, <2>1, Zenon
<1>7. found.start * BlockSize + j \in BytesOf(e) /\ found.start * BlockSize + j \in Nat
  BY <1>3, <1>4, <1>5, <1>6 DEF BytesOf
<1> QED
  BY <1>7 DEF Own, found

LEMMA ReadOwn ==
  ASSUME Types, Buffers, OwnBytes, Read, UNCHANGED stream
  PROVE  Types' /\ Buffers' /\ OwnBytes'
<1> DEFINE found == extentlist_find(remaining.start)
           count == Least(found.count, request.count)
<1>1. /\ pc = "loop" /\ pc' \in {"loop", "copy"}
      /\ UNCHANGED <<readable, fork, offset, size, request, buf, asked, cursor, f_out>>
      /\ Containing(remaining.start) # {}
      /\ outer' = IF pc' = "copy"
                  THEN [j \in DOMAIN outer |->
                          IF j < request.count * BlockSize THEN inner'[j] ELSE outer[j]]
                  ELSE outer
  BY DEF Read, ranges, stream
<1>2. PICK bytes \in Transfers(count) :
        /\ inner' = [j \in DOMAIN inner |->
                       IF j < bytes THEN found.start * BlockSize + j ELSE inner[j]]
        /\ remaining' = [ start |-> remaining.start + bytes,
                          count |-> remaining.count - Least(bytes, remaining.count) ]
  BY DEF Read
<1>3. remaining.start \in Nat /\ remaining.count \in Nat /\ request.count \in Nat
  BY DEF Types, Request
<1>4. DOMAIN inner' = DOMAIN inner /\ \A j \in DOMAIN inner' : inner'[j] \in Int /\ Own(inner'[j])
  <2>1. ASSUME NEW j \in DOMAIN inner, j < bytes
        PROVE  found.start * BlockSize + j \in Nat /\ Own(found.start * BlockSize + j)
    BY <1>1, <1>2, <1>3, <2>1, TransfersOwn DEF Types
  <2> QED
    BY <1>2, <2>1 DEF Types, OwnBytes
<1>5. DOMAIN outer' = DOMAIN outer /\ \A j \in DOMAIN outer' : outer'[j] \in Int /\ Own(outer'[j])
  <2>1. \A j \in DOMAIN outer : outer[j] \in Int /\ Own(outer[j])
    BY DEF Types, OwnBytes
  <2>2. CASE pc' # "copy"
    BY <1>1, <2>1, <2>2
  <2>3. CASE pc' = "copy"
    <3>1. \A j \in DOMAIN outer : j < request.count * BlockSize => j \in DOMAIN inner'
      BY <1>1, <1>4 DEF Types, Buffers
    <3>2. outer' = [j \in DOMAIN outer |->
                      IF j < request.count * BlockSize THEN inner'[j] ELSE outer[j]]
      BY <1>1, <2>3
    <3> QED
      BY <1>4, <2>1, <3>1, <3>2
  <2> QED
    BY <2>2, <2>3
<1>6. remaining' \in Request
  <2>1. bytes \in Nat
    <3>1. count \in Nat
      BY <1>1, <1>3, FoundIs, LeastIs
    <3> QED
      BY <3>1, TransfersAre
  <2> QED
    BY <1>2, <1>3, <2>1, LeastIs DEF Request
<1>7. Types'
  BY <1>1, <1>4, <1>5, <1>6 DEF Types
<1>8. Buffers'
  BY <1>1, <1>4, <1>5 DEF Buffers
<1> QED
  BY <1>1, <1>4, <1>5, <1>7, <1>8, OwnFrame DEF OwnBytes

LEMMA CopyOwn ==
  ASSUME Types, Buffers, OwnBytes, Copy, UNCHANGED stream
  PROVE  Types' /\ Buffers' /\ OwnBytes'
<1>1. /\ pc' = "done"
      /\ UNCHANGED <<readable, fork, offset, size, request, remaining, outer, inner,
                     asked, cursor, f_out>>
      /\ buf' = [j \in DOMAIN buf |->
                   IF j >= size THEN buf[j]
                   ELSE IF byte_offset + j \in DOMAIN outer THEN outer[byte_offset + j] ELSE Stray]
  BY DEF Copy, ranges, stream
<1>2. Stray \in Int /\ Own(Stray)
  BY DEF Own, Stray
<1>3. \A j \in DOMAIN buf : buf[j] \in Int /\ Own(buf[j])
  BY DEF Types, OwnBytes
<1>4. \A k \in DOMAIN outer : outer[k] \in Int /\ Own(outer[k])
  BY DEF Types, OwnBytes
<1>5. DOMAIN buf = 0..(asked - 1)
  BY DEF Types
<1>6. ASSUME NEW j \in DOMAIN buf PROVE buf'[j] \in Int /\ Own(buf'[j])
  <2>1. CASE j >= size
    BY <1>1, <1>3, <2>1
  <2>2. CASE ~(j >= size)
    BY <1>1, <1>2, <1>4, <2>2
  <2> QED
    BY <2>1, <2>2
<1>7. buf' \in [0..(asked' - 1) -> Int] /\ DOMAIN buf' = DOMAIN buf
  BY <1>1, <1>5, <1>6
<1>8. Types'
  BY <1>1, <1>7 DEF Types
<1>9. Buffers'
  BY <1>1 DEF Buffers
<1> QED
  BY <1>1, <1>6, <1>7, <1>8, <1>9, OwnFrame DEF OwnBytes

\* The steps that leave every buffer alone.
LEMMA RestOwn ==
  ASSUME Types, Buffers, OwnBytes,
         UNCHANGED <<ranges, request, remaining, outer, inner, buf, stream>>,
         size' = size \/ size' = 0, pc' \notin {"request", "loop"} \/ pc' = pc
  PROVE  Types' /\ Buffers' /\ OwnBytes'
<1>1. Types'
  BY DEF Types, ranges, stream
<1>2. Buffers'
  BY DEF Buffers
<1> QED
  BY <1>1, <1>2, OwnFrame DEF OwnBytes, ranges, stream

\* The next call begins with a buffer of its own.
LEMMA ReadingOwn ==
  ASSUME Types, OwnBytes, NEW position \in Nat, cursor' = position, Reading(position),
         asked' = asked, f_out' \in Seq(Int), \A n \in DOMAIN f_out' : Own(f_out'[n])
  PROVE  Types' /\ Buffers' /\ OwnBytes'
<1>1. /\ readable' = readable /\ fork' = fork /\ offset' = position /\ size' = asked
      /\ request' = [start |-> 0, count |-> 0] /\ remaining' = request'
      /\ outer' = <<>> /\ inner' = <<>> /\ pc' = "check"
      /\ buf' = [j \in 0..(asked - 1) |-> Untouched]
  BY DEF Reading
<1>2. request' \in Request /\ remaining' \in Request
  BY <1>1 DEF Request
<1>3. Untouched \in Int /\ Own(Untouched)
  BY DEF Own, Untouched
<1>4. Types'
  BY <1>1, <1>2, <1>3 DEF Types
<1>5. \A b \in {Untouched} : Own(b)'
  BY <1>1, <1>3, OwnFrame
<1>6. \A n \in DOMAIN f_out' : Own(f_out[n])'
  BY <1>1, OwnFrame
<1> QED
  BY <1>1, <1>4, <1>5, <1>6 DEF OwnBytes, Buffers

LEMMA CopyChunkOwn ==
  ASSUME Types, OwnBytes, CopyChunk
  PROVE  Types' /\ Buffers' /\ OwnBytes'
<1>1. /\ cursor' = cursor + size /\ f_out' = f_out \o Delivered /\ Reading(cursor')
      /\ asked' = asked
  BY DEF CopyChunk, fork_readfn
<1>2. cursor' \in Nat
  BY <1>1 DEF Types
<1>3. Delivered \in Seq(Int) /\ Len(Delivered) = size
      /\ \A n \in 1..size : Delivered[n] \in Int /\ Own(Delivered[n])
  <2>1. Delivered = [j \in 1..size |-> buf[j - 1]]
    BY DEF Delivered
  <2>2. \A j \in 0..(asked - 1) : buf[j] \in Int /\ Own(buf[j])
    BY DEF Types, OwnBytes
  <2>3. ASSUME NEW n \in 1..size PROVE n - 1 \in 0..(asked - 1)
    BY DEF Types
  <2>4. \A n \in 1..size : Delivered[n] \in Int /\ Own(Delivered[n])
    BY <2>1, <2>2, <2>3
  <2>5. size \in Nat
    BY DEF Types
  <2> HIDE DEF Delivered
  <2> QED
    BY <2>1, <2>4, <2>5
<1>4. f_out' \in Seq(Int) /\ \A n \in DOMAIN f_out' : Own(f_out'[n])
  <2>1. f_out \in Seq(Int) /\ size \in Nat /\ \A n \in 1..Len(f_out) : Own(f_out[n])
    BY DEF Types, OwnBytes
  <2>2. /\ f_out' \in Seq(Int) /\ DOMAIN f_out' = 1..(Len(f_out) + size)
        /\ \A n \in 1..(Len(f_out) + size) :
             f_out'[n] = IF n <= Len(f_out) THEN f_out[n] ELSE Delivered[n - Len(f_out)]
    BY <1>1, <1>3, <2>1, Concatenated
  <2>3. Len(f_out) \in Nat
    BY <2>1
  <2>4. ASSUME NEW n \in 1..(Len(f_out) + size) PROVE Own(f_out'[n])
    <3>1. CASE n <= Len(f_out)
      BY <2>1, <2>2, <2>3, <3>1
    <3>2. CASE ~(n <= Len(f_out))
      <4>1. n - Len(f_out) \in 1..size
        BY <2>1, <2>3, <3>2
      <4> QED
        BY <1>3, <2>2, <3>2, <4>1
    <3> QED
      BY <3>1, <3>2
  <2> QED
    BY <2>2, <2>4
<1> QED
  BY <1>1, <1>2, <1>4, ReadingOwn

LEMMA SeekOwn ==
  ASSUME Types, OwnBytes, NEW pos \in Offsets, NEW whence \in Whences, Seek(pos, whence)
  PROVE  Types' /\ Buffers' /\ OwnBytes'
<1>1. /\ cursor' = fork_seekfn(cursor + size, pos, whence) /\ cursor' >= 0 /\ Reading(cursor')
      /\ asked' = asked /\ f_out' = f_out
  BY DEF Seek, fork_readfn
<1>2. cursor' \in Nat
  <2>1. pos \in Nat /\ cursor + size \in Nat /\ fork.logicalSize \in Nat
    BY ForkIs, RangesAssumption DEF Types
  <2>2. whence \in {"set", "current", "end"}
    BY StreamAssumption
  <2>3. fork_seekfn(cursor + size, pos, whence) \in Int
    BY <2>1, <2>2 DEF fork_seekfn
  <2> QED
    BY <1>1, <2>3
<1>3. f_out' \in Seq(Int) /\ \A n \in DOMAIN f_out' : Own(f_out'[n])
  BY <1>1 DEF Types, OwnBytes
<1> QED
  BY <1>1, <1>2, <1>3, ReadingOwn

LEMMA NextOwn ==
  ASSUME Types, Buffers, OwnBytes, [StreamNext]_streamVars
  PROVE  Types' /\ Buffers' /\ OwnBytes'
<1>1. CASE Ignore /\ UNCHANGED stream
  BY <1>1, RestOwn DEF Ignore
<1>2. CASE Round /\ UNCHANGED stream
  BY <1>2, RoundOwn
<1>3. CASE Refuse /\ UNCHANGED stream
  BY <1>3, RestOwn DEF Refuse
<1>4. CASE Begin /\ UNCHANGED stream
  BY <1>4, BeginOwn
<1>5. CASE Stuck /\ UNCHANGED stream
  BY <1>5, RestOwn DEF Stuck
<1>6. CASE Read /\ UNCHANGED stream
  BY <1>6, ReadOwn
<1>7. CASE Copy /\ UNCHANGED stream
  BY <1>7, CopyOwn
<1>8. CASE CopyChunk
  BY <1>8, CopyChunkOwn
<1>9. CASE CopyEnds
  BY <1>9, RestOwn DEF CopyEnds
<1>10. ASSUME NEW pos \in Offsets, NEW whence \in Whences, Seek(pos, whence)
       PROVE  Types' /\ Buffers' /\ OwnBytes'
  BY <1>10, SeekOwn
<1>11. CASE Unused
  BY <1>11, RestOwn DEF Unused
<1>12. CASE UNCHANGED streamVars
  BY <1>12, RestOwn DEF streamVars, vars
<1> QED
  BY <1>1, <1>2, <1>3, <1>4, <1>5, <1>6, <1>7, <1>8, <1>9, <1>10, <1>11, <1>12
     DEF StreamNext, ReadStep, Next

\* Nothing of another file gets into what a client of the stream is given, or
\* into the copy that is extracted: for any fork whose extents do not overlap,
\* any block size, ranges, chunks and seeks, and wherever the volume falls short.
THEOREM NoForeignCopiesHolds == StreamSpec => []NoForeignCopies
<1>1. StreamInit => Types /\ Buffers /\ OwnBytes
  BY InitOwn
<1>2. Types /\ Buffers /\ OwnBytes /\ [StreamNext]_streamVars => (Types /\ Buffers /\ OwnBytes)'
  BY NextOwn
<1>3. OwnBytes => NoForeignCopies
  BY DEF OwnBytes, Own, NoForeignCopies, NoForeignBytes
<1> QED
  BY <1>1, <1>2, <1>3, PTL DEF StreamSpec

-----------------------------------------------------------------------------
(***************************************************************************)
(* A range that lies in one extent.                                        *)
(***************************************************************************)

\* What Round requests.
Requested ==
  /\ size > 0 /\ offset + size <= fork.logicalSize
  /\ request = [ start |-> offset \div BlockSize,
                 count |-> size \div BlockSize
                           + IF (offset + size) % BlockSize # 0 THEN 1 ELSE 0 ]

\* The blocks of the request reach to the end of the range.
Enough == byte_offset + size <= request.count * BlockSize

\* The blocks of the request are in the buffer, one behind the other.
Gathered ==
  /\ request.start = offset \div BlockSize /\ Enough
  /\ \A j \in Nat : j < request.count * BlockSize =>
       j \in DOMAIN outer /\ outer[j] = extentlist_find(request.start).start * BlockSize + j

\* The conditions under which the range is to be complete.
Favourable == size > 0 /\ readable /\ Roomy /\ InOneExtent /\ ~FallsShort

\* What is known of the request at each place of the read: when it lies in one
\* extent, the first turn of the loop is the only one.
InRange ==
  /\ pc = "request" => Requested
  /\ pc = "loop" =>
       /\ request.start = offset \div BlockSize
       /\ Roomy /\ ~FallsShort => Enough
       /\ readable /\ InOneExtent => remaining = request
  /\ pc = "copy" /\ Favourable => Gathered
  /\ OneExtentExact

\* A remainder is unique.
LEMMA RemainderIs ==
  ASSUME NEW x \in Nat, NEW y \in 0..(BlockSize - 1)
  PROVE  (x * BlockSize + y) % BlockSize = y
OBVIOUS

\* Two remainders that do not carry: the sum has theirs.
LEMMA SumOfRemainders ==
  ASSUME NEW a \in Nat, NEW c \in Nat, (a % BlockSize) + (c % BlockSize) < BlockSize
  PROVE  (a + c) % BlockSize = (a % BlockSize) + (c % BlockSize)
<1> DEFINE d == a \div BlockSize
           e == c \div BlockSize
           y == (a % BlockSize) + (c % BlockSize)
<1>1. /\ a = d * BlockSize + (a % BlockSize) /\ d \in Nat /\ a % BlockSize \in Nat
      /\ c = e * BlockSize + (c % BlockSize) /\ e \in Nat /\ c % BlockSize \in Nat
  BY Blocks
<1>2. y \in 0..(BlockSize - 1) /\ d * BlockSize \in Nat /\ e * BlockSize \in Nat
  BY <1>1, Products
<1>3. a + c = (d * BlockSize + e * BlockSize) + y
  BY <1>1, <1>2
<1> HIDE DEF d, e, y
<1>4. d * BlockSize + e * BlockSize = (d + e) * BlockSize
  BY <1>1, Distributes
<1>5. ((d + e) * BlockSize + y) % BlockSize = y
  <2>1. d + e \in Nat
    BY <1>1
  <2> QED
    BY <1>2, <2>1, RemainderIs
<1> QED
  BY <1>3, <1>4, <1>5 DEF y

\* A block that begins at the byte or before it is its block or one before it.
LEMMA BlockOf ==
  ASSUME NEW a \in Nat, NEW k \in Nat
  PROVE  k * BlockSize <= a <=> k <= a \div BlockSize
<1> DEFINE q == a \div BlockSize
           r == a % BlockSize
<1>1. q * BlockSize + r = a /\ r \in 0..(BlockSize - 1) /\ q \in Nat /\ q * BlockSize \in Nat
  BY Blocks
<1>2. k * BlockSize \in Nat /\ (q + 1) * BlockSize \in Nat
  BY <1>1, Products
<1> HIDE DEF q, r
<1>3. ASSUME k <= q PROVE k * BlockSize <= a
  <2>1. k * BlockSize <= q * BlockSize
    BY <1>1, <1>3, Monotone
  <2> QED
    BY <1>1, <1>2, <2>1
<1>4. ASSUME q + 1 <= k PROVE a < k * BlockSize
  <2>1. (q + 1) * BlockSize <= k * BlockSize
    BY <1>1, <1>4, Monotone
  <2>2. q * BlockSize + 1 * BlockSize = (q + 1) * BlockSize /\ 1 * BlockSize = BlockSize
    BY <1>1, Distributes
  <2> QED
    BY <1>1, <1>2, <2>1, <2>2
<1> QED
  BY <1>1, <1>2, <1>3, <1>4 DEF q

\* The blocks that Round requests hold the range behind the place it begins at,
\* if it does not fall short; and the last of them is needed.
LEMMA BlocksHoldRange ==
  ASSUME offset \in Nat, size \in Nat, size > 0, ~FallsShort, NEW n,
         n = size \div BlockSize + (IF (offset + size) % BlockSize # 0 THEN 1 ELSE 0)
  PROVE  /\ n \in Nat /\ n >= 1 /\ byte_offset + size <= n * BlockSize
         /\ (n - 1) * BlockSize < byte_offset + size
<1> DEFINE q == size \div BlockSize
           r == size % BlockSize
           o == byte_offset
<1>1. /\ q * BlockSize + r = size /\ q \in Nat /\ q * BlockSize \in Nat
      /\ r \in 0..(BlockSize - 1) /\ o \in 0..(BlockSize - 1)
  BY Blocks DEF byte_offset
<1>2. o + r < BlockSize
  BY <1>1 DEF FallsShort
<1>3. (offset + size) % BlockSize = o + r
  BY <1>2, SumOfRemainders DEF byte_offset
<1>4. n = q + (IF o + r # 0 THEN 1 ELSE 0)
  BY <1>3
<1> HIDE DEF q, r, o
<1>5. CASE o + r = 0
  <2>1. n = q /\ o = 0 /\ r = 0 /\ q # 0
    BY <1>1, <1>4, <1>5
  <2>2. q * BlockSize - 1 * BlockSize = (q - 1) * BlockSize /\ 1 * BlockSize = BlockSize
    BY <1>1, Distributes
  <2> QED
    BY <2>1, <2>2, <1>1 DEF o
<1>6. CASE o + r # 0
  <2>1. n = q + 1 /\ n - 1 = q
    BY <1>1, <1>4, <1>6
  <2>2. q * BlockSize + 1 * BlockSize = (q + 1) * BlockSize /\ 1 * BlockSize = BlockSize
    BY <1>1, Distributes
  <2>3. n * BlockSize = q * BlockSize + BlockSize /\ (n - 1) * BlockSize = q * BlockSize
    BY <2>1, <2>2
  <2> QED
    BY <1>1, <1>2, <1>6, <2>1, <2>3 DEF o
<1> QED
  BY <1>5, <1>6

LEMMA RoundRange ==
  ASSUME Types, InRange, Round
  PROVE  InRange'
<1>1. /\ pc' = "request" /\ UNCHANGED <<readable, fork, offset>>
      /\ Cut > 0 /\ size' = Cut
      /\ request' = [ start |-> offset \div BlockSize,
                      count |-> size' \div BlockSize
                                + IF (offset + size') % BlockSize # 0 THEN 1 ELSE 0 ]
  BY DEF Round, ranges
<1>2. size' > 0 /\ offset + size' <= fork.logicalSize
  BY <1>1, CutIs
<1> QED
  BY <1>1, <1>2 DEF InRange, Requested, OneExtentExact

\* hfs_read_fork refuses no request for a range of the fork, unless the range
\* falls short.
LEMMA NotRefused ==
  ASSUME Types, Requested, Roomy, ~FallsShort
  PROVE  ~Bad
<1> SUFFICES ASSUME Bad PROVE FALSE
  OBVIOUS
<1>1. offset \in Nat /\ size \in Nat /\ fork.totalBlocks \in Nat /\ fork.logicalSize \in Nat
  BY ForkIs DEF Types
<1>2. size > 0 /\ offset + size <= fork.logicalSize
  BY DEF Requested
<1>3. request.count >= 1
  BY <1>1, <1>2, BlocksHoldRange DEF Requested
<1>4. request.start > fork.totalBlocks /\ request.start = offset \div BlockSize
  BY <1>3 DEF Bad, Requested, Types, Request
<1>5. request.start * BlockSize <= offset
  BY <1>1, <1>4, BlockOf DEF Types, Request
<1>6. fork.totalBlocks * BlockSize <= request.start * BlockSize
  BY <1>1, <1>4, Monotone DEF Types, Request
<1>7. fork.totalBlocks * BlockSize \in Nat /\ request.start * BlockSize \in Nat
  BY <1>1, Products DEF Types, Request
<1> QED
  BY <1>1, <1>2, <1>5, <1>6, <1>7 DEF Roomy

LEMMA RefuseRange ==
  ASSUME Types, InRange, Refuse
  PROVE  InRange'
<1>1. /\ pc = "request" /\ pc' = "copy" /\ Bad
      /\ UNCHANGED <<readable, fork, offset, size, request, outer>>
  BY DEF Refuse, ranges
<1>2. ~Favourable
  BY <1>1, NotRefused DEF InRange, Favourable
<1>3. ~Favourable'
  BY <1>1, <1>2 DEF Favourable, Roomy, InOneExtent, Extents, FallsShort, byte_offset
<1> QED
  BY <1>1, <1>3 DEF InRange, OneExtentExact

\* The trimmed request still reaches to the end of the range: the range ends
\* with the fork at the latest, and the fork with its blocks.
LEMMA TrimmedEnough ==
  ASSUME Types, Requested, Roomy, ~FallsShort
  PROVE  byte_offset + size <= Trimmed.count * BlockSize
<1>1. offset \in Nat /\ size \in Nat /\ fork.totalBlocks \in Nat /\ fork.logicalSize \in Nat
  BY ForkIs DEF Types
<1>2. /\ Trimmed.count \in Nat
      /\ Trimmed.count = request.count \/ fork.totalBlocks <= request.start + Trimmed.count
  BY TrimmedIs DEF Request
<1>3. /\ request.start = offset \div BlockSize /\ request.start \in Nat
      /\ size > 0 /\ offset + size <= fork.logicalSize
      /\ fork.logicalSize <= fork.totalBlocks * BlockSize
  BY DEF Requested, Roomy, Types, Request
<1>4. CASE Trimmed.count = request.count
  BY <1>1, <1>3, <1>4, BlocksHoldRange DEF Requested
<1>5. CASE fork.totalBlocks <= request.start + Trimmed.count
  <2>1. request.start + Trimmed.count \in Nat
    BY <1>2, <1>3
  <2>2. fork.totalBlocks * BlockSize <= (request.start + Trimmed.count) * BlockSize
    BY <1>1, <1>5, <2>1, Monotone
  <2>3. (request.start + Trimmed.count) * BlockSize
          = request.start * BlockSize + Trimmed.count * BlockSize
    BY <1>2, <1>3, Distributes
  <2>4. request.start * BlockSize + byte_offset = offset /\ byte_offset \in Nat
    BY <1>1, <1>3, Blocks DEF byte_offset
  <2>5. /\ request.start * BlockSize \in Nat /\ Trimmed.count * BlockSize \in Nat
        /\ fork.totalBlocks * BlockSize \in Nat
    BY <1>1, <1>2, <1>3, Products
  <2> QED
    BY <1>1, <1>3, <2>2, <2>3, <2>4, <2>5
<1> QED
  BY <1>2, <1>4, <1>5

LEMMA BeginRange ==
  ASSUME Types, InRange, Begin
  PROVE  InRange'
<1>1. /\ pc = "request" /\ pc' = "loop" /\ UNCHANGED <<fork, offset, size>>
      /\ request' = Trimmed /\ remaining' = request'
  BY DEF Begin, ranges
<1>2. Requested
  BY <1>1 DEF InRange
<1>3. request'.start = offset' \div BlockSize
  BY <1>1, <1>2, TrimmedIs DEF Requested
<1>4. ASSUME Roomy', ~FallsShort' PROVE Enough'
  <2>1. Roomy /\ ~FallsShort
    BY <1>1, <1>4 DEF Roomy, FallsShort, byte_offset
  <2> QED
    BY <1>1, <1>2, <2>1, TrimmedEnough DEF Enough, byte_offset
<1> QED
  BY <1>1, <1>3, <1>4 DEF InRange, OneExtentExact

\* The turn of the loop that reads the whole request.
LEMMA ReadWhole ==
  ASSUME Types, Buffers, Read, readable, InOneExtent, remaining = request
  PROVE  /\ pc' = "copy"
         /\ \A j \in Nat : j < request.count * BlockSize =>
              /\ j \in DOMAIN outer'
              /\ outer'[j] = extentlist_find(request.start).start * BlockSize + j
<1> DEFINE found == extentlist_find(request.start)
           count == Least(found.count, request.count)
<1>1. PICK e \in Extents :
        /\ range_contains(e, request.start)
        /\ request.start + request.count <= e.logicalStart + e.blockCount
  BY DEF InOneExtent
<1>2. e \in Extent /\ found.count = e.blockCount - (request.start - e.logicalStart)
  BY <1>1, Find DEF Types, Request
<1>3. request.start \in Nat /\ request.count \in Nat /\ request.count >= 1 /\ pc = "loop"
  BY DEF Types, Request, Buffers, Read
<1>4. count = request.count
  BY <1>1, <1>2, <1>3, LeastIs DEF Extent, range_contains
<1>5. request.count * BlockSize \in Nat /\ request.count <= request.count * BlockSize
  <2>1. request.count * BlockSize \in Nat
    BY <1>3, Products
  <2>2. BlockSize >= 1 /\ BlockSize \in Nat
    OBVIOUS
  <2>3. request.count * 1 <= request.count * BlockSize
    BY <1>3, <2>2
  <2> QED
    BY <1>3, <2>1, <2>3
<1>6. PICK bytes \in Transfers(count) :
        /\ inner' = [j \in DOMAIN inner |->
                       IF j < bytes THEN found.start * BlockSize + j ELSE inner[j]]
        /\ remaining' = [ start |-> remaining.start + bytes,
                          count |-> remaining.count - Least(bytes, remaining.count) ]
  BY DEF Read
<1>7. bytes = request.count * BlockSize
  BY <1>3, <1>4, <1>6, TransfersAre
<1>8. remaining'.count = 0
  BY <1>3, <1>5, <1>6, <1>7, LeastIs
<1>9. pc' = "copy"
  BY <1>8 DEF Read
<1>10. outer' = [j \in DOMAIN outer |->
                   IF j < request.count * BlockSize THEN inner'[j] ELSE outer[j]]
  BY <1>9 DEF Read
<1> HIDE DEF found, count
<1>11. ASSUME NEW j \in Nat, j < request.count * BlockSize
       PROVE  j \in DOMAIN outer' /\ outer'[j] = found.start * BlockSize + j
  <2>1. j \in DOMAIN inner /\ j \in DOMAIN outer
    BY <1>3, <1>11 DEF Buffers
  <2>2. inner'[j] = found.start * BlockSize + j
    BY <1>6, <1>7, <1>11, <2>1
  <2> QED
    BY <1>10, <1>11, <2>1, <2>2
<1> QED
  BY <1>9, <1>11 DEF found

LEMMA ReadRange ==
  ASSUME Types, Buffers, InRange, Read
  PROVE  InRange'
<1>1. /\ pc = "loop" /\ pc' \in {"loop", "copy"}
      /\ UNCHANGED <<readable, fork, offset, size, request>>
  BY DEF Read, ranges
<1>2. /\ InOneExtent' = InOneExtent /\ Roomy' = Roomy /\ FallsShort' = FallsShort
      /\ Enough' = Enough /\ extentlist_find(request.start)' = extentlist_find(request.start)
  BY <1>1 DEF InOneExtent, Roomy, FallsShort, Enough, extentlist_find, Containing, Extents,
              byte_offset
<1>3. request.start = offset \div BlockSize /\ (Roomy /\ ~FallsShort => Enough)
  BY <1>1 DEF InRange
<1>4. ASSUME readable, InOneExtent
      PROVE  /\ pc' = "copy"
             /\ \A j \in Nat : j < request.count * BlockSize =>
                  /\ j \in DOMAIN outer'
                  /\ outer'[j] = extentlist_find(request.start).start * BlockSize + j
  BY <1>1, <1>4, ReadWhole DEF InRange
<1>5. Favourable' => Gathered'
  BY <1>1, <1>2, <1>3, <1>4 DEF Favourable, Gathered
<1> QED
  BY <1>1, <1>2, <1>3, <1>4, <1>5 DEF InRange, OneExtentExact

\* A byte of a range in one extent lies in the block the request begins with, as
\* far behind its beginning as on the volume.
LEMMA ByteIs ==
  ASSUME Types, Favourable, Enough, request.start = offset \div BlockSize,
         NEW j \in 0..(size - 1)
  PROVE  ForkByte(offset + j)
           = extentlist_find(request.start).start * BlockSize + (byte_offset + j)
<1> DEFINE first == request.start
           block == (offset + j) \div BlockSize
           place == (offset + j) % BlockSize
<1>1. /\ offset \in Nat /\ size \in Nat /\ j \in Nat /\ j < size
      /\ first \in Nat /\ request.count \in Nat
  BY DEF Types, Request
<1>2. /\ first * BlockSize + byte_offset = offset /\ byte_offset \in Nat
      /\ first * BlockSize \in Nat
  BY <1>1, Blocks DEF byte_offset
<1>3. /\ block * BlockSize + place = offset + j /\ block \in Nat /\ place \in Nat
      /\ block * BlockSize \in Nat
  BY <1>1, Blocks
<1>4. PICK e \in Extents :
        /\ range_contains(e, first)
        /\ first + request.count <= e.logicalStart + e.blockCount
  BY DEF Favourable, InOneExtent
<1>5. /\ e \in Extent
      /\ extentlist_find(first).start = e.startBlock + (first - e.logicalStart)
  BY <1>1, <1>4, Find DEF Types
<1>6. first <= block
  BY <1>1, <1>2, BlockOf
<1> HIDE DEF first, block, place
<1>7. block < first + request.count
  <2> SUFFICES ASSUME first + request.count <= block PROVE FALSE
    BY <1>1, <1>3
  <2>1. (first + request.count) * BlockSize <= offset + j
    BY <1>1, <1>3, BlockOf DEF block
  <2>2. (first + request.count) * BlockSize = first * BlockSize + request.count * BlockSize
    BY <1>1, Distributes
  <2>3. request.count * BlockSize \in Nat
    BY <1>1, Products
  <2> QED
    BY <1>1, <1>2, <2>1, <2>2, <2>3 DEF Enough
<1>8. range_contains(e, block)
  BY <1>1, <1>3, <1>4, <1>5, <1>6, <1>7 DEF range_contains, Extent
<1>9. extentlist_find(block).start = e.startBlock + (block - e.logicalStart)
  BY <1>3, <1>8, Find DEF Types
<1> DEFINE base == e.startBlock - e.logicalStart
<1>10. /\ base \in Int /\ extentlist_find(first).start = base + first
       /\ extentlist_find(block).start = base + block
  BY <1>1, <1>3, <1>5, <1>9 DEF Extent
<1> HIDE DEF base
<1>11. /\ base * BlockSize + first * BlockSize = (base + first) * BlockSize
       /\ base * BlockSize + block * BlockSize = (base + block) * BlockSize
       /\ base * BlockSize \in Int
  BY <1>1, <1>3, <1>10, Distributes
<1>12. ForkByte(offset + j) = extentlist_find(block).start * BlockSize + place
  BY DEF ForkByte, block, place
<1> QED
  BY <1>1, <1>2, <1>3, <1>10, <1>11, <1>12 DEF first

LEMMA CopyRange ==
  ASSUME Types, InRange, Copy
  PROVE  InRange'
<1>1. /\ pc = "copy" /\ pc' = "done"
      /\ UNCHANGED <<readable, fork, offset, size, request>>
      /\ buf' = [j \in DOMAIN buf |->
                   IF j >= size THEN buf[j]
                   ELSE IF byte_offset + j \in DOMAIN outer THEN outer[byte_offset + j] ELSE Stray]
  BY DEF Copy, ranges
<1>2. /\ Favourable' = Favourable
      /\ \A j \in 0..(size - 1) : ForkByte(offset + j)' = ForkByte(offset + j)
  BY <1>1 DEF Favourable, Roomy, InOneExtent, Extents, FallsShort, byte_offset, ForkByte,
              extentlist_find, Containing
<1>3. ASSUME Favourable, NEW j \in 0..(size - 1)
      PROVE  buf'[j] = ForkByte(offset + j)
  <2>1. Gathered
    BY <1>1, <1>3 DEF InRange
  <2>2. /\ j \in DOMAIN buf /\ ~(j >= size) /\ j \in Nat /\ size \in Nat
        /\ request.count * BlockSize \in Nat
    BY Products DEF Types, Request
  <2>3. byte_offset \in Nat
    BY Blocks DEF Types, byte_offset
  <2>4. byte_offset + j \in Nat /\ byte_offset + j < request.count * BlockSize
    BY <2>1, <2>2, <2>3 DEF Gathered, Enough
  <2>5. /\ byte_offset + j \in DOMAIN outer
        /\ outer[byte_offset + j]
             = extentlist_find(request.start).start * BlockSize + (byte_offset + j)
    BY <2>1, <2>4 DEF Gathered
  <2>6. buf'[j] = outer[byte_offset + j]
    BY <1>1, <2>2, <2>5
  <2> QED
    BY <1>3, <2>1, <2>5, <2>6, ByteIs DEF Gathered
<1>4. Favourable' => Exact'
  BY <1>1, <1>2, <1>3 DEF Exact
<1> QED
  BY <1>1, <1>4 DEF InRange, OneExtentExact, Favourable

\* The steps that end a read, and those that begin another.
LEMMA RestRange ==
  ASSUME InRange,
         \/ pc' \in {"check", "closed", "aborted"}
         \/ pc' = "done" /\ size' = 0
         \/ UNCHANGED vars
  PROVE  InRange'
<1>1. CASE pc' \in {"check", "closed", "aborted"}
  BY <1>1 DEF InRange, OneExtentExact
<1>2. CASE pc' = "done" /\ size' = 0
  BY <1>2 DEF InRange, OneExtentExact
<1>3. CASE UNCHANGED vars
  <2>1. /\ UNCHANGED <<readable, fork, offset, size, request, remaining, outer, buf, pc>>
    BY <1>3 DEF vars, ranges
  <2>2. /\ InOneExtent' = InOneExtent /\ Roomy' = Roomy /\ FallsShort' = FallsShort
        /\ Enough' = Enough /\ Requested' = Requested
    BY <2>1 DEF InOneExtent, Roomy, FallsShort, Enough, Requested, Extents, byte_offset
  <2>3. Favourable' = Favourable
    BY <2>1, <2>2 DEF Favourable
  <2>4. Gathered' = Gathered
    BY <2>1, <2>2 DEF Gathered, extentlist_find, Containing, Extents
  <2>5. Exact' = Exact
    BY <2>1 DEF Exact, ForkByte, extentlist_find, Containing, Extents
  <2> QED
    BY <2>1, <2>2, <2>3, <2>4, <2>5 DEF InRange, OneExtentExact
<1> QED
  BY <1>1, <1>2, <1>3

LEMMA NextRange ==
  ASSUME Types, Buffers, InRange, [StreamNext]_streamVars
  PROVE  InRange'
<1>1. CASE Ignore
  BY <1>1, RestRange DEF Ignore
<1>2. CASE Round
  BY <1>2, RoundRange
<1>3. CASE Refuse
  BY <1>3, RefuseRange
<1>4. CASE Begin
  BY <1>4, BeginRange
<1>5. CASE Stuck
  BY <1>5, RestRange DEF Stuck
<1>6. CASE Read
  BY <1>6, ReadRange
<1>7. CASE Copy
  BY <1>7, CopyRange
<1>8. CASE CopyChunk
  BY <1>8, RestRange DEF CopyChunk, Reading
<1>9. CASE CopyEnds
  BY <1>9, RestRange DEF CopyEnds
<1>10. ASSUME NEW pos \in Offsets, NEW whence \in Whences, Seek(pos, whence)
       PROVE  InRange'
  BY <1>10, RestRange DEF Seek, Reading
<1>11. CASE Unused
  BY <1>11, RestRange DEF Unused
<1>12. CASE UNCHANGED streamVars
  BY <1>12, RestRange DEF streamVars
<1> QED
  BY <1>1, <1>2, <1>3, <1>4, <1>5, <1>6, <1>7, <1>8, <1>9, <1>10, <1>11, <1>12
     DEF StreamNext, ReadStep, Next

\* A range that lies in one extent, of a volume that can be read, comes complete
\* and in order, whatever its place in its blocks, unless it needs the block that
\* hfs_read_fork_range does not request.
THEOREM OneExtentExactHolds == StreamSpec => []OneExtentExact
<1>1. StreamInit => Types /\ Buffers /\ InRange
  <2>1. StreamInit => pc = "check"
    BY DEF StreamInit, Init
  <2> QED
    BY <2>1, InitOwn DEF InRange, OneExtentExact
<1>2. /\ Types /\ Buffers /\ OwnBytes /\ InRange /\ [StreamNext]_streamVars
      => (Types /\ Buffers /\ OwnBytes /\ InRange)'
  BY NextOwn, NextRange
<1>3. StreamInit => OwnBytes
  BY InitOwn
<1>4. InRange => OneExtentExact
  BY DEF InRange
<1> QED
  BY <1>1, <1>2, <1>3, <1>4, PTL DEF StreamSpec

-----------------------------------------------------------------------------
(***************************************************************************)
(* The copy of a fork.                                                     *)
(***************************************************************************)

\* The conditions under which the copy is to be the fork.
Extractable ==
  client = "extractFork" /\ readable /\ Roomy /\ \A n \in Chunks : ChunkInOneExtent(n)

\* A read begins with a chunk, or at the end of the fork.
AtChunk ==
  offset <= fork.logicalSize /\ (offset % Chunk = 0 \/ offset = fork.logicalSize)

\* It is for a chunk, or for what the fork has left.
OneChunk ==
  /\ size > 0 /\ offset + size <= fork.logicalSize
  /\ size = Chunk \/ offset + size = fork.logicalSize

Prefix == [n \in 1..offset |-> ForkByte(n - 1)]

\* What is known of the copy at each place of a read: the fork is written up to
\* the chunk that is being read, and that chunk lies in one extent.
Copied ==
  Extractable =>
    /\ asked = Chunk /\ AtChunk /\ f_out = Prefix
    /\ pc = "check" => size = Chunk
    /\ pc = "request" => OneChunk
    /\ pc \in {"loop", "copy"} => OneChunk /\ InOneExtent /\ ~FallsShort
    /\ pc = "done" =>
         \/ OneChunk /\ InOneExtent /\ ~FallsShort
         \/ size = 0 /\ offset = fork.logicalSize
    /\ pc = "closed" => offset = fork.logicalSize

\* A multiple has no remainder, and is followed by a multiple.
LEMMA Multiples ==
  ASSUME NEW q \in Nat, NEW b \in Nat \ {0}
  PROVE  (q * b) % b = 0
OBVIOUS

LEMMA Quotient ==
  ASSUME NEW a \in Nat, NEW b \in Nat \ {0}, a % b = 0
  PROVE  a \div b \in Nat /\ a = (a \div b) * b
OBVIOUS

LEMMA Associates ==
  ASSUME NEW a \in Nat, NEW b \in Nat, NEW c \in Nat
  PROVE  (a * b) * c = a * (b * c)
OBVIOUS

LEMMA NextChunk ==
  ASSUME offset \in Nat, offset % Chunk = 0
  PROVE  (offset + Chunk) % Chunk = 0
<1> DEFINE q == offset \div Chunk
<1>1. Chunk \in Nat \ {0} /\ Chunk \in Nat
  BY StreamAssumption
<1>2. q \in Nat /\ offset = q * Chunk
  BY <1>1, Quotient
<1> HIDE DEF q
<1>3. q * Chunk + 1 * Chunk = (q + 1) * Chunk /\ 1 * Chunk = Chunk
  BY <1>1, <1>2, Distributes
<1>4. ((q + 1) * Chunk) % Chunk = 0
  <2>1. q + 1 \in Nat
    BY <1>2
  <2> QED
    BY <1>1, <2>1, Multiples
<1> QED
  BY <1>2, <1>3, <1>4, Zenon

\* A chunk begins with a block.
LEMMA ChunkOffset ==
  ASSUME offset \in Nat, offset % Chunk = 0
  PROVE  byte_offset = 0
<1> DEFINE q == offset \div Chunk
           c == Chunk \div BlockSize
<1>1. Chunk \in Nat \ {0} /\ Chunk \in Nat /\ Chunk % BlockSize = 0
      /\ BlockSize \in Nat \ {0} /\ BlockSize \in Nat
  BY StreamAssumption
<1>2. q \in Nat /\ offset = q * Chunk
  BY <1>1, Quotient
<1>3. c \in Nat /\ Chunk = c * BlockSize
  BY <1>1, Quotient
<1> HIDE DEF q, c
<1>4. (q * c) * BlockSize = q * (c * BlockSize) /\ q * c \in Nat
  BY <1>1, <1>2, <1>3, Associates, Products
<1>5. offset = (q * c) * BlockSize
  BY <1>2, <1>3, <1>4, Zenon
<1> QED
  BY <1>1, <1>4, <1>5, Multiples DEF byte_offset

\* The blocks requested for a chunk are those its bytes are in.
LEMMA ChunkPlaced ==
  ASSUME Types, Extractable, AtChunk, OneChunk, Requested, size <= Chunk
  PROVE  ~FallsShort /\
         \E e \in Extents : /\ range_contains(e, request.start)
                            /\ request.start + request.count <= e.logicalStart + e.blockCount
<1>1. /\ offset \in Nat /\ size \in Nat /\ size > 0 /\ fork.logicalSize \in Nat
      /\ request.start \in Nat /\ request.count \in Nat
      /\ Chunk \in Nat \ {0}
  BY StreamAssumption, ForkIs DEF Types, OneChunk, Request
<1>2. offset % Chunk = 0 /\ offset \in 0..(fork.logicalSize - 1)
  BY <1>1 DEF AtChunk, OneChunk
<1>3. byte_offset = 0
  BY <1>1, <1>2, ChunkOffset
<1>4. ~FallsShort
  <2>1. size % BlockSize \in 0..(BlockSize - 1)
    BY <1>1, Blocks
  <2> QED
    BY <1>3, <2>1 DEF FallsShort
<1> DEFINE last == offset + size - 1
<1>5. Least(offset + Chunk, fork.logicalSize) - 1 = last /\ last \in Nat
  BY <1>1, LeastIs DEF OneChunk
<1>6. PICK e \in Extents :
        range_contains(e, offset \div BlockSize) /\ range_contains(e, last \div BlockSize)
  BY <1>2, <1>5 DEF Extractable, Chunks, ChunkInOneExtent
<1>7. request.start = offset \div BlockSize
  BY DEF Requested
<1>8. request.count >= 1 /\ (request.count - 1) * BlockSize < size
  BY <1>1, <1>3, <1>4, BlocksHoldRange DEF Requested
<1>9. request.start + (request.count - 1) <= last \div BlockSize
  <2> DEFINE before == request.count - 1
  <2>1. before \in Nat /\ request.start + before \in Nat
    BY <1>1, <1>8
  <2>2. request.start * BlockSize + before * BlockSize = (request.start + before) * BlockSize
    BY <1>1, <2>1, Distributes
  <2>3. request.start * BlockSize = offset
    BY <1>1, <1>3, <1>7, Blocks DEF byte_offset
  <2>4. before * BlockSize \in Nat /\ before * BlockSize < size
    BY <1>8, <2>1, Products
  <2> HIDE DEF before
  <2>5. (request.start + before) * BlockSize <= last
    BY <1>1, <2>2, <2>3, <2>4
  <2>6. request.start + before <= last \div BlockSize
    BY <1>5, <2>1, <2>5, BlockOf
  <2> QED
    BY <2>6 DEF before
<1>10. last \div BlockSize \in Nat
  BY <1>5, Blocks
<1>11. e \in Extent
  BY <1>6, ForkIs DEF Types
<1> HIDE DEF last
<1>12. request.start + request.count <= e.logicalStart + e.blockCount
  BY <1>1, <1>6, <1>8, <1>9, <1>10, <1>11 DEF range_contains, Extent
<1> QED
  BY <1>4, <1>6, <1>7, <1>12

\* What the steps of one read leave alone.
LEMMA CopiedFrame ==
  ASSUME UNCHANGED <<ranges, stream>>
  PROVE  /\ Extractable' = Extractable /\ AtChunk' = AtChunk /\ Prefix' = Prefix
         /\ asked' = asked /\ f_out' = f_out
         /\ size' = size => OneChunk' = OneChunk /\ FallsShort' = FallsShort
         /\ request' = request => InOneExtent' = InOneExtent
<1>1. UNCHANGED <<readable, fork, offset, client, asked, f_out>>
  BY DEF ranges, stream
<1>2. Extractable' = Extractable
  BY <1>1 DEF Extractable, Roomy, Chunks, ChunkInOneExtent, Extents
<1>3. Prefix' = Prefix
  BY <1>1 DEF Prefix, ForkByte, extentlist_find, Containing, Extents
<1> QED
  BY <1>1, <1>2, <1>3 DEF AtChunk, OneChunk, FallsShort, byte_offset, InOneExtent, Extents

LEMMA InitCopied ==
  ASSUME StreamInit, Types
  PROVE  Copied
<1>1. /\ client = "extractFork" => offset = 0 /\ size = Chunk
      /\ asked = size /\ f_out = <<>> /\ pc = "check"
  BY DEF StreamInit, Init
<1>2. Chunk \in Nat \ {0} /\ fork.logicalSize \in Nat
  BY StreamAssumption, ForkIs DEF Types
<1>3. ASSUME Extractable PROVE AtChunk /\ f_out = Prefix
  <2>1. offset = 0
    BY <1>1, <1>3 DEF Extractable
  <2>2. 0 % Chunk = 0
    BY <1>2
  <2>3. Prefix = <<>>
    BY <2>1 DEF Prefix
  <2> QED
    BY <1>1, <1>2, <2>1, <2>2, <2>3 DEF AtChunk
<1> QED
  BY <1>1, <1>3 DEF Copied, Extractable

LEMMA IgnoreCopied ==
  ASSUME Types, Copied, Ignore, UNCHANGED stream
  PROVE  Copied'
<1>1. pc = "check" /\ pc' = "done" /\ size' = 0 /\ Cut <= 0 /\ UNCHANGED ranges
  BY DEF Ignore
<1>2. ASSUME Extractable PROVE offset = fork.logicalSize
  <2>1. size = Chunk /\ AtChunk
    BY <1>1, <1>2 DEF Copied
  <2>2. /\ offset \in Nat /\ size \in Nat /\ size > 0 /\ fork.logicalSize \in Nat
    BY <2>1, StreamAssumption, ForkIs DEF Types
  <2> QED
    BY <1>1, <2>1, <2>2, LeastIs DEF Cut, AtChunk
<1>3. offset' = offset /\ fork' = fork
  BY <1>1 DEF ranges
<1> QED
  BY <1>1, <1>2, <1>3, CopiedFrame DEF Copied

LEMMA RoundCopied ==
  ASSUME Types, Copied, Round, UNCHANGED stream
  PROVE  Copied'
<1>1. pc = "check" /\ pc' = "request" /\ Cut > 0 /\ size' = Cut /\ UNCHANGED ranges
  BY DEF Round
<1>2. ASSUME Extractable PROVE OneChunk'
  <2>1. size = Chunk
    BY <1>1, <1>2 DEF Copied
  <2>2. UNCHANGED <<fork, offset>>
    BY <1>1 DEF ranges
  <2> QED
    BY <1>1, <2>1, <2>2, CutIs DEF OneChunk
<1> QED
  BY <1>1, <1>2, CopiedFrame DEF Copied

\* The request for a chunk is not refused.
LEMMA RefuseCopied ==
  ASSUME Types, InRange, Copied, Refuse, UNCHANGED stream
  PROVE  Copied'
<1>1. pc = "request" /\ Bad /\ UNCHANGED ranges
  BY DEF Refuse
<1>2. ~Extractable
  <2> SUFFICES ASSUME Extractable PROVE FALSE
    OBVIOUS
  <2>1. Requested /\ AtChunk /\ OneChunk /\ asked = Chunk /\ size <= Chunk
    BY <1>1 DEF InRange, Copied, Types
  <2>2. ~FallsShort
    BY <2>1, ChunkPlaced
  <2> QED
    BY <1>1, <2>1, <2>2, NotRefused DEF Extractable
<1> QED
  BY <1>1, <1>2, CopiedFrame DEF Copied

\* Nor does trimming it lead out of the extent.
LEMMA BeginCopied ==
  ASSUME Types, InRange, Copied, Begin, UNCHANGED stream
  PROVE  Copied'
<1>1. /\ pc = "request" /\ pc' = "loop" /\ ~Bad /\ request' = Trimmed
      /\ size' = size /\ UNCHANGED ranges
  BY DEF Begin
<1>2. ASSUME Extractable PROVE OneChunk /\ ~FallsShort /\ InOneExtent'
  <2>1. Requested /\ AtChunk /\ OneChunk /\ asked = Chunk /\ size <= Chunk
    BY <1>1, <1>2 DEF InRange, Copied, Types
  <2>2. PICK e \in Extents :
          /\ range_contains(e, request.start)
          /\ request.start + request.count <= e.logicalStart + e.blockCount
    BY <1>2, <2>1, ChunkPlaced
  <2>3. /\ request'.start = request.start /\ request'.count <= request.count
        /\ request'.count \in Nat /\ request.count \in Nat /\ request.start \in Nat
    BY <1>1, TrimmedIs DEF Types, Request, Bad
  <2>4. Extents' = Extents /\ e \in Extent
    BY <1>1, ForkIs DEF ranges, Extents, Types
  <2>5. /\ range_contains(e, request'.start)
        /\ request'.start + request'.count <= e.logicalStart + e.blockCount
    BY <2>2, <2>3, <2>4 DEF Extent
  <2>6. InOneExtent'
    BY <2>4, <2>5 DEF InOneExtent, range_contains
  <2> QED
    BY <1>2, <2>1, <2>6, ChunkPlaced
<1> QED
  BY <1>1, <1>2, CopiedFrame DEF Copied

LEMMA ReadCopied ==
  ASSUME Copied, Read, UNCHANGED stream
  PROVE  Copied'
<1>1. /\ pc = "loop" /\ pc' \in {"loop", "copy"} /\ size' = size /\ request' = request
      /\ UNCHANGED ranges
  BY DEF Read
<1> QED
  BY <1>1, CopiedFrame DEF Copied

LEMMA CopyCopied ==
  ASSUME Copied, Copy, UNCHANGED stream
  PROVE  Copied'
<1>1. /\ pc = "copy" /\ pc' = "done" /\ size' = size /\ request' = request /\ UNCHANGED ranges
  BY DEF Copy
<1> QED
  BY <1>1, CopiedFrame DEF Copied

\* A chunk follows the part of the fork that is written, and another begins
\* where it ends.
LEMMA CopyChunkCopied ==
  ASSUME Types, InRange, Copied, CopyChunk
  PROVE  Copied'
<1>1. /\ pc = "done" /\ size > 0 /\ cursor' = cursor + size /\ f_out' = f_out \o Delivered
      /\ UNCHANGED <<client, asked, readable, fork>>
      /\ pc' = "check" /\ size' = asked /\ offset' = offset + size
  BY DEF CopyChunk, fork_readfn, Reading, Types
<1>2. Extractable' = Extractable
  BY <1>1 DEF Extractable, Roomy, Chunks, ChunkInOneExtent, Extents
<1> SUFFICES ASSUME Extractable PROVE asked' = Chunk /\ AtChunk' /\ f_out' = Prefix'
  BY <1>1, <1>2 DEF Copied
<1>3. /\ asked = Chunk /\ AtChunk /\ f_out = Prefix
      /\ OneChunk /\ InOneExtent /\ ~FallsShort
  BY <1>1 DEF Copied
<1>4. /\ offset \in Nat /\ size \in Nat /\ fork.logicalSize \in Nat
      /\ asked \in Nat /\ size <= asked
  BY ForkIs DEF Types
<1>5. AtChunk'
  <2>1. offset % Chunk = 0
    BY <1>1, <1>3, <1>4 DEF AtChunk, OneChunk
  <2>2. CASE size = Chunk
    BY <1>1, <1>3, <1>4, <2>1, <2>2, NextChunk DEF AtChunk, OneChunk
  <2>3. CASE offset + size = fork.logicalSize
    BY <1>1, <1>4, <2>3 DEF AtChunk
  <2> QED
    BY <1>3, <2>2, <2>3 DEF OneChunk
<1>6. \A j \in 0..(size - 1) : buf[j] = ForkByte(offset + j)
  BY <1>1, <1>3 DEF InRange, OneExtentExact, Exact, Extractable
<1>7. \A n \in 1..size : Delivered[n] = ForkByte((offset + n) - 1)
  <2> TAKE n \in 1..size
  <2>1. n - 1 \in 0..(size - 1) /\ offset + (n - 1) = (offset + n) - 1
    BY <1>4
  <2>2. Delivered[n] = buf[n - 1]
    BY DEF Delivered
  <2> QED
    BY <1>6, <2>1, <2>2, Zenon
<1>8. f_out' = [n \in 1..(offset + size) |-> ForkByte(n - 1)]
  <2>1. f_out \in Seq(Int) /\ Len(f_out) = offset /\ \A n \in 1..offset : f_out[n] = ForkByte(n - 1)
    <3> DEFINE Byte(n) == ForkByte(n - 1)
    <3>1. f_out = [n \in 1..offset |-> Byte(n)] /\ f_out \in Seq(Int)
      BY <1>3 DEF Prefix, Types
    <3> HIDE DEF Byte
    <3>2. Len(f_out) = offset /\ \A n \in 1..offset : f_out[n] = Byte(n)
      BY <1>4, <3>1
    <3> QED
      BY <3>1, <3>2 DEF Byte
  <2>2. Delivered \in Seq(Int) /\ Len(Delivered) = size
    <3>1. Delivered = [j \in 1..size |-> buf[j - 1]] /\ \A j \in 0..(asked - 1) : buf[j] \in Int
      BY DEF Delivered, Types
    <3>2. \A j \in 1..size : j - 1 \in 0..(asked - 1)
      BY <1>4
    <3>3. \A j \in 1..size : buf[j - 1] \in Int
      BY <3>1, <3>2, Zenon
    <3> QED
      BY <1>4, <3>1, <3>3
  <2> HIDE DEF Delivered
  <2>3. /\ f_out' \in Seq(Int) /\ Len(f_out') = offset + size
        /\ \A n \in 1..(offset + size) :
             f_out'[n] = IF n <= offset THEN f_out[n] ELSE Delivered[n - offset]
    <3>1. f_out' = f_out \o Delivered
      BY <1>1
    <3>2. DOMAIN f_out = 1..Len(f_out) /\ Len(f_out) = offset /\ f_out \in Seq(Int)
      BY <2>1
    <3> QED
      BY <1>4, <2>2, <3>1, <3>2, Concatenated
  <2>4. ASSUME NEW n \in 1..(offset + size) PROVE f_out'[n] = ForkByte(n - 1)
    <3>1. CASE n <= offset
      <4>1. n \in 1..offset
        BY <1>4, <3>1
      <4> QED
        BY <2>1, <2>3, <3>1, <4>1
    <3>2. CASE ~(n <= offset)
      <4>1. n - offset \in 1..size /\ offset + (n - offset) = n
        BY <1>4, <3>2
      <4>2. f_out'[n] = Delivered[n - offset]
        BY <2>3, <3>2
      <4>3. Delivered[n - offset] = ForkByte((offset + (n - offset)) - 1)
        BY <1>7, <4>1, Zenon
      <4> QED
        BY <4>1, <4>2, <4>3, Zenon
    <3> QED
      BY <3>1, <3>2
  <2> DEFINE Byte(n) == ForkByte(n - 1)
  <2>5. \A n \in 1..(offset + size) : f_out'[n] = Byte(n)
    BY <2>4
  <2> HIDE DEF Byte
  <2>6. f_out' = [n \in 1..(offset + size) |-> Byte(n)]
    BY <1>4, <2>3, <2>5
  <2> QED
    BY <2>6 DEF Byte
<1>9. Prefix' = [n \in 1..(offset + size) |-> ForkByte(n - 1)]
  BY <1>1 DEF Prefix, ForkByte, extentlist_find, Containing, Extents
<1> QED
  BY <1>1, <1>3, <1>5, <1>8, <1>9

LEMMA CopyEndsCopied ==
  ASSUME Copied, CopyEnds
  PROVE  Copied'
<1>1. /\ pc = "done" /\ pc' = "closed" /\ size = 0 /\ UNCHANGED <<ranges, stream>>
  BY DEF CopyEnds
<1>2. UNCHANGED <<fork, offset>>
  BY <1>1 DEF ranges
<1>3. Extractable => asked = Chunk /\ AtChunk /\ f_out = Prefix /\ offset = fork.logicalSize
  BY <1>1 DEF Copied, OneChunk
<1> QED
  BY <1>1, <1>2, <1>3, CopiedFrame DEF Copied

\* A client that is not extractFork has no copy.
LEMMA OthersCopied ==
  ASSUME client = "fpread", client' = client
  PROVE  Copied'
<1>1. client' # "extractFork"
  OBVIOUS
<1>2. ~Extractable'
  BY <1>1 DEF Extractable
<1> QED
  BY <1>2 DEF Copied

LEMMA NextCopied ==
  ASSUME Types, InRange, Copied, [StreamNext]_streamVars
  PROVE  Copied'
<1>1. CASE Ignore /\ UNCHANGED stream
  BY <1>1, IgnoreCopied
<1>2. CASE Round /\ UNCHANGED stream
  BY <1>2, RoundCopied
<1>3. CASE Refuse /\ UNCHANGED stream
  BY <1>3, RefuseCopied
<1>4. CASE Begin /\ UNCHANGED stream
  BY <1>4, BeginCopied
<1>5. CASE Stuck /\ UNCHANGED stream
  <2>1. pc' = "aborted" /\ UNCHANGED ranges
    BY <1>5 DEF Stuck
  <2> QED
    BY <1>5, <2>1, CopiedFrame DEF Copied
<1>6. CASE Read /\ UNCHANGED stream
  BY <1>6, ReadCopied
<1>7. CASE Copy /\ UNCHANGED stream
  BY <1>7, CopyCopied
<1>8. CASE CopyChunk
  BY <1>8, CopyChunkCopied
<1>9. CASE CopyEnds
  BY <1>9, CopyEndsCopied
<1>10. ASSUME NEW pos \in Offsets, NEW whence \in Whences, Seek(pos, whence)
       PROVE  Copied'
  BY <1>10, OthersCopied DEF Seek
<1>11. CASE Unused
  BY <1>11, OthersCopied DEF Unused, stream
<1>12. CASE UNCHANGED streamVars
  <2>1. UNCHANGED <<ranges, stream>> /\ UNCHANGED <<fork, offset, size, request, pc>>
    BY <1>12 DEF streamVars, vars, ranges
  <2> QED
    BY <2>1, CopiedFrame DEF Copied
<1> QED
  BY <1>1, <1>2, <1>3, <1>4, <1>5, <1>6, <1>7, <1>8, <1>9, <1>10, <1>11, <1>12
     DEF StreamNext, ReadStep, Next

\* A file extracted from a volume that can be read is, byte for byte and to its
\* last byte, the fork, for any fork no chunk of which is cut by the border of an
\* extent: the cursor, the chunks and the rounding to blocks leave no gap.
THEOREM CopyIsForkHolds == StreamSpec => []CopyIsFork
<1> DEFINE Inv == Types /\ Buffers /\ OwnBytes /\ InRange /\ Copied
<1>1. StreamInit => Inv
  <2>1. StreamInit => pc = "check"
    BY DEF StreamInit, Init
  <2> QED
    BY <2>1, InitOwn, InitCopied DEF InRange, OneExtentExact
<1>2. Inv /\ [StreamNext]_streamVars => Inv'
  BY NextOwn, NextRange, NextCopied
<1>3. Inv => CopyIsFork
  BY DEF Copied, Extractable, CopyIsFork, Prefix
<1> QED
  BY <1>1, <1>2, <1>3, PTL DEF StreamSpec

-----------------------------------------------------------------------------
HIDE SizesAssumption

(***************************************************************************)
(* Recursion and induction                                                 *)
(***************************************************************************)

LEMMA LeastNat ==
  ASSUME NEW T, T \subseteq Nat, T # {}
  PROVE  \E x \in T : \A y \in T : x <= y
<1> DEFINE R == OpToRel(<, Nat)
<1>1. IsWellFoundedOn(R, Nat)
  BY NatLessThanWellFounded, Zenon
<1>2. \A x, y \in Nat : <<y, x>> \in R <=> y < x
  BY DEF OpToRel
<1> HIDE DEF R
<1>3. PICK x \in T : \A y \in T : ~ (<<y, x>> \in R)
  BY <1>1, WFMin, Zenon
<1>4. \A y \in T : ~ (y < x)
  BY <1>2, <1>3, Zenon
<1> QED
  BY <1>4

\* Induction up to a number, where what is shown is given as a set.
LEMMA Climb ==
  ASSUME NEW N \in Nat, NEW P, 0 \in P,
         \A n \in 1..N : n - 1 \in P => n \in P
  PROVE  \A n \in 0..N : n \in P
<1> DEFINE T == {n \in 0..N : n \notin P}
<1>1. CASE T = {}
  BY <1>1
<1>2. CASE T # {}
  <2>1. T \subseteq Nat
    OBVIOUS
  <2>2. PICK n \in T : \A m \in T : n <= m
    <3> HIDE DEF T
    <3> QED
      BY <1>2, <2>1, LeastNat
  <2>3. n \in 1..N /\ n \notin P
    BY <2>2
  <2>4. n - 1 \in 0..N /\ n - 1 \notin T
    BY <2>2, <2>3
  <2> QED
    BY <2>3, <2>4
<1> QED
  BY <1>1, <1>2

\* Two functions with the same beginning, in which equal values are followed by
\* equal values.
InStep(f, h, N) ==
  f[0] = h[0] /\ \A n \in 1..N : f[n - 1] = h[n - 1] => f[n] = h[n]

LEMMA Alike ==
  ASSUME NEW N \in Nat, NEW f, NEW h, InStep(f, h, N)
  PROVE  \A n \in 0..N : f[n] = h[n]
<1> DEFINE P == {n \in 0..N : f[n] = h[n]}
<1>1. 0 \in P
  BY DEF InStep
<1>2. \A n \in 1..N : n - 1 \in P => n \in P
  BY DEF InStep
<1> HIDE DEF P
<1>3. \A n \in 0..N : n \in P
  BY <1>1, <1>2, Climb
<1> QED
  BY <1>3 DEF P

\* The front of a sequence, one element longer.
LEMMA OneMore ==
  ASSUME NEW S, NEW s \in Seq(S), NEW n \in 1..Len(s)
  PROVE  SubSeq(s, 1, n) = Append(SubSeq(s, 1, n - 1), s[n])
<1>1. Len(s) \in Nat /\ 1 \in 1..Len(s)
  OBVIOUS
<1>2. SubSeq(s, 1, n) = SubSeq(s, 1, n - 1) \o <<s[n]>>
  BY <1>1, SubSeqRecursiveSecond
<1>3. SubSeq(s, 1, n - 1) \in Seq(S) /\ s[n] \in S
  OBVIOUS
<1> QED
  BY <1>2, <1>3, AppendIsConcat

\* Induction over sequences, from the front to the back.
LEMMA Appended ==
  ASSUME NEW S, NEW P, <<>> \in P,
         \A s \in Seq(S), e \in S : s \in P => Append(s, e) \in P
  PROVE  \A s \in Seq(S) : s \in P
<1> SUFFICES ASSUME NEW s \in Seq(S) PROVE s \in P
  OBVIOUS
<1> DEFINE Q == {n \in 0..Len(s) : SubSeq(s, 1, n) \in P}
<1>1. 0 \in Q
  <2>1. SubSeq(s, 1, 0) = <<>>
    BY SubSeqEmpty
  <2>2. 0 \in 0..Len(s)
    OBVIOUS
  <2> QED
    BY <2>1, <2>2
<1>2. ASSUME NEW n \in 1..Len(s), n - 1 \in Q PROVE n \in Q
  <2>1. SubSeq(s, 1, n - 1) \in Seq(S) /\ s[n] \in S
    OBVIOUS
  <2>2. SubSeq(s, 1, n) = Append(SubSeq(s, 1, n - 1), s[n])
    BY OneMore
  <2>3. Append(SubSeq(s, 1, n - 1), s[n]) \in P
    BY <1>2, <2>1
  <2>4. n \in 0..Len(s)
    OBVIOUS
  <2> QED
    BY <2>2, <2>3, <2>4
<1>3. Len(s) \in 0..Len(s) /\ Len(s) \in Nat
  OBVIOUS
<1> HIDE DEF Q
<1>4. Len(s) \in Q
  BY <1>1, <1>2, <1>3, Climb
<1> QED
  BY <1>4, SubSeqFull DEF Q

\* A recursion over the numbers up to N has a value at each.
Computes(f, a, g, m) == f[0] = a /\ \A n \in 1..m : f[n] = g[n][f[n - 1]]

LEMMA Recursion ==
  ASSUME NEW S, NEW a \in S, NEW N \in Nat, NEW g \in [1..N -> [S -> S]]
  PROVE  \E f \in [0..N -> S] : Computes(f, a, g, N)
<1> DEFINE P == {m \in 0..N : \E f \in [0..m -> S] : Computes(f, a, g, m)}
<1>1. 0 \in P
  <2> DEFINE f == [n \in 0..0 |-> a]
  <2>1. f \in [0..0 -> S] /\ f[0] = a
    OBVIOUS
  <2> HIDE DEF f
  <2>2. Computes(f, a, g, 0)
    BY <2>1 DEF Computes
  <2> QED
    BY <2>1, <2>2
<1>2. ASSUME NEW m \in 1..N, m - 1 \in P PROVE m \in P
  <2>1. PICK f \in [0..(m - 1) -> S] : Computes(f, a, g, m - 1)
    BY <1>2
  <2> DEFINE h == [n \in 0..m |-> IF n = m THEN g[m][f[m - 1]] ELSE f[n]]
  <2>2. h \in [0..m -> S]
    OBVIOUS
  <2>3. h[0] = a
    BY <2>1 DEF Computes
  <2>4. ASSUME NEW n \in 1..m PROVE h[n] = g[n][h[n - 1]]
    <3>1. n - 1 \in 0..m /\ n - 1 # m
      OBVIOUS
    <3>2. h[n - 1] = f[n - 1]
      BY <3>1
    <3>3. CASE n = m
      BY <3>2, <3>3
    <3>4. CASE n # m
      <4>1. n \in 1..(m - 1)
        BY <3>4
      <4> QED
        BY <2>1, <3>2, <4>1 DEF Computes
    <3> QED
      BY <3>3, <3>4
  <2> HIDE DEF h
  <2>5. Computes(h, a, g, m)
    BY <2>3, <2>4 DEF Computes
  <2> QED
    BY <2>2, <2>5
<1>3. N \in 0..N
  OBVIOUS
<1> HIDE DEF P
<1>4. N \in P
  BY <1>1, <1>2, <1>3, Climb
<1> QED
  BY <1>4 DEF P

-----------------------------------------------------------------------------
(***************************************************************************)
(* What the recursive operators compute                                    *)
(***************************************************************************)

\* Total adds up the blocks, one extent after the other.
LEMMA TotalIs ==
  ASSUME NEW R, \A r \in R : r.blockCount \in Nat, NEW s \in Seq(R)
  PROVE  \E f \in [0..Len(s) -> Nat] :
           /\ f[0] = 0 /\ \A n \in 1..Len(s) : f[n] = f[n - 1] + s[n].blockCount
           /\ Total(s) = f[Len(s)]
<1> DEFINE value(f, n) == IF n = 0 THEN 0 ELSE f[n - 1] + s[n].blockCount
           chosen == CHOOSE f : f = [n \in 0..Len(s) |-> value(f, n)]
           g == [n \in 1..Len(s) |-> [x \in Nat |-> x + s[n].blockCount]]
<1>1. Len(s) \in Nat /\ \A n \in 1..Len(s) : s[n].blockCount \in Nat
  OBVIOUS
<1>2. g \in [1..Len(s) -> [Nat -> Nat]]
  BY <1>1
<1>3. PICK f \in [0..Len(s) -> Nat] : Computes(f, 0, g, Len(s))
  <2> HIDE DEF g
  <2> QED
    BY <1>1, <1>2, Recursion
<1>4. \A n \in 0..Len(s) : f[n] = value(f, n)
  <2> SUFFICES ASSUME NEW n \in 0..Len(s) PROVE f[n] = value(f, n)
    OBVIOUS
  <2>1. CASE n = 0
    BY <1>3, <2>1 DEF Computes
  <2>2. CASE n # 0
    <3>1. n \in 1..Len(s) /\ n - 1 \in 0..Len(s)
      BY <1>1, <2>2
    <3>2. f[n - 1] \in Nat
      BY <3>1
    <3> QED
      BY <1>3, <2>2, <3>1, <3>2 DEF Computes
  <2> QED
    BY <2>1, <2>2
<1>5. chosen = [n \in 0..Len(s) |-> value(chosen, n)]
  <2> HIDE DEF value
  <2>1. f = [n \in 0..Len(s) |-> value(f, n)]
    BY <1>4
  <2> QED
    BY <2>1, Zenon
<1> HIDE DEF chosen
<1>6. \A n \in 0..Len(s) : chosen[n] = f[n]
  <2>1. \A n \in 0..Len(s) : chosen[n] = value(chosen, n)
    <3> HIDE DEF value
    <3> QED
      BY <1>5
  <2>2. chosen[0] = f[0]
    <3>1. 0 \in 0..Len(s)
      BY <1>1
    <3>2. chosen[0] = value(chosen, 0) /\ f[0] = value(f, 0)
      BY <1>4, <2>1, <3>1
    <3> QED
      BY <3>2
  <2>3. ASSUME NEW n \in 1..Len(s), chosen[n - 1] = f[n - 1] PROVE chosen[n] = f[n]
    <3>1. n \in 0..Len(s) /\ n # 0
      BY <1>1
    <3> QED
      BY <1>4, <2>1, <2>3, <3>1
  <2> HIDE DEF value
  <2>4. InStep(chosen, f, Len(s))
    BY <2>2, <2>3 DEF InStep
  <2> QED
    BY <1>1, <2>4, Alike
<1>7. Total(s) = chosen[Len(s)]
  BY Zenon DEF Total, chosen
<1>8. f[0] = 0 /\ \A n \in 1..Len(s) : f[n] = f[n - 1] + s[n].blockCount
  <2>1. f[0] = 0
    BY <1>1, <1>4
  <2>2. ASSUME NEW n \in 1..Len(s) PROVE f[n] = f[n - 1] + s[n].blockCount
    <3>1. n \in 0..Len(s) /\ n # 0
      BY <1>1
    <3>2. f[n] = value(f, n)
      BY <1>4, <3>1
    <3> QED
      BY <3>1, <3>2
  <2> QED
    BY <2>1, <2>2
<1>9. Total(s) = f[Len(s)]
  BY <1>1, <1>6, <1>7
<1> QED
  BY <1>8, <1>9

\* AddRecord adds one descriptor after the other.
Adds(f, list, record, m) ==
  f[0] = list /\ \A n \in 1..m : f[n] = Add(f[n - 1], record[n])

LEMMA AddRecordIs ==
  ASSUME NEW S, NEW list \in S, NEW R, NEW record \in Seq(R),
         \A l \in S : \A d \in R : Add(l, d) \in S
  PROVE  \E f \in [0..Len(record) -> S] :
           Adds(f, list, record, Len(record)) /\ AddRecord(list, record) = f[Len(record)]
<1> DEFINE value(f, n) == IF n = 0 THEN list ELSE Add(f[n - 1], record[n])
           chosen == CHOOSE f : f = [n \in 0..Len(record) |-> value(f, n)]
           g == [n \in 1..Len(record) |-> [x \in S |-> Add(x, record[n])]]
<1>1. Len(record) \in Nat /\ \A n \in 1..Len(record) : record[n] \in R
  OBVIOUS
<1>2. g \in [1..Len(record) -> [S -> S]]
  BY <1>1
<1>3. PICK f \in [0..Len(record) -> S] : Computes(f, list, g, Len(record))
  <2> HIDE DEF g
  <2> QED
    BY <1>1, <1>2, Recursion
<1>4. \A n \in 0..Len(record) : f[n] = value(f, n)
  <2> SUFFICES ASSUME NEW n \in 0..Len(record) PROVE f[n] = value(f, n)
    OBVIOUS
  <2>1. CASE n = 0
    BY <1>3, <2>1 DEF Computes
  <2>2. CASE n # 0
    <3>1. n \in 1..Len(record) /\ n - 1 \in 0..Len(record)
      BY <1>1, <2>2
    <3>2. f[n - 1] \in S
      BY <3>1
    <3> QED
      BY <1>3, <2>2, <3>1, <3>2 DEF Computes
  <2> QED
    BY <2>1, <2>2
<1>5. chosen = [n \in 0..Len(record) |-> value(chosen, n)]
  <2> HIDE DEF value
  <2>1. f = [n \in 0..Len(record) |-> value(f, n)]
    BY <1>4
  <2> QED
    BY <2>1, Zenon
<1> HIDE DEF chosen
<1>6. \A n \in 0..Len(record) : chosen[n] = f[n]
  <2>1. \A n \in 0..Len(record) : chosen[n] = value(chosen, n)
    <3> HIDE DEF value
    <3> QED
      BY <1>5
  <2>2. chosen[0] = f[0]
    <3>1. 0 \in 0..Len(record)
      BY <1>1
    <3>2. chosen[0] = value(chosen, 0) /\ f[0] = value(f, 0)
      BY <1>4, <2>1, <3>1
    <3> QED
      BY <3>2
  <2>3. ASSUME NEW n \in 1..Len(record), chosen[n - 1] = f[n - 1] PROVE chosen[n] = f[n]
    <3>1. n \in 0..Len(record) /\ n # 0
      BY <1>1
    <3> QED
      BY <1>4, <2>1, <2>3, <3>1
  <2> HIDE DEF value
  <2>4. InStep(chosen, f, Len(record))
    BY <2>2, <2>3 DEF InStep
  <2> QED
    BY <1>1, <2>4, Alike
<1>7. AddRecord(list, record) = chosen[Len(record)]
  BY Zenon DEF AddRecord, chosen
<1>8. Adds(f, list, record, Len(record))
  BY <1>1, <1>4 DEF Adds
<1>9. AddRecord(list, record) = f[Len(record)]
  BY <1>1, <1>6, <1>7
<1> QED
  BY <1>8, <1>9

\* Within goes through a sequence from its front.
Takes(f, s, T, m) ==
  /\ f[0] = <<>>
  /\ \A n \in 1..m : f[n] = IF s[n] \in T THEN Append(f[n - 1], s[n]) ELSE f[n - 1]

LEMMA WithinIs ==
  ASSUME NEW R, NEW s \in Seq(R), NEW T
  PROVE  \E f \in [0..Len(s) -> Seq(R)] : Takes(f, s, T, Len(s)) /\ Within(s, T) = f[Len(s)]
<1> DEFINE value(f, n) == IF n = 0 THEN <<>> ELSE IF s[n] \in T THEN Append(f[n - 1], s[n]) ELSE f[n - 1]
           chosen == CHOOSE f : f = [n \in 0..Len(s) |-> value(f, n)]
           g == [n \in 1..Len(s) |-> [x \in Seq(R) |-> IF s[n] \in T THEN Append(x, s[n]) ELSE x]]
<1>1. /\ Len(s) \in Nat /\ <<>> \in Seq(R)
      /\ \A n \in 1..Len(s) : s[n] \in R
  OBVIOUS
<1>2. g \in [1..Len(s) -> [Seq(R) -> Seq(R)]]
  BY <1>1
<1>3. PICK f \in [0..Len(s) -> Seq(R)] : Computes(f, <<>>, g, Len(s))
  <2> HIDE DEF g
  <2> QED
    BY <1>1, <1>2, Recursion
<1>4. \A n \in 0..Len(s) : f[n] = value(f, n)
  <2> SUFFICES ASSUME NEW n \in 0..Len(s) PROVE f[n] = value(f, n)
    OBVIOUS
  <2>1. CASE n = 0
    BY <1>3, <2>1 DEF Computes
  <2>2. CASE n # 0
    <3>1. n \in 1..Len(s) /\ n - 1 \in 0..Len(s)
      BY <1>1, <2>2
    <3>2. f[n - 1] \in Seq(R)
      BY <3>1
    <3> QED
      BY <1>3, <2>2, <3>1, <3>2 DEF Computes
  <2> QED
    BY <2>1, <2>2
<1>5. chosen = [n \in 0..Len(s) |-> value(chosen, n)]
  <2> HIDE DEF value
  <2>1. f = [n \in 0..Len(s) |-> value(f, n)]
    BY <1>4
  <2> QED
    BY <2>1, Zenon
<1> HIDE DEF chosen
<1>6. \A n \in 0..Len(s) : chosen[n] = f[n]
  <2>1. \A n \in 0..Len(s) : chosen[n] = value(chosen, n)
    <3> HIDE DEF value
    <3> QED
      BY <1>5
  <2>2. chosen[0] = f[0]
    <3>1. 0 \in 0..Len(s)
      BY <1>1
    <3>2. chosen[0] = value(chosen, 0) /\ f[0] = value(f, 0)
      BY <1>4, <2>1, <3>1
    <3> QED
      BY <3>2
  <2>3. ASSUME NEW n \in 1..Len(s), chosen[n - 1] = f[n - 1] PROVE chosen[n] = f[n]
    <3>1. n \in 0..Len(s) /\ n # 0
      BY <1>1
    <3> QED
      BY <1>4, <2>1, <2>3, <3>1
  <2> HIDE DEF value
  <2>4. InStep(chosen, f, Len(s))
    BY <2>2, <2>3 DEF InStep
  <2> QED
    BY <1>1, <2>4, Alike
<1>7. Within(s, T) = chosen[Len(s)]
  BY Zenon DEF Within, chosen
<1>8. Takes(f, s, T, Len(s))
  <2>1. f[0] = <<>>
    BY <1>1, <1>4
  <2>2. ASSUME NEW n \in 1..Len(s)
        PROVE  f[n] = IF s[n] \in T THEN Append(f[n - 1], s[n]) ELSE f[n - 1]
    <3>1. n \in 0..Len(s) /\ n # 0
      BY <1>1
    <3>2. f[n] = value(f, n)
      BY <1>4, <3>1
    <3> QED
      BY <3>1, <3>2
  <2> QED
    BY <2>1, <2>2 DEF Takes
<1>9. Within(s, T) = f[Len(s)]
  BY <1>1, <1>6, <1>7
<1> QED
  BY <1>8, <1>9

LEMMA TotalEmpty == Total(<<>>) = 0
<1>1. <<>> \in Seq([blockCount : Nat]) /\ Len(<<>>) = 0
  OBVIOUS
<1> QED
  BY <1>1, TotalIs

LEMMA TotalAppend ==
  ASSUME NEW R, \A r \in R : r.blockCount \in Nat, NEW s \in Seq(R), NEW e \in R
  PROVE  /\ Total(s) \in Nat
         /\ Total(Append(s, e)) = Total(s) + e.blockCount
<1> DEFINE t == Append(s, e)
           N == Len(s)
<1>1. PICK f \in [0..N -> Nat] :
        /\ f[0] = 0 /\ \A n \in 1..N : f[n] = f[n - 1] + s[n].blockCount
        /\ Total(s) = f[N]
  BY TotalIs
<1>2. /\ t \in Seq(R) /\ N \in Nat /\ Len(t) = N + 1
      /\ t[N + 1] = e /\ \A n \in 1..N : t[n] = s[n]
  BY AppendProperties
<1> HIDE DEF t, N
<1>3. PICK h \in [0..(N + 1) -> Nat] :
        /\ h[0] = 0 /\ \A n \in 1..(N + 1) : h[n] = h[n - 1] + t[n].blockCount
        /\ Total(t) = h[N + 1]
  BY <1>2, TotalIs
<1>4. f[0] = h[0]
  BY <1>1, <1>3
<1>5. ASSUME NEW n \in 1..N, f[n - 1] = h[n - 1] PROVE f[n] = h[n]
  <2>1. n \in 1..(N + 1) /\ s[n] = t[n]
    BY <1>2
  <2> QED
    BY <1>1, <1>3, <1>5, <2>1
<1>6. N \in 0..N /\ f[N] = h[N]
  <2>1. N \in Nat /\ N \in 0..N
    BY <1>2
  <2> DEFINE P == {n \in 0..N : f[n] = h[n]}
  <2>2. 0 \in P /\ \A n \in 1..N : n - 1 \in P => n \in P
    BY <1>4, <1>5, <2>1
  <2> HIDE DEF P
  <2>3. N \in P
    BY <2>1, <2>2, Climb
  <2> QED
    BY <2>1, <2>3 DEF P
<1>7. h[N + 1] = h[N] + e.blockCount /\ f[N] \in Nat
  BY <1>2, <1>3
<1> QED
  BY <1>1, <1>3, <1>6, <1>7 DEF t, N

LEMMA AppendConcat ==
  ASSUME NEW R, NEW s \in Seq(R), NEW t \in Seq(R), NEW e \in R
  PROVE  s \o Append(t, e) = Append(s \o t, e)
OBVIOUS

LEMMA TotalNat ==
  ASSUME NEW R, \A r \in R : r.blockCount \in Nat, NEW s \in Seq(R)
  PROVE  Total(s) \in Nat
<1>1. Len(s) \in Nat
  OBVIOUS
<1> QED
  BY <1>1, TotalIs

LEMMA TotalConcat ==
  ASSUME NEW R, \A r \in R : r.blockCount \in Nat, NEW s \in Seq(R), NEW t \in Seq(R)
  PROVE  /\ Total(s) \in Nat /\ Total(t) \in Nat
         /\ Total(s \o t) = Total(s) + Total(t)
<1> DEFINE P == {u \in Seq(R) : Total(u) \in Nat /\ Total(s \o u) = Total(s) + Total(u)}
<1>1. Total(s) \in Nat
  BY TotalNat
<1>2. <<>> \in P
  <2>1. <<>> \in Seq(R) /\ s \o <<>> = s
    OBVIOUS
  <2> QED
    BY <1>1, <2>1, TotalEmpty
<1>3. ASSUME NEW u \in Seq(R), NEW e \in R, u \in P PROVE Append(u, e) \in P
  <2>1. s \o u \in Seq(R) /\ Append(u, e) \in Seq(R) /\ s \o Append(u, e) = Append(s \o u, e)
    OBVIOUS
  <2>2. /\ Total(Append(u, e)) = Total(u) + e.blockCount
        /\ Total(Append(s \o u, e)) = Total(s \o u) + e.blockCount
    BY <2>1, TotalAppend
  <2>3. Total(u) \in Nat /\ Total(s \o u) = Total(s) + Total(u)
    BY <1>3
  <2>4. e.blockCount \in Nat
    OBVIOUS
  <2>5. Total(Append(u, e)) \in Nat /\ Total(s \o Append(u, e)) = Total(s) + Total(Append(u, e))
    BY <1>1, <2>1, <2>2, <2>3, <2>4
  <2> QED
    BY <2>1, <2>5
<1> HIDE DEF P
<1>4. t \in P
  BY <1>2, <1>3, Appended
<1> QED
  BY <1>1, <1>4 DEF P

LEMMA WithinEmpty == \A T : Within(<<>>, T) = <<>>
<1> SUFFICES ASSUME NEW T PROVE Within(<<>>, T) = <<>>
  OBVIOUS
<1>1. <<>> \in Seq({0}) /\ Len(<<>>) = 0
  OBVIOUS
<1> DEFINE s == <<>>
<1>2. s \in Seq({0}) /\ Len(s) = 0
  BY <1>1
<1> HIDE DEF s
<1>3. PICK f \in [0..Len(s) -> Seq({0})] : Takes(f, s, T, Len(s)) /\ Within(s, T) = f[Len(s)]
  BY <1>2, WithinIs
<1>4. Within(s, T) = <<>>
  BY <1>2, <1>3 DEF Takes
<1> QED
  BY <1>4 DEF s

LEMMA WithinSeq ==
  ASSUME NEW R, NEW T, NEW s \in Seq(R)
  PROVE  Within(s, T) \in Seq(R)
<1>1. Len(s) \in Nat
  OBVIOUS
<1> QED
  BY <1>1, WithinIs

LEMMA WithinAppend ==
  ASSUME NEW R, NEW T, NEW s \in Seq(R), NEW e \in R
  PROVE  /\ Within(s, T) \in Seq(R)
         /\ e \in T => Within(Append(s, e), T) = Append(Within(s, T), e)
         /\ e \notin T => Within(Append(s, e), T) = Within(s, T)
<1> DEFINE t == Append(s, e)
           N == Len(s)
<1>1. PICK f \in [0..N -> Seq(R)] : Takes(f, s, T, N) /\ Within(s, T) = f[N]
  BY WithinIs
<1>2. /\ t \in Seq(R) /\ N \in Nat /\ Len(t) = N + 1
      /\ t[N + 1] = e /\ \A n \in 1..N : t[n] = s[n]
  BY AppendProperties
<1> HIDE DEF t, N
<1>3. PICK h \in [0..(N + 1) -> Seq(R)] : Takes(h, t, T, N + 1) /\ Within(t, T) = h[N + 1]
  <2>1. \E h \in [0..Len(t) -> Seq(R)] : Takes(h, t, T, Len(t)) /\ Within(t, T) = h[Len(t)]
    BY <1>2, WithinIs
  <2> QED
    BY <1>2, <2>1
<1>4. f[0] = h[0]
  BY <1>1, <1>3 DEF Takes
<1>5. ASSUME NEW n \in 1..N, f[n - 1] = h[n - 1] PROVE f[n] = h[n]
  <2>1. n \in 1..(N + 1) /\ s[n] = t[n]
    BY <1>2
  <2>2. f[n] = IF s[n] \in T THEN Append(f[n - 1], s[n]) ELSE f[n - 1]
    BY <1>1 DEF Takes
  <2>3. h[n] = IF t[n] \in T THEN Append(h[n - 1], t[n]) ELSE h[n - 1]
    BY <1>3, <2>1 DEF Takes
  <2>4. CASE s[n] \in T
    BY <1>5, <2>1, <2>2, <2>3, <2>4
  <2>5. CASE s[n] \notin T
    BY <1>5, <2>1, <2>2, <2>3, <2>5
  <2> QED
    BY <2>4, <2>5
<1>6. N \in 0..N /\ f[N] = h[N]
  <2>1. N \in Nat /\ N \in 0..N
    BY <1>2
  <2> DEFINE P == {n \in 0..N : f[n] = h[n]}
  <2>2. 0 \in P /\ \A n \in 1..N : n - 1 \in P => n \in P
    BY <1>4, <1>5, <2>1
  <2> HIDE DEF P
  <2>3. N \in P
    BY <2>1, <2>2, Climb
  <2> QED
    BY <2>1, <2>3 DEF P
<1>7. N + 1 \in 1..(N + 1) /\ (N + 1) - 1 = N /\ N \in 0..N
  BY <1>2
<1>8. h[N + 1] = IF e \in T THEN Append(h[N], e) ELSE h[N]
  BY <1>2, <1>3, <1>7 DEF Takes
<1>9. f[N] = h[N] /\ f[N] \in Seq(R)
  BY <1>6, <1>7
<1> QED
  BY <1>1, <1>3, <1>8, <1>9 DEF t

LEMMA WithinConcat ==
  ASSUME NEW R, NEW T, NEW s \in Seq(R), NEW t \in Seq(R)
  PROVE  /\ Within(s, T) \in Seq(R) /\ Within(t, T) \in Seq(R)
         /\ Within(s \o t, T) = Within(s, T) \o Within(t, T)
<1> DEFINE P == {u \in Seq(R) : /\ Within(u, T) \in Seq(R)
                              /\ Within(s \o u, T) = Within(s, T) \o Within(u, T)}
<1>1. Within(s, T) \in Seq(R)
  BY WithinSeq
<1>2. <<>> \in P
  <2>1. <<>> \in Seq(R) /\ s \o <<>> = s /\ Within(s, T) \o <<>> = Within(s, T)
    BY <1>1
  <2> QED
    BY <1>1, <2>1, WithinEmpty
<1>3. ASSUME NEW u \in Seq(R), NEW e \in R, u \in P PROVE Append(u, e) \in P
  <2>1. s \o u \in Seq(R) /\ Append(u, e) \in Seq(R) /\ s \o Append(u, e) = Append(s \o u, e)
    OBVIOUS
  <2>2. ASSUME NEW v \in Seq(R)
        PROVE  /\ e \in T => Within(Append(v, e), T) = Append(Within(v, T), e)
               /\ e \notin T => Within(Append(v, e), T) = Within(v, T)
    BY WithinAppend
  <2>3. Within(u, T) \in Seq(R) /\ Within(s \o u, T) = Within(s, T) \o Within(u, T)
    BY <1>3
  <2>4. Within(s, T) \o Append(Within(u, T), e) = Append(Within(s, T) \o Within(u, T), e)
    BY <1>1, <2>3
  <2>5. Append(Within(u, T), e) \in Seq(R)
    BY <2>3
  <2> HIDE DEF P
  <2>6. Within(Append(u, e), T) \in Seq(R)
    BY <2>2, <2>3, <2>5
  <2>7. Within(s \o Append(u, e), T) = Within(s, T) \o Within(Append(u, e), T)
    BY <2>1, <2>2, <2>3, <2>4
  <2> QED
    BY <2>1, <2>6, <2>7 DEF P
<1> HIDE DEF P
<1>4. t \in P
  BY <1>2, <1>3, Appended
<1> QED
  BY <1>1, <1>4 DEF P

\* Within takes nothing else than elements of both.
LEMMA WithinElement ==
  ASSUME NEW R, NEW T, NEW s \in Seq(R)
  PROVE  /\ Within(s, T) \in Seq(R)
         /\ \A i \in 1..Len(Within(s, T)) :
              Within(s, T)[i] \in T /\ \E m \in 1..Len(s) : s[m] = Within(s, T)[i]
<1> DEFINE Taken(u) == \A i \in 1..Len(Within(u, T)) :
                         Within(u, T)[i] \in T /\ \E m \in 1..Len(u) : u[m] = Within(u, T)[i]
           P == {u \in Seq(R) : Taken(u)}
<1>1. <<>> \in P
  <2>1. <<>> \in Seq(R) /\ Len(<<>>) = 0
    OBVIOUS
  <2> QED
    BY <2>1, WithinEmpty
<1>2. ASSUME NEW u \in Seq(R), NEW e \in R, u \in P PROVE Append(u, e) \in P
  <2> DEFINE v == Append(u, e)
             w == Within(u, T)
             x == Within(v, T)
  <2>1. w \in Seq(R) /\ x = IF e \in T THEN Append(w, e) ELSE w
    BY WithinAppend
  <2>2. v \in Seq(R) /\ Len(v) = Len(u) + 1 /\ v[Len(v)] = e /\ \A m \in 1..Len(u) : v[m] = u[m]
    OBVIOUS
  <2>3. \A i \in 1..Len(w) : w[i] \in T /\ \E m \in 1..Len(u) : u[m] = w[i]
    BY <1>2
  <2>4. Len(u) \in Nat /\ Len(w) \in Nat
    BY <2>1
  <2> HIDE DEF v, w, x
  <2>5. \A i \in 1..Len(w) : w[i] \in T /\ \E m \in 1..Len(v) : v[m] = w[i]
    <3> TAKE i \in 1..Len(w)
    <3>1. PICK m \in 1..Len(u) : u[m] = w[i]
      BY <2>3
    <3>2. m \in 1..Len(v)
      BY <2>2, <2>4
    <3> QED
      BY <2>2, <2>3, <3>1, <3>2
  <2>6. \A i \in 1..Len(x) : x[i] \in T /\ \E m \in 1..Len(v) : v[m] = x[i]
    <3>1. CASE e \in T
      <4> TAKE i \in 1..Len(x)
      <4>1. x = Append(w, e) /\ Len(x) = Len(w) + 1 /\ x[Len(w) + 1] = e
            /\ \A k \in 1..Len(w) : x[k] = w[k]
        BY <2>1, <3>1
      <4>2. CASE i = Len(w) + 1
        <5>1. Len(v) \in 1..Len(v)
          BY <2>2, <2>4
        <5> QED
          BY <2>2, <3>1, <4>1, <4>2, <5>1
      <4>3. CASE i # Len(w) + 1
        <5>1. i \in 1..Len(w)
          BY <2>4, <4>1, <4>3
        <5> QED
          BY <2>5, <4>1, <5>1
      <4> QED
        BY <4>2, <4>3
    <3>2. CASE e \notin T
      BY <2>1, <2>5, <3>2
    <3> QED
      BY <3>1, <3>2
  <2>7. Taken(v)
    BY <2>6 DEF x
  <2> QED
    BY <2>2, <2>7 DEF v
<1> HIDE DEF P
<1>3. s \in P
  BY <1>1, <1>2, Appended
<1>4. Taken(s)
  BY <1>3 DEF P
<1> QED
  BY <1>4, WithinSeq

-----------------------------------------------------------------------------
(***************************************************************************)
(* Lists of extents                                                        *)
(***************************************************************************)

\* extentlist_add puts a descriptor in use behind all extents, with the number of
\* the blocks before it, and drops an empty one.
LEMMA AddIs ==
  ASSUME NEW list \in Seq(Extent), NEW d \in Descriptor
  PROVE  /\ Add(list, d) \in Seq(Extent)
         /\ Total(Add(list, d)) = Total(list) + d.blockCount
         /\ Numbered(list) => Numbered(Add(list, d))
         /\ d.blockCount > 0 => Disk(Add(list, d)) = Append(Disk(list), d)
         /\ ~(d.blockCount > 0) => Disk(Add(list, d)) = Disk(list)
<1>1. d.blockCount \in Nat /\ d.startBlock \in Nat /\ \A x \in Extent : x.blockCount \in Nat
  BY DEF Descriptor, Extent
<1>2. Total(list) \in Nat
  BY <1>1, TotalNat
<1>3. CASE d.blockCount = 0
  <2>1. Add(list, d) = list
    BY <1>3 DEF Add
  <2> QED
    BY <1>2, <1>3, <2>1
<1>4. CASE d.blockCount # 0
  <2> DEFINE e == [ logicalStart |-> Total(list),
                    startBlock |-> d.startBlock, blockCount |-> d.blockCount ]
             more == Append(list, e)
  <2>1. Add(list, d) = more
    BY <1>4 DEF Add
  <2>2. e \in Extent
    BY <1>1, <1>2 DEF Extent
  <2>3. e.logicalStart = Total(list) /\ e.startBlock = d.startBlock /\ e.blockCount = d.blockCount
    OBVIOUS
  <2> HIDE DEF e
  <2>4. /\ more \in Seq(Extent) /\ Len(more) = Len(list) + 1 /\ more[Len(list) + 1] = e
        /\ \A i \in 1..Len(list) : more[i] = list[i]
        /\ DOMAIN more = 1..(Len(list) + 1) /\ DOMAIN list = 1..Len(list) /\ Len(list) \in Nat
    BY <2>2
  <2>5. Total(more) = Total(list) + d.blockCount
    BY <1>1, <2>2, <2>3, TotalAppend
  <2>6. ASSUME Numbered(list) PROVE Numbered(more)
    <3> SUFFICES ASSUME NEW i \in DOMAIN more
                 PROVE  more[i].logicalStart = Total(SubSeq(more, 1, i - 1))
      BY DEF Numbered
    <3>1. CASE i = Len(list) + 1
      <4>1. SubSeq(more, 1, i - 1) = list
        BY <2>2, <3>1
      <4> QED
        BY <2>3, <2>4, <3>1, <4>1
    <3>2. CASE i # Len(list) + 1
      <4>1. i \in 1..Len(list)
        BY <2>4, <3>2
      <4>2. SubSeq(more, 1, i - 1) = SubSeq(list, 1, i - 1)
        BY <2>2, <4>1
      <4> QED
        BY <2>4, <2>6, <4>1, <4>2 DEF Numbered
    <3> QED
      BY <3>1, <3>2
  <2>7. Disk(more) = Append(Disk(list), d)
    <3> DEFINE pair(x) == [startBlock |-> x.startBlock, blockCount |-> x.blockCount]
    <3>1. pair(e) = d
      BY <2>3 DEF Descriptor
    <3>2. \A x \in Extent : pair(x) \in Descriptor
      BY DEF Extent, Descriptor
    <3>3. Disk(list) = [i \in 1..Len(list) |-> pair(list[i])]
      BY <2>4 DEF Disk
    <3>4. Disk(more) = [i \in 1..(Len(list) + 1) |-> pair(more[i])]
      BY <2>4 DEF Disk
    <3>5. \A i \in 1..Len(list) : list[i] \in Extent
      OBVIOUS
    <3> HIDE DEF pair
    <3>6. Disk(list) \in Seq(Descriptor) /\ Len(Disk(list)) = Len(list)
      BY <2>4, <3>2, <3>3, <3>5
    <3>7. /\ Append(Disk(list), d) \in Seq(Descriptor)
          /\ Len(Append(Disk(list), d)) = Len(list) + 1
          /\ Append(Disk(list), d)[Len(list) + 1] = d
          /\ \A i \in 1..Len(list) : Append(Disk(list), d)[i] = pair(list[i])
      BY <3>3, <3>6
    <3>8. \A i \in 1..(Len(list) + 1) : Disk(more)[i] = Append(Disk(list), d)[i]
      <4> TAKE i \in 1..(Len(list) + 1)
      <4>1. CASE i = Len(list) + 1
        BY <2>4, <3>1, <3>4, <3>7, <4>1
      <4>2. CASE i # Len(list) + 1
        <5>1. i \in 1..Len(list)
          BY <2>4, <4>2
        <5> QED
          BY <2>4, <3>4, <3>7, <5>1
      <4> QED
        BY <4>1, <4>2
    <3>9. Disk(more) \in Seq(Descriptor) /\ Len(Disk(more)) = Len(list) + 1
      <4>1. \A i \in 1..(Len(list) + 1) : more[i] \in Extent
        BY <2>4
      <4> QED
        BY <2>4, <3>2, <3>4, <4>1
    <3> QED
      BY <3>7, <3>8, <3>9, SeqEqual
  <2> HIDE DEF more
  <2> QED
    BY <1>1, <1>4, <2>1, <2>4, <2>5, <2>6, <2>7
<1> QED
  BY <1>3, <1>4

LEMMA DiskSeq ==
  ASSUME NEW list \in Seq(Extent)
  PROVE  Disk(list) \in Seq(Descriptor)
<1> DEFINE pair(x) == [startBlock |-> x.startBlock, blockCount |-> x.blockCount]
<1>1. \A x \in Extent : pair(x) \in Descriptor
  BY DEF Extent, Descriptor
<1>2. /\ Disk(list) = [i \in 1..Len(list) |-> pair(list[i])] /\ Len(list) \in Nat
      /\ \A i \in 1..Len(list) : list[i] \in Extent
  BY DEF Disk
<1> HIDE DEF pair
<1> QED
  BY <1>1, <1>2

\* A record lengthens a list by its blocks and its descriptors in use, and the
\* extents stay numbered.
LEMMA AddRecordKeeps ==
  ASSUME NEW list \in Seq(Extent), NEW record \in Seq(Descriptor)
  PROVE  /\ AddRecord(list, record) \in Seq(Extent)
         /\ Total(AddRecord(list, record)) = Total(list) + Total(record)
         /\ Numbered(list) => Numbered(AddRecord(list, record))
         /\ Disk(AddRecord(list, record)) = Disk(list) \o InUse(record)
<1> DEFINE N == Len(record)
           used(n) == SubSeq(record, 1, n)
<1>1. \A l \in Seq(Extent) : \A d \in Descriptor : Add(l, d) \in Seq(Extent)
  BY AddIs
<1>2. PICK f \in [0..N -> Seq(Extent)] :
        Adds(f, list, record, N) /\ AddRecord(list, record) = f[N]
  BY <1>1, AddRecordIs
<1>3. N \in Nat /\ Disk(list) \in Seq(Descriptor) /\ Total(list) \in Nat
  <2>1. \A x \in Extent : x.blockCount \in Nat
    BY DEF Extent
  <2> QED
    BY <2>1, DiskSeq, TotalNat
<1>4. \A x \in Descriptor : x.blockCount \in Nat
  BY DEF Descriptor
<1> DEFINE Good(n) == /\ Total(f[n]) = Total(list) + Total(used(n))
                      /\ Numbered(list) => Numbered(f[n])
                      /\ Disk(f[n]) = Disk(list) \o InUse(used(n))
           P == {n \in 0..N : Good(n)}
<1>5. 0 \in P
  <2>1. used(0) = <<>>
    BY SubSeqEmpty
  <2>2. Total(used(0)) = 0 /\ InUse(used(0)) = <<>>
    BY <2>1, TotalEmpty, WithinEmpty DEF InUse
  <2>3. Disk(list) \o <<>> = Disk(list) /\ 0 \in 0..N
    BY <1>3
  <2> HIDE DEF used
  <2> QED
    BY <1>2, <1>3, <2>2, <2>3 DEF Adds
<1>6. ASSUME NEW n \in 1..N, n - 1 \in P PROVE n \in P
  <2>1. /\ used(n - 1) \in Seq(Descriptor) /\ record[n] \in Descriptor
        /\ n \in 0..N /\ n - 1 \in 0..N /\ f[n - 1] \in Seq(Extent)
    OBVIOUS
  <2>2. used(n) = Append(used(n - 1), record[n])
    BY OneMore
  <2>3. Good(n - 1)
    BY <1>6
  <2>4. f[n] = Add(f[n - 1], record[n])
    BY <1>2 DEF Adds
  <2> HIDE DEF used, N
  <2>5. /\ Total(used(n - 1)) \in Nat
        /\ Total(used(n)) = Total(used(n - 1)) + record[n].blockCount
    BY <1>4, <2>1, <2>2, TotalAppend
  <2>6. /\ InUse(used(n - 1)) \in Seq(Descriptor)
        /\ record[n].blockCount > 0 => InUse(used(n)) = Append(InUse(used(n - 1)), record[n])
        /\ ~(record[n].blockCount > 0) => InUse(used(n)) = InUse(used(n - 1))
    <3> DEFINE T == [startBlock : Nat, blockCount : Nat \ {0}]
    <3>1. record[n].blockCount > 0 <=> record[n] \in T
      BY <2>1 DEF Descriptor
    <3> HIDE DEF T
    <3>2. /\ Within(used(n - 1), T) \in Seq(Descriptor)
          /\ record[n] \in T => Within(used(n), T) = Append(Within(used(n - 1), T), record[n])
          /\ record[n] \notin T => Within(used(n), T) = Within(used(n - 1), T)
      BY <2>1, <2>2, WithinAppend
    <3>3. \A s : InUse(s) = Within(s, T)
      BY DEF InUse, T
    <3> QED
      BY <3>1, <3>2, <3>3
  <2>7. /\ Total(f[n]) = Total(f[n - 1]) + record[n].blockCount
        /\ Numbered(f[n - 1]) => Numbered(f[n])
        /\ record[n].blockCount > 0 => Disk(f[n]) = Append(Disk(f[n - 1]), record[n])
        /\ ~(record[n].blockCount > 0) => Disk(f[n]) = Disk(f[n - 1])
    <3> DEFINE before == f[n - 1]
               d == record[n]
    <3>1. before \in Seq(Extent) /\ d \in Descriptor
      BY <2>1
    <3> HIDE DEF before, d
    <3>2. /\ Total(Add(before, d)) = Total(before) + d.blockCount
          /\ Numbered(before) => Numbered(Add(before, d))
          /\ d.blockCount > 0 => Disk(Add(before, d)) = Append(Disk(before), d)
          /\ ~(d.blockCount > 0) => Disk(Add(before, d)) = Disk(before)
      BY <3>1, AddIs
    <3> QED
      BY <2>4, <3>2 DEF before, d
  <2>8. Total(f[n]) = Total(list) + Total(used(n))
    <3>1. record[n].blockCount \in Nat
      BY <1>4, <2>1
    <3>2. Total(f[n - 1]) = Total(list) + Total(used(n - 1))
      BY <2>3
    <3>3. Total(f[n]) = Total(f[n - 1]) + record[n].blockCount
      BY <2>7
    <3> QED
      BY <1>3, <2>5, <3>1, <3>2, <3>3
  <2>9. Disk(f[n]) = Disk(list) \o InUse(used(n))
    <3>1. CASE record[n].blockCount > 0
      <4>1. /\ Disk(list) \in Seq(Descriptor) /\ InUse(used(n - 1)) \in Seq(Descriptor)
            /\ record[n] \in Descriptor
        BY <1>3, <2>1, <2>6
      <4>2. Disk(list) \o Append(InUse(used(n - 1)), record[n])
              = Append(Disk(list) \o InUse(used(n - 1)), record[n])
        BY <4>1, AppendConcat
      <4> QED
        BY <2>3, <2>6, <2>7, <3>1, <4>2
    <3>2. CASE ~(record[n].blockCount > 0)
      BY <2>3, <2>6, <2>7, <3>2
    <3> QED
      BY <3>1, <3>2
  <2> QED
    BY <2>1, <2>3, <2>7, <2>8, <2>9
<1> HIDE DEF P
<1>7. N \in P
  <2>1. N \in 0..N
    BY <1>3
  <2> HIDE DEF N
  <2> QED
    BY <1>3, <1>5, <1>6, <2>1, Climb
<1>8. used(N) = record /\ f[N] \in Seq(Extent)
  <2>1. SubSeq(record, 1, Len(record)) = record
    BY SubSeqFull
  <2>2. N \in 0..N
    BY <1>3
  <2> QED
    BY <2>1, <2>2
<1> QED
  BY <1>2, <1>7, <1>8 DEF P

-----------------------------------------------------------------------------
(***************************************************************************)
(* The records of a fork                                                   *)
(***************************************************************************)

OverflowRecord == [cnid : Nat, startBlock : Nat, extents : ExtentRecord]

LEMMA RecordIsSeq == ExtentRecord \subseteq Seq(Descriptor)
BY DensityAssumption DEF ExtentRecord

\* The volume is one of those that there are.
LEMMA OnDisk ==
  ASSUME vol \in Volumes
  PROVE  vol.extentsFile \in AnyFork /\ vol.records \in Seq(OverflowRecord)
BY VolumesAssumption DEF OverflowRecord

LEMMA RecordsAre ==
  ASSUME vol \in Volumes, NEW f \in AnyFork
  PROVE  /\ RecordsOf(f) \in Seq(OverflowRecord) /\ Len(RecordsOf(f)) \in Nat
         /\ \A i \in 1..Len(RecordsOf(f)) :
              /\ RecordsOf(f)[i].cnid = f.cnid
              /\ RecordsOf(f)[i].startBlock \in Nat
              /\ RecordsOf(f)[i].extents \in ExtentRecord
              /\ \E m \in 1..Len(vol.records) : vol.records[m] = RecordsOf(f)[i]
<1> DEFINE T == [cnid : {f.cnid}, startBlock : Nat, extents : ExtentRecord]
           rs == Within(vol.records, T)
<1>1. vol.records \in Seq(OverflowRecord)
  BY OnDisk
<1> HIDE DEF T
<1>2. /\ rs \in Seq(OverflowRecord)
      /\ \A i \in 1..Len(rs) : rs[i] \in T /\ \E m \in 1..Len(vol.records) : vol.records[m] = rs[i]
  BY <1>1, WithinElement
<1>3. \A x \in T : x.cnid = f.cnid /\ x.startBlock \in Nat /\ x.extents \in ExtentRecord
  BY DEF T
<1>4. RecordsOf(f) = rs
  BY DEF RecordsOf, T
<1> HIDE DEF rs
<1>5. Len(rs) \in Nat
  BY <1>2
<1> QED
  BY <1>2, <1>3, <1>4, <1>5

LEMMA JoinedIs ==
  ASSUME vol \in Volumes, NEW f \in AnyFork
  PROVE  /\ Joined(f)[0] = f.extents
         /\ \A n \in 0..Len(RecordsOf(f)) : Joined(f)[n] \in Seq(Descriptor)
         /\ \A n \in 1..Len(RecordsOf(f)) :
              Joined(f)[n] = Joined(f)[n - 1] \o RecordsOf(f)[n].extents
<1> DEFINE rs == RecordsOf(f)
           N == Len(RecordsOf(f))
           value(h, n) == IF n = 0 THEN f.extents ELSE h[n - 1] \o rs[n].extents
           chosen == CHOOSE h : h = [n \in 0..N |-> value(h, n)]
           g == [n \in 1..N |-> [x \in Seq(Descriptor) |-> x \o rs[n].extents]]
<1>1. /\ N \in Nat /\ f.extents \in Seq(Descriptor)
      /\ \A n \in 1..N : rs[n].extents \in Seq(Descriptor)
  BY RecordsAre, RecordIsSeq DEF AnyFork
<1>0. Joined(f) = chosen
  BY Zenon DEF Joined
<1> HIDE DEF rs, N
<1>2. g \in [1..N -> [Seq(Descriptor) -> Seq(Descriptor)]]
  BY <1>1
<1>3. PICK h \in [0..N -> Seq(Descriptor)] : Computes(h, f.extents, g, N)
  <2> HIDE DEF g
  <2> QED
    BY <1>1, <1>2, Recursion
<1>4. \A n \in 0..N : h[n] = value(h, n)
  <2> SUFFICES ASSUME NEW n \in 0..N PROVE h[n] = value(h, n)
    OBVIOUS
  <2>1. CASE n = 0
    BY <1>3, <2>1 DEF Computes
  <2>2. CASE n # 0
    <3>1. n \in 1..N /\ n - 1 \in 0..N
      BY <1>1, <2>2
    <3>2. h[n - 1] \in Seq(Descriptor)
      BY <3>1
    <3> QED
      BY <1>3, <2>2, <3>1, <3>2 DEF Computes
  <2> QED
    BY <2>1, <2>2
<1>5. chosen = [n \in 0..N |-> value(chosen, n)]
  <2> HIDE DEF value
  <2>1. h = [n \in 0..N |-> value(h, n)]
    BY <1>4
  <2> QED
    BY <2>1, Zenon
<1> HIDE DEF chosen
<1>6. \A n \in 0..N : chosen[n] = h[n]
  <2>1. \A n \in 0..N : chosen[n] = value(chosen, n)
    <3> HIDE DEF value
    <3> QED
      BY <1>5
  <2>2. chosen[0] = h[0]
    <3>1. 0 \in 0..N
      BY <1>1
    <3>2. chosen[0] = value(chosen, 0) /\ h[0] = value(h, 0)
      BY <1>4, <2>1, <3>1
    <3> QED
      BY <3>2
  <2>3. ASSUME NEW n \in 1..N, chosen[n - 1] = h[n - 1] PROVE chosen[n] = h[n]
    <3>1. n \in 0..N /\ n # 0
      BY <1>1
    <3> QED
      BY <1>4, <2>1, <2>3, <3>1
  <2> HIDE DEF value
  <2>4. InStep(chosen, h, N)
    BY <2>2, <2>3 DEF InStep
  <2> QED
    BY <1>1, <2>4, Alike
<1>7. \A n \in 0..N : chosen[n] \in Seq(Descriptor) /\ chosen[n] = value(h, n)
  BY <1>4, <1>6
<1>8. ASSUME NEW n \in 1..N PROVE chosen[n] = chosen[n - 1] \o rs[n].extents
  <2>1. n \in 0..N /\ n # 0 /\ n - 1 \in 0..N
    BY <1>1
  <2> QED
    BY <1>6, <1>7, <2>1
<1>9. chosen[0] = f.extents
  BY <1>1, <1>7
<1> QED
  BY <1>0, <1>7, <1>8, <1>9 DEF rs, N

-----------------------------------------------------------------------------
(***************************************************************************)
(* Lookups                                                                 *)
(***************************************************************************)

LEMMA MaxIs ==
  ASSUME NEW N \in Nat, NEW T, T \subseteq 1..N, T # {}
  PROVE  Max(T) \in T
<1> DEFINE U == {n \in Nat : N - n \in T}
<1>1. U # {}
  <2>1. PICK x \in T : TRUE
    OBVIOUS
  <2>2. N - x \in U
    BY <2>1
  <2> QED
    BY <2>2
<1>2. U \subseteq Nat
  OBVIOUS
<1>3. PICK n \in U : \A m \in U : n <= m
  <2> HIDE DEF U
  <2> QED
    BY <1>1, <1>2, LeastNat
<1>4. N - n \in T /\ n \in Nat
  BY <1>3
<1>5. ASSUME NEW y \in T PROVE N - n >= y
  <2>1. N - y \in U
    OBVIOUS
  <2> QED
    BY <1>3, <1>4, <2>1
<1> QED
  BY <1>4, <1>5 DEF Max

\* A record that is found has the key that was asked for.
LEMMA RecordIsFound ==
  ASSUME vol \in Volumes, NEW f \in AnyFork, NEW b \in Nat, Lookup(f, b).found
  PROVE  Lookup(f, b).extents \in ExtentRecord
<1> DEFINE k == <<f.cnid, b>>
           T == {1} \cup {i \in DOMAIN vol.records : ~Less(k, Key(i))}
<1>1. vol.records \in Seq(OverflowRecord)
  BY OnDisk
<1>2. vol.records # <<>>
  BY DEF Lookup, NotFound
<1>3. Len(vol.records) \in Nat /\ 1 \in 1..Len(vol.records) /\ DOMAIN vol.records = 1..Len(vol.records)
  BY <1>1, <1>2
<1>4. T \subseteq 1..Len(vol.records) /\ T # {}
  BY <1>3
<1> HIDE DEF T
<1>5. Max(T) \in 1..Len(vol.records)
  BY <1>3, <1>4, MaxIs
<1>6. Arrival(k) \in 1..Len(vol.records)
  BY <1>5 DEF Arrival, T
<1> HIDE DEF k
<1>7. vol.records[Arrival(k)] \in OverflowRecord
  BY <1>1, <1>6
<1>8. Lookup(f, b).extents = vol.records[Arrival(k)].extents
  BY DEF Lookup, NotFound, k
<1> QED
  BY <1>7, <1>8 DEF OverflowRecord

-----------------------------------------------------------------------------
(***************************************************************************)
(* The lists are numbered, and the count of blocks is that of the list     *)
(***************************************************************************)

FrameType == [fork : AnyFork, list : Seq(Extent), blocks : Nat]

\* A frame whose list is numbered and has the blocks counted.
Kept(frame) == Numbered(frame.list) /\ frame.blocks = Total(frame.list)

\* Two calls at most are in progress: while the fork of the extents file is made
\* the tree is there, but with nothing in it.
Calls ==
  /\ treeReadable \in BOOLEAN /\ vol \in Volumes
  /\ cachedTree \in {"absent", "blank", "ready"}
  /\ stack \in Seq(FrameType) /\ Len(stack) <= 2
  /\ Len(stack) = 2 => cachedTree = "blank"
  /\ treeReadable /\ cachedTree = "blank" => Len(stack) = 2
  /\ opened \in Seq([fork : AnyFork, list : Seq(Extent)])

ListsAreKept ==
  /\ \A i \in 1..Len(stack) : Kept(stack[i])
  /\ \A i \in 1..Len(opened) : Numbered(opened[i].list)

LEMMA StackIs ==
  ASSUME stack \in Seq(FrameType), stack # <<>>
  PROVE  /\ Len(stack) \in Nat /\ Len(stack) >= 1
         /\ Top = stack[Len(stack)] /\ Top \in FrameType
         /\ Below \in Seq(FrameType) /\ Len(Below) = Len(stack) - 1
         /\ \A i \in 1..(Len(stack) - 1) : Below[i] = stack[i]
<1>1. Len(stack) \in Nat /\ Len(stack) >= 1
  OBVIOUS
<1>2. Top = stack[Len(stack)] /\ Top \in FrameType
  BY <1>1 DEF Top, Last
<1>3. Below = SubSeq(stack, 1, Len(stack) - 1)
  BY DEF Below, Front
<1>4. /\ Below \in Seq(FrameType) /\ Len(Below) = Len(stack) - 1
      /\ \A i \in 1..(Len(stack) - 1) : Below[i] = stack[i]
  <2> DEFINE n == Len(stack) - 1
  <2>1. n \in Nat /\ \A i \in 1..n : stack[i] \in FrameType
    BY <1>1
  <2> HIDE DEF n
  <2>2. /\ SubSeq(stack, 1, n) \in Seq(FrameType)
        /\ Len(SubSeq(stack, 1, n)) = IF 1 <= n THEN n - 1 + 1 ELSE 0
        /\ \A i \in 1..(n - 1 + 1) : SubSeq(stack, 1, n)[i] = stack[1 + i - 1]
    BY <2>1, SubSeqProperties
  <2>3. Len(SubSeq(stack, 1, n)) = n /\ \A i \in 1..n : SubSeq(stack, 1, n)[i] = stack[i]
    BY <2>1, <2>2
  <2> QED
    BY <1>3, <2>2, <2>3 DEF n
<1> QED
  BY <1>1, <1>2, <1>4

LEMMA FrameIs ==
  ASSUME NEW f \in AnyFork
  PROVE  /\ Frame(f) \in FrameType /\ Kept(Frame(f))
         /\ Frame(f).fork = f /\ Frame(f).blocks = Total(f.extents)
         /\ Disk(Frame(f).list) = InUse(f.extents)
<1>1. f.extents \in Seq(Descriptor)
  BY RecordIsSeq DEF AnyFork
<1>2. \A x \in Descriptor : x.blockCount \in Nat
  BY DEF Descriptor
<1>3. Total(f.extents) \in Nat /\ InUse(f.extents) \in Seq(Descriptor)
  BY <1>1, <1>2, TotalNat, WithinSeq DEF InUse
<1>4. <<>> \in Seq(Extent) /\ Numbered(<<>>) /\ Disk(<<>>) = <<>>
  BY DEF Numbered, Disk
<1>5. /\ AddRecord(<<>>, f.extents) \in Seq(Extent)
      /\ Total(AddRecord(<<>>, f.extents)) = 0 + Total(f.extents)
      /\ Numbered(AddRecord(<<>>, f.extents))
      /\ Disk(AddRecord(<<>>, f.extents)) = <<>> \o InUse(f.extents)
  BY <1>1, <1>4, AddRecordKeeps, TotalEmpty
<1>6. <<>> \o InUse(f.extents) = InUse(f.extents)
  BY <1>3
<1> QED
  BY <1>3, <1>5, <1>6 DEF Frame, FrameType, Kept

LEMMA WithIs ==
  ASSUME NEW frame \in FrameType, Kept(frame), NEW extents \in ExtentRecord
  PROVE  /\ With(frame, extents) \in FrameType /\ Kept(With(frame, extents))
         /\ With(frame, extents).fork = frame.fork
         /\ With(frame, extents).blocks = frame.blocks + Total(extents)
         /\ Disk(With(frame, extents).list) = Disk(frame.list) \o InUse(extents)
<1>1. extents \in Seq(Descriptor) /\ frame.list \in Seq(Extent) /\ frame.blocks \in Nat
  BY RecordIsSeq DEF FrameType
<1>2. \A x \in Descriptor : x.blockCount \in Nat
  BY DEF Descriptor
<1>3. Total(extents) \in Nat
  BY <1>1, <1>2, TotalNat
<1>4. /\ AddRecord(frame.list, extents) \in Seq(Extent)
      /\ Total(AddRecord(frame.list, extents)) = Total(frame.list) + Total(extents)
      /\ Numbered(AddRecord(frame.list, extents))
      /\ Disk(AddRecord(frame.list, extents)) = Disk(frame.list) \o InUse(extents)
  BY <1>1, AddRecordKeeps DEF Kept
<1>5. /\ With(frame, extents).fork = frame.fork
      /\ With(frame, extents).list = AddRecord(frame.list, extents)
      /\ With(frame, extents).blocks = frame.blocks + Total(extents)
  BY DEF With, FrameType
<1>6. With(frame, extents) \in FrameType
  <2>1. frame.fork \in AnyFork /\ frame.blocks + Total(extents) \in Nat
    BY <1>1, <1>3 DEF FrameType
  <2> QED
    BY <1>4, <2>1 DEF With, FrameType
<1> QED
  BY <1>4, <1>5, <1>6 DEF Kept

LEMMA InitLists == ListsInit => Calls /\ ListsAreKept
BY DEF ListsInit, Calls, ListsAreKept

\* A call that returns takes its frame with it.
LEMMA FinishLists ==
  ASSUME Calls, ListsAreKept, stack # <<>>, cachedTree # "absent" \/ Len(stack) = 1, Finish
  PROVE  Calls' /\ ListsAreKept'
<1>1. stack \in Seq(FrameType) /\ opened \in Seq([fork : AnyFork, list : Seq(Extent)])
  BY DEF Calls
<1>2. /\ Len(stack) \in Nat /\ Len(stack) >= 1 /\ Len(stack) <= 2
      /\ Top = stack[Len(stack)] /\ Top \in FrameType
      /\ Below \in Seq(FrameType) /\ Len(Below) = Len(stack) - 1
      /\ \A i \in 1..(Len(stack) - 1) : Below[i] = stack[i]
  BY <1>1, StackIs DEF Calls
<1>3. stack' = Below /\ treeReadable' = treeReadable /\ vol' = vol
  BY DEF Finish
<1>4. \A i \in 1..Len(stack') : Kept(stack'[i])
  BY <1>2, <1>3 DEF ListsAreKept
<1>5. CASE Len(stack) = 1
  <2> DEFINE new == [fork |-> Top.fork, list |-> Top.list]
  <2>1. opened' = Append(opened, new) /\ cachedTree' = cachedTree /\ Len(stack') = 0
    BY <1>2, <1>3, <1>5 DEF Finish
  <2>2. new \in [fork : AnyFork, list : Seq(Extent)] /\ Numbered(new.list)
    BY <1>2 DEF FrameType, ListsAreKept, Kept
  <2> HIDE DEF new
  <2>3. opened' \in Seq([fork : AnyFork, list : Seq(Extent)])
    BY <1>1, <2>1, <2>2
  <2>4. \A i \in 1..Len(opened') : Numbered(opened'[i].list)
    <3> TAKE i \in 1..Len(opened')
    <3>1. CASE i = Len(opened) + 1
      BY <1>1, <2>1, <2>2, <3>1
    <3>2. CASE i # Len(opened) + 1
      <4>1. i \in 1..Len(opened) /\ opened'[i] = opened[i]
        BY <1>1, <2>1, <2>2, <3>2
      <4> QED
        BY <4>1 DEF ListsAreKept
    <3> QED
      BY <3>1, <3>2
  <2>5. ~(treeReadable /\ cachedTree = "blank")
    BY <1>5 DEF Calls
  <2>6. Calls'
    BY <1>2, <1>3, <2>1, <2>3, <2>5 DEF Calls
  <2> QED
    BY <1>4, <2>4, <2>6 DEF ListsAreKept
<1>6. CASE Len(stack) # 1
  <2>1. opened' = opened /\ cachedTree' \in {"ready"} \cup (IF treeReadable THEN {} ELSE {"blank"})
    BY <1>6 DEF Finish
  <2>2. Len(stack') = 1
    <3>1. Len(stack) = 2
      BY <1>2, <1>6
    <3> QED
      BY <1>2, <1>3, <3>1
  <2>3. cachedTree' \in {"ready", "blank"} /\ (treeReadable => cachedTree' = "ready")
    BY <2>1
  <2>4. stack' \in Seq(FrameType) /\ Len(stack') <= 2 /\ Len(stack') # 2
    BY <1>2, <1>3, <2>2
  <2>5. Calls'
    BY <1>1, <1>3, <2>1, <2>3, <2>4 DEF Calls
  <2> QED
    BY <1>4, <2>1, <2>5 DEF ListsAreKept
<1> QED
  BY <1>5, <1>6

LEMMA MakeLists ==
  ASSUME Calls, ListsAreKept, Make
  PROVE  Calls' /\ ListsAreKept'
<1>1. PICK f \in UserForks : stack' = <<Frame(f)>>
  BY DEF Make
<1>2. f \in AnyFork
  BY <1>1, VolumesAssumption
<1>3. Frame(f) \in FrameType /\ Kept(Frame(f))
  BY <1>2, FrameIs
<1>4. stack' \in Seq(FrameType) /\ Len(stack') = 1 /\ \A i \in 1..Len(stack') : Kept(stack'[i])
  BY <1>1, <1>3
<1>5. /\ UNCHANGED <<treeReadable, vol, cachedTree, opened>> /\ Len(stack) = 0
  BY DEF Make
<1>6. Calls'
  BY <1>4, <1>5 DEF Calls
<1> QED
  BY <1>4, <1>5, <1>6 DEF ListsAreKept

LEMMA OpenTreeLists ==
  ASSUME Calls, ListsAreKept, OpenTree
  PROVE  Calls' /\ ListsAreKept'
<1> DEFINE new == Frame(vol.extentsFile)
<1>1. new \in FrameType /\ Kept(new)
  <2>1. vol.extentsFile \in AnyFork
    BY OnDisk DEF Calls
  <2> QED
    BY <2>1, FrameIs
<1>2. /\ stack \in Seq(FrameType) /\ stack # <<>> /\ Len(stack) <= 2
      /\ cachedTree = "absent"
  BY DEF Calls, OpenTree, Lacking, Running
<1>3. Len(stack) = 1
  <2>1. Len(stack) \in Nat /\ Len(stack) >= 1
    BY <1>2, StackIs
  <2>2. Len(stack) # 2
    BY <1>2 DEF Calls
  <2>3. \A n \in Nat : n >= 1 /\ n <= 2 => n = 1 \/ n = 2
    OBVIOUS
  <2> QED
    BY <1>2, <2>1, <2>2, <2>3, Zenon
<1>4. stack' = Append(stack, new) /\ cachedTree' = "blank"
      /\ UNCHANGED <<treeReadable, vol, opened>>
  BY DEF OpenTree
<1> HIDE DEF new
<1>5. /\ stack' \in Seq(FrameType) /\ Len(stack') = 2 /\ stack'[2] = new /\ stack'[1] = stack[1]
  <2>1. stack \in Seq(FrameType) /\ new \in FrameType
    BY <1>1, <1>2
  <2>2. /\ Append(stack, new) \in Seq(FrameType) /\ Len(Append(stack, new)) = Len(stack) + 1
        /\ \A i \in 1..Len(stack) : Append(stack, new)[i] = stack[i]
        /\ Append(stack, new)[Len(stack) + 1] = new
    BY <2>1, AppendProperties
  <2> QED
    BY <1>3, <1>4, <2>2
<1>6. \A i \in 1..Len(stack') : Kept(stack'[i])
  <2> TAKE i \in 1..Len(stack')
  <2>1. i = 1 \/ i = 2
    BY <1>5
  <2>2. Kept(stack[1])
    BY <1>3 DEF ListsAreKept
  <2> QED
    BY <1>1, <1>5, <2>1, <2>2
<1>7. Calls'
  BY <1>4, <1>5 DEF Calls
<1> QED
  BY <1>4, <1>6, <1>7 DEF ListsAreKept

\* What More does, with the record that was found.
LEMMA MoreIs ==
  ASSUME Calls, More
  PROVE  LET got == Lookup(Top.fork, Top.blocks)
             frame == With(Top, got.extents)
         IN /\ stack # <<>> /\ Len(stack) = 1 /\ Top.blocks < Top.fork.totalBlocks
            /\ got.found /\ got.extents \in ExtentRecord
            /\ UNCHANGED <<treeReadable, vol, cachedTree>>
            /\ \/ /\ Last(got.extents).blockCount = 0
                  /\ opened' = Append(opened, [fork |-> frame.fork, list |-> frame.list])
                  /\ stack' = Below
               \/ /\ ~(Last(got.extents).blockCount = 0)
                  /\ stack' = Append(Below, frame) /\ opened' = opened
<1> DEFINE got == Lookup(Top.fork, Top.blocks)
<1>1. stack # <<>> /\ cachedTree = "ready" /\ Top.blocks < Top.fork.totalBlocks /\ got.found
      /\ UNCHANGED <<treeReadable, vol, cachedTree>>
  BY DEF More, Lacking, Running
<1>2. stack \in Seq(FrameType) /\ Len(stack) <= 2 /\ Len(stack) # 2
  BY <1>1 DEF Calls
<1>3. Len(stack) = 1 /\ Top \in FrameType
  BY <1>1, <1>2, StackIs
<1>4. got.extents \in ExtentRecord
  <2>1. Top.fork \in AnyFork /\ Top.blocks \in Nat /\ vol \in Volumes
    BY <1>3 DEF FrameType, Calls
  <2> QED
    BY <1>1, <2>1, RecordIsFound
<1>5. \/ /\ Last(got.extents).blockCount = 0
         /\ opened' = Append(opened, [ fork |-> With(Top, got.extents).fork,
                                       list |-> With(Top, got.extents).list ])
         /\ stack' = Below
      \/ /\ ~(Last(got.extents).blockCount = 0)
         /\ stack' = Append(Below, With(Top, got.extents)) /\ opened' = opened
  <2> HIDE DEF got
  <2>1. Last(Lookup(Top.fork, Top.blocks).extents).blockCount = 0 \/ ~(Last(Lookup(Top.fork, Top.blocks).extents).blockCount = 0)
    OBVIOUS
  <2> QED
    BY <2>1 DEF More, With, got
<1> QED
  BY <1>1, <1>3, <1>4, <1>5

LEMMA MoreLists ==
  ASSUME Calls, ListsAreKept, More
  PROVE  Calls' /\ ListsAreKept'
<1> DEFINE got == Lookup(Top.fork, Top.blocks)
           frame == With(Top, got.extents)
           new == [fork |-> frame.fork, list |-> frame.list]
<1>1. /\ stack # <<>> /\ Len(stack) = 1 /\ got.extents \in ExtentRecord
      /\ UNCHANGED <<treeReadable, vol, cachedTree>>
      /\ \/ opened' = Append(opened, new) /\ stack' = Below
         \/ stack' = Append(Below, frame) /\ opened' = opened
  BY MoreIs
<1> HIDE DEF got
<1>2. stack \in Seq(FrameType) /\ opened \in Seq([fork : AnyFork, list : Seq(Extent)])
  BY DEF Calls
<1>3. /\ Top = stack[1] /\ Top \in FrameType
      /\ Below \in Seq(FrameType) /\ Len(Below) = 0
  BY <1>1, <1>2, StackIs
<1>4. Kept(Top)
  BY <1>1, <1>3 DEF ListsAreKept
<1>5. frame \in FrameType /\ Kept(frame)
  BY <1>1, <1>3, <1>4, WithIs
<1> HIDE DEF frame
<1>6. new \in [fork : AnyFork, list : Seq(Extent)] /\ Numbered(new.list)
  BY <1>5 DEF FrameType, Kept
<1> HIDE DEF new
<1>7. CASE opened' = Append(opened, new) /\ stack' = Below
  <2>1. opened' \in Seq([fork : AnyFork, list : Seq(Extent)])
    BY <1>2, <1>6, <1>7
  <2>2. \A i \in 1..Len(opened') : Numbered(opened'[i].list)
    <3> TAKE i \in 1..Len(opened')
    <3>1. CASE i = Len(opened) + 1
      BY <1>2, <1>6, <1>7, <3>1
    <3>2. CASE i # Len(opened) + 1
      <4>1. i \in 1..Len(opened) /\ opened'[i] = opened[i]
        BY <1>2, <1>6, <1>7, <3>2
      <4> QED
        BY <4>1 DEF ListsAreKept
    <3> QED
      BY <3>1, <3>2
  <2>3. stack' \in Seq(FrameType) /\ Len(stack') = 0
    BY <1>3, <1>7
  <2>4. Calls'
    BY <1>1, <2>1, <2>3 DEF Calls
  <2> QED
    BY <2>2, <2>3, <2>4 DEF ListsAreKept
<1>8. CASE stack' = Append(Below, frame) /\ opened' = opened
  <2>1. stack' \in Seq(FrameType) /\ Len(stack') = 1 /\ stack'[1] = frame
    <3>1. /\ Append(Below, frame) \in Seq(FrameType)
          /\ Len(Append(Below, frame)) = Len(Below) + 1
          /\ Append(Below, frame)[Len(Below) + 1] = frame
      BY <1>3, <1>5, AppendProperties
    <3> QED
      BY <1>3, <1>8, <3>1
  <2>2. \A i \in 1..Len(stack') : Kept(stack'[i])
    <3> TAKE i \in 1..Len(stack')
    <3>1. i = 1
      BY <2>1
    <3> QED
      BY <1>5, <2>1, <3>1
  <2>3. Calls'
    BY <1>1, <1>8, <2>1 DEF Calls
  <2> QED
    BY <1>8, <2>2, <2>3 DEF ListsAreKept
<1> QED
  BY <1>1, <1>7, <1>8

LEMMA NextLists == Calls /\ ListsAreKept /\ [ListsNext]_listsVars => Calls' /\ ListsAreKept'
<1> SUFFICES ASSUME Calls, ListsAreKept, [ListsNext]_listsVars PROVE Calls' /\ ListsAreKept'
  OBVIOUS
<1>1. CASE Make
  BY <1>1, MakeLists
<1>2. CASE Covered
  <2>1. stack # <<>> /\ Finish
    BY <1>2 DEF Covered, Running
  <2>2. cachedTree # "absent" \/ Len(stack) = 1
    <3>1. stack \in Seq(FrameType) /\ Len(stack) <= 2 /\ (Len(stack) = 2 => cachedTree = "blank")
      BY DEF Calls
    <3>2. Len(stack) \in Nat /\ Len(stack) >= 1
      BY <2>1, <3>1, StackIs
    <3>3. \A n \in Nat : n >= 1 /\ n <= 2 => n = 1 \/ n = 2
      OBVIOUS
    <3>4. Len(stack) = 1 \/ Len(stack) = 2
      BY <3>1, <3>2, <3>3, Zenon
    <3> QED
      BY <3>1, <3>4
  <2> QED
    BY <2>1, <2>2, FinishLists
<1>3. CASE OpenTree
  BY <1>3, OpenTreeLists
<1>4. CASE NoTree
  <2>1. stack # <<>> /\ Finish /\ cachedTree # "absent"
    BY <1>4 DEF NoTree, Lacking, Running
  <2> QED
    BY <2>1, FinishLists
<1>5. CASE NoRecord
  <2>1. stack # <<>> /\ Finish /\ cachedTree # "absent"
    BY <1>5 DEF NoRecord, Lacking, Running
  <2> QED
    BY <2>1, FinishLists
<1>6. CASE More
  BY <1>6, MoreLists
<1>7. CASE Abort \/ Crash \/ UNCHANGED listsVars
  <2>1. UNCHANGED <<treeReadable, vol, cachedTree, stack, opened>>
    BY <1>7 DEF Abort, Crash, listsVars
  <2> QED
    BY <2>1 DEF Calls, ListsAreKept
<1> QED
  BY <1>1, <1>2, <1>3, <1>4, <1>5, <1>6, <1>7 DEF ListsNext

\* Every list is numbered, at any time, and counted as it is.
THEOREM ListsAreKeptHolds == ListsSpec => [](Calls /\ ListsAreKept)
BY InitLists, NextLists, PTL DEF ListsSpec

\* On every volume, sound or not, and whichever forks are opened: in every list, of
\* an open fork or of one that is being opened, each extent begins where the one
\* before it ends.
THEOREM ContiguousHolds == ListsSpec => []Contiguous
<1>1. Calls /\ ListsAreKept => Contiguous
  <2> SUFFICES ASSUME Calls, ListsAreKept, NEW list \in Lists PROVE Numbered(list)
    BY DEF Contiguous
  <2>1. DOMAIN stack = 1..Len(stack) /\ DOMAIN opened = 1..Len(opened)
    BY DEF Calls
  <2> QED
    BY <2>1 DEF Lists, ListsAreKept, Kept
<1> QED
  BY <1>1, ListsAreKeptHolds, PTL

\* The count of blocks that decides whether the tree is asked for more is that of
\* the list.
THEOREM BlocksAreListedHolds == ListsSpec => []BlocksAreListed
<1>1. Calls /\ ListsAreKept => BlocksAreListed
  <2> SUFFICES ASSUME Calls, ListsAreKept PROVE BlocksAreListed
    OBVIOUS
  <2>1. DOMAIN stack = 1..Len(stack)
    BY DEF Calls
  <2> QED
    BY <2>1 DEF BlocksAreListed, ListsAreKept, Kept
<1> QED
  BY <1>1, ListsAreKeptHolds, PTL

-----------------------------------------------------------------------------
(***************************************************************************)
(* Numbered lists are in order                                             *)
(***************************************************************************)

\* The blocks in front of a place are those up to any earlier one and more.
LEMMA FrontsGrow ==
  ASSUME NEW list \in Seq(Extent), NEW n \in 0..Len(list), NEW m \in 0..n
  PROVE  /\ Total(SubSeq(list, 1, m)) \in Nat /\ Total(SubSeq(list, 1, n)) \in Nat
         /\ Total(SubSeq(list, 1, m)) <= Total(SubSeq(list, 1, n))
<1> DEFINE front(k) == Total(SubSeq(list, 1, k))
           P == {k \in 0..Len(list) : front(k) \in Nat /\ \A l \in 0..k : front(l) <= front(k)}
<1>1. Len(list) \in Nat /\ \A x \in Extent : x.blockCount \in Nat
  BY DEF Extent
<1>2. \A k \in 0..Len(list) : front(k) \in Nat
  <2> SUFFICES ASSUME NEW k \in 0..Len(list) PROVE front(k) \in Nat
    OBVIOUS
  <2>1. SubSeq(list, 1, k) \in Seq(Extent)
    OBVIOUS
  <2> QED
    BY <1>1, <2>1, TotalNat
<1>3. 0 \in P
  <2>1. 0 \in 0..Len(list) /\ \A l \in 0..0 : l = 0
    BY <1>1
  <2> HIDE DEF front
  <2>2. front(0) <= front(0)
    BY <1>2, <2>1
  <2> QED
    BY <1>2, <2>1, <2>2
<1>4. ASSUME NEW k \in 1..Len(list), k - 1 \in P PROVE k \in P
  <2>1. SubSeq(list, 1, k - 1) \in Seq(Extent) /\ list[k] \in Extent /\ list[k].blockCount \in Nat
    BY <1>1
  <2>2. SubSeq(list, 1, k) = Append(SubSeq(list, 1, k - 1), list[k])
    BY OneMore
  <2>3. front(k) = front(k - 1) + list[k].blockCount
    BY <1>1, <2>1, <2>2, TotalAppend
  <2>4. front(k - 1) \in Nat /\ \A l \in 0..(k - 1) : front(l) <= front(k - 1)
    BY <1>4
  <2> HIDE DEF front
  <2>5. k \in 0..Len(list) /\ front(k) \in Nat
    BY <1>2
  <2>6. ASSUME NEW l \in 0..k PROVE front(l) <= front(k)
    <3>1. CASE l = k
      BY <2>5, <3>1
    <3>2. CASE l # k
      <4>1. l \in 0..(k - 1) /\ l \in 0..Len(list)
        BY <1>1, <3>2
      <4>2. front(l) \in Nat /\ front(l) <= front(k - 1)
        BY <1>2, <2>4, <4>1
      <4> QED
        BY <2>1, <2>3, <2>4, <4>2
    <3> QED
      BY <3>1, <3>2
  <2> QED
    BY <2>5, <2>6
<1> HIDE DEF P
<1>5. n \in P
  BY <1>1, <1>3, <1>4, Climb
<1>6. m \in 0..Len(list)
  OBVIOUS
<1> QED
  BY <1>2, <1>5, <1>6 DEF P

LEMMA NumberedIsOrdered ==
  ASSUME NEW list \in Seq(Extent), Numbered(list), NEW i \in 1..Len(list)
  PROVE  /\ list[i].logicalStart + list[i].blockCount <= Total(list)
         /\ \A j \in 1..Len(list) :
              i < j => list[i].logicalStart + list[i].blockCount <= list[j].logicalStart
<1> DEFINE front(k) == Total(SubSeq(list, 1, k))
<1>1. Len(list) \in Nat /\ (\A x \in Extent : x.blockCount \in Nat) /\ DOMAIN list = 1..Len(list)
  BY DEF Extent
<1>2. \A k \in 1..Len(list) : list[k].logicalStart = front(k - 1)
  BY <1>1 DEF Numbered
<1>3. front(i) = front(i - 1) + list[i].blockCount
  <2>1. SubSeq(list, 1, i - 1) \in Seq(Extent) /\ list[i] \in Extent
    OBVIOUS
  <2>2. SubSeq(list, 1, i) = Append(SubSeq(list, 1, i - 1), list[i])
    BY OneMore
  <2> QED
    BY <1>1, <2>1, <2>2, TotalAppend
<1>4. \A n \in 0..Len(list) : \A m \in 0..n : front(m) <= front(n)
  BY FrontsGrow
<1>5. front(Len(list)) = Total(list)
  BY SubSeqFull
<1> HIDE DEF front
<1>6. i \in 0..Len(list) /\ Len(list) \in 0..Len(list)
  BY <1>1
<1>7. front(i) <= Total(list)
  BY <1>4, <1>5, <1>6
<1>8. ASSUME NEW j \in 1..Len(list), i < j PROVE front(i) <= list[j].logicalStart
  <2>1. j - 1 \in 0..Len(list) /\ i \in 0..(j - 1)
    BY <1>1, <1>8
  <2> QED
    BY <1>2, <1>4, <2>1
<1> QED
  BY <1>2, <1>3, <1>7, <1>8

\* A list as ForkRead takes it to be: no extent begins before those in front of it
\* have ended.
Ordered(list) ==
  /\ list \in Seq(Extent)
  /\ \A i, j \in DOMAIN list :
       i < j => list[i].logicalStart + list[i].blockCount <= list[j].logicalStart

\* hfsplus_extents_get_extentlist_for_fork makes no other lists than those that the
\* reads of forks rely on.
THEOREM ListsAreOrdered == ListsSpec => [](\A i \in DOMAIN opened : Ordered(opened[i].list))
<1>1. Calls /\ ListsAreKept => \A i \in DOMAIN opened : Ordered(opened[i].list)
  <2> SUFFICES ASSUME Calls, ListsAreKept, NEW i \in DOMAIN opened PROVE Ordered(opened[i].list)
    OBVIOUS
  <2>1. opened \in Seq([fork : AnyFork, list : Seq(Extent)]) /\ i \in 1..Len(opened)
    BY DEF Calls
  <2>2. opened[i].list \in Seq(Extent) /\ Numbered(opened[i].list)
    <3> DEFINE S == [fork : AnyFork, list : Seq(Extent)]
    <3>1. opened[i] \in S
      <4>1. opened \in Seq(S) /\ i \in 1..Len(opened)
        BY <2>1
      <4> HIDE DEF S
      <4> QED
        BY <4>1
    <3>2. Numbered(opened[i].list)
      BY <2>1 DEF ListsAreKept
    <3> QED
      BY <3>1, <3>2
  <2> DEFINE list == opened[i].list
  <2>3. list \in Seq(Extent) /\ Numbered(list)
    BY <2>2
  <2> HIDE DEF list
  <2>4. ASSUME NEW m \in 1..Len(list), NEW n \in 1..Len(list), m < n
        PROVE  list[m].logicalStart + list[m].blockCount <= list[n].logicalStart
    BY <2>3, <2>4, NumberedIsOrdered
  <2>5. DOMAIN list = 1..Len(list)
    BY <2>3
  <2> QED
    BY <2>3, <2>4, <2>5 DEF Ordered, list
<1> QED
  BY <1>1, ListsAreKeptHolds, PTL

\* The block for which the tree is asked is in no extent of the list yet: of the two
\* checks that hfsplus_extents_get_extentlist_for_fork makes of a record, whether it
\* begins late and whether it is in the list already, neither can fail.
THEOREM NoRecordTwice ==
  ListsSpec => [](\A i \in DOMAIN stack : \A n \in DOMAIN stack[i].list :
                    stack[i].blocks >= stack[i].list[n].logicalStart + stack[i].list[n].blockCount)
<1>1. Calls /\ ListsAreKept =>
        \A i \in DOMAIN stack : \A n \in DOMAIN stack[i].list :
          stack[i].blocks >= stack[i].list[n].logicalStart + stack[i].list[n].blockCount
  <2> SUFFICES ASSUME Calls, ListsAreKept, NEW i \in DOMAIN stack, NEW n \in DOMAIN stack[i].list
               PROVE  stack[i].blocks >= stack[i].list[n].logicalStart + stack[i].list[n].blockCount
    OBVIOUS
  <2>1. stack \in Seq(FrameType) /\ i \in 1..Len(stack)
    BY DEF Calls
  <2>2. stack[i] \in FrameType /\ Kept(stack[i])
    BY <2>1 DEF ListsAreKept
  <2> DEFINE list == stack[i].list
  <2>3. list \in Seq(Extent) /\ Numbered(list) /\ stack[i].blocks = Total(list) /\ Total(list) \in Nat
    BY <2>2 DEF FrameType, Kept
  <2>4. n \in 1..Len(list) /\ list[n] \in Extent
    BY <2>3
  <2> HIDE DEF list
  <2>5. list[n].logicalStart + list[n].blockCount <= Total(list)
    BY <2>3, <2>4, NumberedIsOrdered
  <2>6. list[n].logicalStart \in Nat /\ list[n].blockCount \in Nat
    BY <2>4 DEF Extent
  <2>7. stack[i].blocks >= list[n].logicalStart + list[n].blockCount
    BY <2>3, <2>5, <2>6
  <2> QED
    BY <2>7 DEF list
<1> QED
  BY <1>1, ListsAreKeptHolds, PTL

-----------------------------------------------------------------------------
(***************************************************************************)
(* Lists of forks that are described completely                            *)
(***************************************************************************)

\* Descriptors without blocks are not in use.
LEMMA NothingUsed ==
  ASSUME NEW s \in Seq(Descriptor), Total(s) = 0
  PROVE  InUse(s) = <<>>
<1> DEFINE T == [startBlock : Nat, blockCount : Nat \ {0}]
           P == {u \in Seq(Descriptor) : Total(u) = 0 => Within(u, T) = <<>>}
<1>1. \A x \in Descriptor : x.blockCount \in Nat /\ (x \in T => x.blockCount # 0)
  BY DEF Descriptor
<1> HIDE DEF T
<1>2. <<>> \in P
  BY WithinEmpty
<1>3. ASSUME NEW u \in Seq(Descriptor), NEW e \in Descriptor, u \in P PROVE Append(u, e) \in P
  <2>1. /\ Append(u, e) \in Seq(Descriptor) /\ Total(u) \in Nat
        /\ Total(Append(u, e)) = Total(u) + e.blockCount
    BY <1>1, TotalAppend
  <2>2. ASSUME Total(Append(u, e)) = 0 PROVE Within(Append(u, e), T) = <<>>
    <3>1. Total(u) = 0 /\ e.blockCount = 0
      BY <1>1, <2>1, <2>2
    <3>2. e \notin T /\ Within(u, T) = <<>>
      BY <1>1, <1>3, <3>1
    <3> QED
      BY <3>2, WithinAppend
  <2> QED
    BY <2>1, <2>2
<1> HIDE DEF P
<1>4. s \in P
  BY <1>2, <1>3, Appended
<1> QED
  BY <1>4 DEF InUse, P, T

\* The blocks of a fork up to one of its records, and up to a later one.
LEMMA JoinedGrows ==
  ASSUME vol \in Volumes, NEW f \in AnyFork,
         NEW n \in 0..Len(RecordsOf(f)), NEW m \in 0..n
  PROVE  /\ Total(Joined(f)[m]) \in Nat /\ Total(Joined(f)[n]) \in Nat
         /\ Total(Joined(f)[m]) <= Total(Joined(f)[n])
         /\ Total(Joined(f)[m]) = Total(Joined(f)[n]) =>
              InUse(Joined(f)[m]) = InUse(Joined(f)[n])
<1> DEFINE N == Len(RecordsOf(f))
           J(k) == Joined(f)[k]
           E(k) == RecordsOf(f)[k].extents
           T == [startBlock : Nat, blockCount : Nat \ {0}]
           Fits(k, l) == /\ Total(J(l)) <= Total(J(k))
                         /\ Total(J(l)) = Total(J(k)) => InUse(J(l)) = InUse(J(k))
           P == {k \in 0..N : \A l \in 0..k : Fits(k, l)}
<1>1. /\ N \in Nat /\ \A k \in 0..N : J(k) \in Seq(Descriptor)
      /\ \A k \in 1..N : J(k) = J(k - 1) \o E(k) /\ E(k) \in Seq(Descriptor)
  BY JoinedIs, RecordsAre, RecordIsSeq
<1>2. \A x \in Descriptor : x.blockCount \in Nat
  BY DEF Descriptor
<1> HIDE DEF N, J, E
<1>3. \A k \in 0..N : Total(J(k)) \in Nat
  BY <1>1, <1>2, TotalNat
<1>4. ASSUME NEW k \in 1..N PROVE Fits(k, k - 1)
  <2>1. /\ J(k - 1) \in Seq(Descriptor) /\ E(k) \in Seq(Descriptor)
        /\ J(k) = J(k - 1) \o E(k)
    BY <1>1
  <2>2. /\ Total(J(k - 1)) \in Nat /\ Total(E(k)) \in Nat
        /\ Total(J(k)) = Total(J(k - 1)) + Total(E(k))
    BY <1>2, <2>1, TotalConcat
  <2>3. ASSUME Total(J(k - 1)) = Total(J(k)) PROVE InUse(J(k - 1)) = InUse(J(k))
    <3>1. Total(E(k)) = 0
      BY <2>2, <2>3
    <3>2. InUse(E(k)) = <<>>
      BY <2>1, <3>1, NothingUsed
    <3>3. /\ Within(J(k - 1), T) \in Seq(Descriptor)
          /\ Within(J(k), T) = Within(J(k - 1), T) \o Within(E(k), T)
      <4> HIDE DEF T
      <4> QED
        BY <2>1, WithinConcat
    <3> HIDE DEF T
    <3>4. \A s : InUse(s) = Within(s, T)
      BY DEF InUse, T
    <3>5. Within(J(k - 1), T) \o <<>> = Within(J(k - 1), T)
      BY <3>3
    <3> QED
      BY <3>2, <3>3, <3>4, <3>5
  <2> QED
    BY <2>2, <2>3
<1>5. 0 \in P
  <2>1. 0 \in 0..N /\ \A l \in 0..0 : l = 0
    BY <1>1
  <2>2. Total(J(0)) <= Total(J(0))
    BY <1>3, <2>1
  <2> QED
    BY <2>1, <2>2
<1>6. ASSUME NEW k \in 1..N, k - 1 \in P PROVE k \in P
  <2>1. k \in 0..N /\ k - 1 \in 0..N
    BY <1>1
  <2>2. ASSUME NEW l \in 0..k PROVE Fits(k, l)
    <3>1. CASE l = k
      BY <1>3, <2>1, <3>1
    <3>2. CASE l # k
      <4>1. l \in 0..(k - 1) /\ l \in 0..N
        BY <1>1, <3>2
      <4>2. Fits(k - 1, l) /\ Fits(k, k - 1)
        BY <1>4, <1>6, <4>1
      <4>3. Total(J(l)) \in Nat /\ Total(J(k - 1)) \in Nat /\ Total(J(k)) \in Nat
        BY <1>3, <2>1, <4>1
      <4> QED
        BY <4>2, <4>3
    <3> QED
      BY <3>1, <3>2
  <2> HIDE DEF Fits
  <2> QED
    BY <2>1, <2>2
<1> HIDE DEF P
<1>7. n \in P
  <2>1. n \in 0..N
    BY DEF N
  <2> QED
    BY <1>1, <1>5, <1>6, <2>1, Climb
<1>8. m \in 0..N /\ n \in 0..N
  BY <1>1 DEF N
<1>9. Fits(n, m)
  <2> HIDE DEF Fits
  <2> QED
    BY <1>7 DEF P
<1> QED
  BY <1>3, <1>8, <1>9 DEF J

\* A record of a fork whose keys are in order is what a lookup of its key finds.
LEMMA LookupIs ==
  ASSUME vol \in Volumes, NEW f \in AnyFork, Described(f), NEW n \in 1..Len(RecordsOf(f))
  PROVE  /\ Lookup(f, RecordsOf(f)[n].startBlock).found
         /\ Lookup(f, RecordsOf(f)[n].startBlock).extents = RecordsOf(f)[n].extents
<1> DEFINE b == RecordsOf(f)[n].startBlock
           k == <<f.cnid, b>>
           T == {1} \cup {i \in DOMAIN vol.records : ~Less(k, Key(i))}
<1>1. PICK m \in 1..Len(vol.records) : vol.records[m] = RecordsOf(f)[n]
  BY RecordsAre
<1>2. /\ vol.records \in Seq(OverflowRecord) /\ Len(vol.records) \in Nat
      /\ DOMAIN vol.records = 1..Len(vol.records) /\ vol.records # <<>>
  BY <1>1, OnDisk
<1>3. vol.records[m].cnid = f.cnid /\ vol.records[m].startBlock = b /\ b \in Nat /\ f.cnid \in Nat
  BY <1>1, RecordsAre DEF AnyFork
<1>4. Key(m) = k
  BY <1>3 DEF Key
<1>5. k[1] = f.cnid /\ k[2] = b
  OBVIOUS
<1> HIDE DEF b, k
<1>6. ~Less(k, k)
  BY <1>3, <1>5 DEF Less
<1>7. m \in T
  BY <1>2, <1>4, <1>6
<1>8. ASSUME NEW i \in T PROVE i \in Nat /\ m >= i
  <2>1. i \in 1..Len(vol.records)
    BY <1>1, <1>2
  <2>2. CASE i = 1
    BY <1>1, <2>1, <2>2
  <2>3. CASE ~Less(k, Key(i))
    <3>1. m < i => Less(Key(m), Key(i))
      BY <1>1, <1>2, <2>1 DEF Described
    <3> QED
      BY <1>1, <1>4, <2>1, <2>3, <3>1
  <2> QED
    BY <2>2, <2>3
<1> HIDE DEF T
<1>9. Max(T) = m
  <2>1. Max(T) \in T /\ \A y \in T : Max(T) >= y
    <3>1. \E x \in T : \A y \in T : x >= y
      BY <1>7, <1>8
    <3> QED
      BY <3>1, Zenon DEF Max
  <2> DEFINE most == Max(T)
  <2>2. most \in T /\ most >= m
    BY <1>7, <2>1
  <2> HIDE DEF most
  <2>3. most \in Nat /\ m >= most /\ m \in Nat
    BY <1>7, <1>8, <2>2
  <2>4. most = m
    BY <2>2, <2>3
  <2> QED
    BY <2>4 DEF most
<1>10. Arrival(k) = m
  BY <1>9 DEF Arrival, T
<1>11. Lookup(f, b) = [found |-> Key(m) = k, extents |-> vol.records[m].extents]
  <2>1. <<f.cnid, b>> = k
    BY DEF k
  <2>2. ~(vol.records = <<>> \/ vol.records[m].cnid # f.cnid \/ vol.records[m].startBlock > b)
    BY <1>2, <1>3
  <2> QED
    BY <1>10, <2>1, <2>2 DEF Lookup
<1>12. Lookup(f, b).found /\ Lookup(f, b).extents = vol.records[m].extents
  <2>1. (Key(m) = k) = TRUE
    BY <1>4
  <2>2. Lookup(f, b) = [found |-> TRUE, extents |-> vol.records[m].extents]
    BY <1>11, <2>1, Zenon
  <2> QED
    BY <2>2
<1> QED
  BY <1>1, <1>12 DEF b

\* The list of a call has the descriptors in use up to record j, and the blocks.
SoFar(frame, j) ==
  /\ frame.blocks = Total(Joined(frame.fork)[j])
  /\ Disk(frame.list) = InUse(Joined(frame.fork)[j])

Whole(f, list) == Described(f) => Disk(list) = InUse(Descriptors(f))

\* While the tree can be read, the lists of open forks are whole, and that of a fork
\* that is being opened is whole up to one of its records.
Progress ==
  treeReadable =>
    /\ \A i \in 1..Len(opened) : Whole(opened[i].fork, opened[i].list)
    /\ stack # <<>> /\ Described(stack[1].fork) =>
         \E j \in 0..Len(RecordsOf(stack[1].fork)) : SoFar(stack[1], j)

\* While the volume stays what it is, it suffices to look at the new lists.
LEMMA ProgressNext ==
  ASSUME vol' = vol, treeReadable' = treeReadable,
         treeReadable => \A i \in 1..Len(opened') : Whole(opened'[i].fork, opened'[i].list),
         treeReadable /\ stack' # <<>> /\ Described(stack'[1].fork) =>
           \E j \in 0..Len(RecordsOf(stack'[1].fork)) : SoFar(stack'[1], j)
  PROVE  Progress'
<1>1. ASSUME treeReadable, NEW i \in 1..Len(opened')
      PROVE  Whole(opened[i].fork, opened[i].list)'
  <2>1. Whole(opened'[i].fork, opened'[i].list)
    BY <1>1
  <2>2. /\ RecordsOf(opened[i].fork)' = RecordsOf(opened'[i].fork)
        /\ Joined(opened[i].fork)' = Joined(opened'[i].fork)
        /\ Descriptors(opened[i].fork)' = Descriptors(opened'[i].fork)
    BY DEF Descriptors, Joined, RecordsOf
  <2>3. ASSUME Described(opened[i].fork)' PROVE Described(opened'[i].fork)
    <3>1. \A m, n \in DOMAIN vol.records : m < n => Less(Key(m), Key(n))
      BY <2>3 DEF Described, Key
    <3> QED
      BY <2>2, <2>3, <3>1 DEF Described
  <2> QED
    BY <2>1, <2>2, <2>3 DEF Whole
<1>2. ASSUME treeReadable, stack' # <<>>, Described(stack[1].fork)'
      PROVE  \E j \in 0..Len(RecordsOf(stack[1].fork)') : SoFar(stack[1], j)'
  <2>1. Described(stack'[1].fork)
    <3>1. \A m, n \in DOMAIN vol.records : m < n => Less(Key(m), Key(n))
      BY <1>2 DEF Described, Key
    <3>2. /\ RecordsOf(stack[1].fork)' = RecordsOf(stack'[1].fork)
          /\ Joined(stack[1].fork)' = Joined(stack'[1].fork)
          /\ Descriptors(stack[1].fork)' = Descriptors(stack'[1].fork)
      BY DEF Descriptors, Joined, RecordsOf
    <3> QED
      BY <1>2, <3>1, <3>2 DEF Described
  <2>2. PICK j \in 0..Len(RecordsOf(stack'[1].fork)) : SoFar(stack'[1], j)
    BY <1>2, <2>1
  <2>3. j \in 0..Len(RecordsOf(stack[1].fork)')
    BY <2>2 DEF RecordsOf
  <2>4. SoFar(stack[1], j)'
    BY <2>2 DEF SoFar, Joined, RecordsOf
  <2> QED
    BY <2>3, <2>4
<1> QED
  BY <1>1, <1>2 DEF Progress

LEMMA InitProgress == ListsInit => Progress
BY DEF ListsInit, Progress

\* A call that lacks blocks and is whole so far has a record to go on with.
LEMMA NextRecord ==
  ASSUME vol \in Volumes, NEW frame \in FrameType, Described(frame.fork),
         NEW j \in 0..Len(RecordsOf(frame.fork)), SoFar(frame, j),
         frame.blocks < frame.fork.totalBlocks
  PROVE  /\ j + 1 \in 1..Len(RecordsOf(frame.fork))
         /\ Lookup(frame.fork, frame.blocks).found
         /\ Lookup(frame.fork, frame.blocks).extents = RecordsOf(frame.fork)[j + 1].extents
<1> DEFINE f == frame.fork
<1>1. f \in AnyFork /\ frame.blocks \in Nat /\ f.totalBlocks \in Nat
  BY DEF FrameType, AnyFork
<1>2. Len(RecordsOf(f)) \in Nat
  BY <1>1, RecordsAre
<1>3. Total(Joined(f)[Len(RecordsOf(f))]) = f.totalBlocks
  BY DEF Described, Descriptors
<1>4. j # Len(RecordsOf(f))
  BY <1>1, <1>3 DEF SoFar
<1>5. j + 1 \in 1..Len(RecordsOf(f)) /\ (j + 1) - 1 = j
  BY <1>2, <1>4
<1>6. RecordsOf(f)[j + 1].startBlock = frame.blocks
  <2>1. DOMAIN RecordsOf(f) = 1..Len(RecordsOf(f))
    BY <1>1, RecordsAre
  <2>2. RecordsOf(f)[j + 1].startBlock = Total(Joined(f)[(j + 1) - 1])
    BY <1>5, <2>1 DEF Described
  <2> QED
    BY <1>5, <2>2 DEF SoFar
<1> HIDE DEF f
<1>7. /\ Lookup(f, RecordsOf(f)[j + 1].startBlock).found
      /\ Lookup(f, RecordsOf(f)[j + 1].startBlock).extents = RecordsOf(f)[j + 1].extents
  <2>1. Described(f)
    BY DEF f
  <2> QED
    BY <1>1, <1>5, <2>1, LookupIs
<1> QED
  BY <1>5, <1>6, <1>7 DEF f

\* A call that lacks none and is whole so far is whole.
LEMMA NothingLeft ==
  ASSUME vol \in Volumes, NEW frame \in FrameType, Described(frame.fork),
         NEW j \in 0..Len(RecordsOf(frame.fork)), SoFar(frame, j),
         ~(frame.blocks < frame.fork.totalBlocks)
  PROVE  Disk(frame.list) = InUse(Descriptors(frame.fork))
<1> DEFINE f == frame.fork
           N == Len(RecordsOf(f))
<1>1. f \in AnyFork /\ frame.blocks \in Nat /\ f.totalBlocks \in Nat
  BY DEF FrameType, AnyFork
<1>2. N \in Nat /\ N \in 0..N /\ j \in 0..N
  BY <1>1, RecordsAre
<1>3. /\ Total(Joined(f)[j]) \in Nat /\ Total(Joined(f)[N]) \in Nat
      /\ Total(Joined(f)[j]) <= Total(Joined(f)[N])
      /\ Total(Joined(f)[j]) = Total(Joined(f)[N]) => InUse(Joined(f)[j]) = InUse(Joined(f)[N])
  <2> HIDE DEF f
  <2> QED
    BY <1>1, <1>2, JoinedGrows
<1>4. Total(Joined(f)[N]) = f.totalBlocks /\ Total(Joined(f)[j]) = frame.blocks
  BY DEF Described, Descriptors, SoFar
<1>5. Total(Joined(f)[j]) = Total(Joined(f)[N])
  BY <1>1, <1>3, <1>4
<1> QED
  BY <1>3, <1>5 DEF SoFar, Descriptors

\* The next record brings a call up to the record after.
LEMMA OneRecordOn ==
  ASSUME vol \in Volumes, NEW frame \in FrameType, Kept(frame),
         NEW j \in Nat, j + 1 \in 1..Len(RecordsOf(frame.fork)), SoFar(frame, j)
  PROVE  SoFar(With(frame, RecordsOf(frame.fork)[j + 1].extents), j + 1)
<1> DEFINE f == frame.fork
           extents == RecordsOf(f)[j + 1].extents
           T == [startBlock : Nat, blockCount : Nat \ {0}]
<1>1. f \in AnyFork
  BY DEF FrameType
<1>2. extents \in ExtentRecord /\ Len(RecordsOf(f)) \in Nat
  BY <1>1, RecordsAre
<1>3. /\ With(frame, extents).fork = frame.fork
      /\ With(frame, extents).blocks = frame.blocks + Total(extents)
      /\ Disk(With(frame, extents).list) = Disk(frame.list) \o InUse(extents)
  BY <1>2, WithIs
<1>4. /\ Joined(f)[j] \in Seq(Descriptor) /\ extents \in Seq(Descriptor)
      /\ Joined(f)[j + 1] = Joined(f)[j] \o extents
  <2>1. j \in 0..Len(RecordsOf(f)) /\ j + 1 \in 1..Len(RecordsOf(f)) /\ (j + 1) - 1 = j
    BY <1>2
  <2>2. Joined(f)[j + 1] = Joined(f)[(j + 1) - 1] \o extents
    BY <1>1, <2>1, JoinedIs
  <2> QED
    BY <1>1, <1>2, <2>1, <2>2, JoinedIs, RecordIsSeq
<1>5. \A x \in Descriptor : x.blockCount \in Nat
  BY DEF Descriptor
<1> HIDE DEF extents, T
<1>6. Total(Joined(f)[j] \o extents) = Total(Joined(f)[j]) + Total(extents)
  BY <1>4, <1>5, TotalConcat
<1>7. InUse(Joined(f)[j] \o extents) = InUse(Joined(f)[j]) \o InUse(extents)
  <2>1. Within(Joined(f)[j] \o extents, T) = Within(Joined(f)[j], T) \o Within(extents, T)
    BY <1>4, WithinConcat
  <2>2. \A s : InUse(s) = Within(s, T)
    BY DEF InUse, T
  <2> QED
    BY <2>1, <2>2
<1> QED
  BY <1>3, <1>4, <1>6, <1>7 DEF SoFar, extents

\* More brings a fork that is described up to its next record, and ends only with
\* the last one.
LEMMA MoreProgress ==
  ASSUME Calls, ListsAreKept, Progress, More
  PROVE  Progress'
<1> DEFINE got == Lookup(Top.fork, Top.blocks)
           frame == With(Top, got.extents)
           N == Len(RecordsOf(Top.fork))
<1>1. /\ stack # <<>> /\ Len(stack) = 1 /\ Top.blocks < Top.fork.totalBlocks
      /\ got.extents \in ExtentRecord
      /\ UNCHANGED <<treeReadable, vol, cachedTree>>
      /\ \/ /\ Last(got.extents).blockCount = 0
            /\ opened' = Append(opened, [fork |-> frame.fork, list |-> frame.list])
            /\ stack' = Below
         \/ /\ ~(Last(got.extents).blockCount = 0)
            /\ stack' = Append(Below, frame) /\ opened' = opened
  BY MoreIs
<1>2. vol \in Volumes /\ stack \in Seq(FrameType) /\ opened \in Seq([fork : AnyFork, list : Seq(Extent)])
  BY DEF Calls
<1>3. /\ Top = stack[1] /\ Top \in FrameType /\ Kept(Top)
      /\ Below \in Seq(FrameType) /\ Len(Below) = 0
  BY <1>1, <1>2, StackIs DEF ListsAreKept
<1>4. frame.fork = Top.fork /\ frame \in FrameType
  BY <1>1, <1>3, WithIs
<1>5. ASSUME treeReadable, Described(Top.fork)
      PROVE  \E i \in 1..N :
               /\ SoFar(frame, i)
               /\ Last(got.extents).blockCount = 0 => i = N
  <2>1. PICK j \in 0..N : SoFar(Top, j)
    BY <1>1, <1>3, <1>5 DEF Progress
  <2>2. j + 1 \in 1..N /\ got.extents = RecordsOf(Top.fork)[j + 1].extents
    BY <1>1, <1>2, <1>3, <1>5, <2>1, NextRecord
  <2>3. SoFar(With(Top, RecordsOf(Top.fork)[j + 1].extents), j + 1)
    <3>1. j \in Nat
      OBVIOUS
    <3> QED
      BY <1>2, <1>3, <2>1, <2>2, <3>1, OneRecordOn
  <2>4. SoFar(frame, j + 1)
    BY <2>2, <2>3
  <2>5. Last(got.extents).blockCount = 0 => j + 1 = N
    <3>1. N \in Nat /\ DOMAIN RecordsOf(Top.fork) = 1..N
      BY <1>2, <1>3, RecordsAre DEF FrameType
    <3>2. j + 1 < N => Last(RecordsOf(Top.fork)[j + 1].extents).blockCount > 0
      BY <1>5, <2>2, <3>1 DEF Described
    <3>3. Last(got.extents).blockCount = 0 => ~(j + 1 < N)
      BY <2>2, <3>2
    <3> QED
      BY <2>2, <3>1, <3>3
  <2> QED
    BY <2>2, <2>4, <2>5
<1> HIDE DEF got, frame
<1>6. ASSUME treeReadable, NEW i \in 1..Len(opened), opened'[i] = opened[i]
      PROVE  Whole(opened'[i].fork, opened'[i].list)
  BY <1>6 DEF Progress
<1>7. CASE /\ Last(got.extents).blockCount = 0
           /\ opened' = Append(opened, [fork |-> frame.fork, list |-> frame.list])
           /\ stack' = Below
  <2> DEFINE new == [fork |-> frame.fork, list |-> frame.list]
  <2>1. new \in [fork : AnyFork, list : Seq(Extent)] /\ new.fork = Top.fork /\ new.list = frame.list
    BY <1>4 DEF FrameType
  <2> HIDE DEF new
  <2>2. opened' = Append(opened, new)
    BY <1>7 DEF new
  <2>3. ASSUME treeReadable PROVE Whole(new.fork, new.list)
    <3>1. SUFFICES ASSUME Described(Top.fork) PROVE Disk(frame.list) = InUse(Descriptors(Top.fork))
      BY <2>1 DEF Whole
    <3>2. SoFar(frame, N)
      BY <1>1, <1>5, <1>7, <2>3, <3>1
    <3> QED
      BY <1>4, <3>2 DEF SoFar, Descriptors
  <2>4. ASSUME treeReadable, NEW i \in 1..Len(opened')
        PROVE  Whole(opened'[i].fork, opened'[i].list)
    <3>1. CASE i = Len(opened) + 1
      <4>1. opened'[i] = new
        BY <1>2, <2>1, <2>2, <3>1
      <4> QED
        BY <2>3, <2>4, <4>1
    <3>2. CASE i # Len(opened) + 1
      <4>1. i \in 1..Len(opened) /\ opened'[i] = opened[i]
        BY <1>2, <2>1, <2>2, <3>2
      <4> QED
        BY <1>6, <2>4, <4>1
    <3> QED
      BY <3>1, <3>2
  <2>5. stack' = <<>>
    BY <1>3, <1>7
  <2> QED
    BY <1>1, <2>4, <2>5, ProgressNext
<1>8. CASE /\ ~(Last(got.extents).blockCount = 0)
           /\ stack' = Append(Below, frame) /\ opened' = opened
  <2>1. stack'[1] = frame
    BY <1>3, <1>4, <1>8
  <2>2. ASSUME treeReadable, Described(Top.fork)
        PROVE  \E j \in 0..N : SoFar(frame, j)
    BY <1>5, <2>2
  <2>3. treeReadable => \A i \in 1..Len(opened') : Whole(opened'[i].fork, opened'[i].list)
    BY <1>6, <1>8
  <2>4. stack'[1].fork = Top.fork
    BY <1>4, <2>1
  <2>5. treeReadable /\ stack' # <<>> /\ Described(stack'[1].fork) =>
          \E j \in 0..Len(RecordsOf(stack'[1].fork)) : SoFar(stack'[1], j)
    BY <2>1, <2>2, <2>4
  <2> QED
    BY <1>1, <2>3, <2>5, ProgressNext
<1> QED
  BY <1>1, <1>7, <1>8

\* Making a fork takes up the descriptors of its own record.
LEMMA MakeProgress ==
  ASSUME Calls, Progress, Make
  PROVE  Progress'
<1>1. PICK f \in UserForks : stack' = <<Frame(f)>>
  BY DEF Make
<1>2. f \in AnyFork /\ vol \in Volumes
  BY <1>1, VolumesAssumption DEF Calls
<1>3. vol' = vol /\ treeReadable' = treeReadable /\ opened' = opened
  BY DEF Make
<1>4. SoFar(Frame(f), 0) /\ 0 \in 0..Len(RecordsOf(f))
  <2>1. Joined(f)[0] = f.extents /\ Len(RecordsOf(f)) \in Nat
    BY <1>2, JoinedIs, RecordsAre
  <2>2. /\ Frame(f).fork = f /\ Frame(f).blocks = Total(f.extents)
        /\ Disk(Frame(f).list) = InUse(f.extents)
    BY <1>2, FrameIs
  <2> QED
    BY <2>1, <2>2 DEF SoFar
<1>5. stack'[1] = Frame(f) /\ stack'[1].fork = f
  BY <1>1, <1>2, FrameIs
<1>6. treeReadable => \A i \in 1..Len(opened') : Whole(opened'[i].fork, opened'[i].list)
  BY <1>3 DEF Progress
<1>7. treeReadable /\ stack' # <<>> /\ Described(stack'[1].fork) =>
        \E j \in 0..Len(RecordsOf(stack'[1].fork)) : SoFar(stack'[1], j)
  BY <1>4, <1>5
<1> QED
  BY <1>3, <1>6, <1>7, ProgressNext

\* Opening the tree leaves the call that needs it as it is.
LEMMA OpenTreeProgress ==
  ASSUME Calls, Progress, OpenTree
  PROVE  Progress'
<1> DEFINE new == Frame(vol.extentsFile)
<1>1. new \in FrameType
  BY OnDisk, FrameIs DEF Calls
<1>2. stack \in Seq(FrameType) /\ stack # <<>>
  BY DEF Calls, OpenTree, Lacking, Running
<1>3. vol' = vol /\ treeReadable' = treeReadable /\ opened' = opened /\ stack' = Append(stack, new)
  BY DEF OpenTree
<1> HIDE DEF new
<1>4. stack'[1] = stack[1]
  BY <1>1, <1>2, <1>3
<1>5. treeReadable => \A i \in 1..Len(opened') : Whole(opened'[i].fork, opened'[i].list)
  BY <1>3 DEF Progress
<1>6. treeReadable /\ stack' # <<>> /\ Described(stack'[1].fork) =>
        \E j \in 0..Len(RecordsOf(stack'[1].fork)) : SoFar(stack'[1], j)
  BY <1>2, <1>4 DEF Progress
<1> QED
  BY <1>3, <1>5, <1>6, ProgressNext

\* A call that returns leaves a whole list behind, if the list was whole; the call
\* for the extents file leaves the one that waits for it as it is.
LEMMA FinishProgress ==
  ASSUME Calls, Progress, stack # <<>>, Finish,
         treeReadable /\ Len(stack) = 1 => Whole(Top.fork, Top.list)
  PROVE  Progress'
<1>1. stack \in Seq(FrameType) /\ opened \in Seq([fork : AnyFork, list : Seq(Extent)])
  BY DEF Calls
<1>2. /\ Len(stack) \in Nat /\ Len(stack) >= 1 /\ Len(stack) <= 2
      /\ Top = stack[Len(stack)] /\ Top \in FrameType
      /\ Below \in Seq(FrameType) /\ Len(Below) = Len(stack) - 1
      /\ \A i \in 1..(Len(stack) - 1) : Below[i] = stack[i]
  BY <1>1, StackIs DEF Calls
<1>3. stack' = Below /\ treeReadable' = treeReadable /\ vol' = vol
  BY DEF Finish
<1>4. CASE Len(stack) = 1
  <2> DEFINE new == [fork |-> Top.fork, list |-> Top.list]
  <2>1. opened' = Append(opened, new) /\ stack' = <<>>
    BY <1>2, <1>3, <1>4 DEF Finish
  <2>2. /\ new \in [fork : AnyFork, list : Seq(Extent)]
        /\ new.fork = Top.fork /\ new.list = Top.list
    BY <1>2 DEF FrameType
  <2> HIDE DEF new
  <2>3. ASSUME treeReadable, NEW i \in 1..Len(opened')
        PROVE  Whole(opened'[i].fork, opened'[i].list)
    <3>1. CASE i = Len(opened) + 1
      <4>1. opened'[i] = new
        BY <1>1, <2>1, <2>2, <3>1
      <4> QED
        BY <1>4, <2>2, <2>3, <4>1
    <3>2. CASE i # Len(opened) + 1
      <4>1. i \in 1..Len(opened) /\ opened'[i] = opened[i]
        BY <1>1, <2>1, <2>2, <3>2
      <4> QED
        BY <2>3, <4>1 DEF Progress
    <3> QED
      BY <3>1, <3>2
  <2> QED
    BY <1>3, <2>1, <2>3, ProgressNext
<1>5. CASE Len(stack) # 1
  <2>1. opened' = opened
    BY <1>5 DEF Finish
  <2>2. stack'[1] = stack[1]
    <3>1. Len(stack) = 2
      BY <1>2, <1>5
    <3>2. 1 \in 1..(Len(stack) - 1)
      BY <3>1
    <3> QED
      BY <1>2, <1>3, <3>2
  <2>3. treeReadable => \A i \in 1..Len(opened') : Whole(opened'[i].fork, opened'[i].list)
    BY <2>1 DEF Progress
  <2>4. treeReadable /\ stack' # <<>> /\ Described(stack'[1].fork) =>
          \E j \in 0..Len(RecordsOf(stack'[1].fork)) : SoFar(stack'[1], j)
    BY <2>2 DEF Progress
  <2> QED
    BY <1>3, <2>3, <2>4, ProgressNext
<1> QED
  BY <1>4, <1>5

LEMMA NextProgress ==
  Calls /\ ListsAreKept /\ Progress /\ [ListsNext]_listsVars => Progress'
<1> SUFFICES ASSUME Calls, ListsAreKept, Progress, [ListsNext]_listsVars PROVE Progress'
  OBVIOUS
<1>0. vol \in Volumes /\ stack \in Seq(FrameType)
  BY DEF Calls
<1>1. CASE Make
  BY <1>1, MakeProgress
<1>2. CASE Covered
  <2>1. stack # <<>> /\ Finish /\ ~(Top.blocks < Top.fork.totalBlocks)
    BY <1>2 DEF Covered, Lacking, Running
  <2>2. ASSUME treeReadable, Len(stack) = 1, Described(Top.fork)
        PROVE  Disk(Top.list) = InUse(Descriptors(Top.fork))
    <3>1. Top = stack[1] /\ Top \in FrameType
      BY <1>0, <2>1, <2>2, StackIs
    <3>2. PICK j \in 0..Len(RecordsOf(Top.fork)) : SoFar(Top, j)
      BY <2>1, <2>2, <3>1 DEF Progress
    <3> QED
      BY <1>0, <2>1, <2>2, <3>1, <3>2, NothingLeft
  <2> QED
    BY <2>1, <2>2, FinishProgress DEF Whole
<1>3. CASE OpenTree
  BY <1>3, OpenTreeProgress
<1>4. CASE NoTree
  <2>1. stack # <<>> /\ Finish /\ cachedTree = "blank"
    BY <1>4 DEF NoTree, Lacking, Running
  <2>2. ASSUME treeReadable, Len(stack) = 1 PROVE FALSE
    <3>1. Len(stack) = 2
      BY <2>1, <2>2 DEF Calls
    <3> QED
      BY <2>2, <3>1
  <2> QED
    BY <2>1, <2>2, FinishProgress
<1>5. CASE NoRecord
  <2>1. /\ stack # <<>> /\ Finish /\ Top.blocks < Top.fork.totalBlocks
        /\ ~Lookup(Top.fork, Top.blocks).found
    BY <1>5 DEF NoRecord, Lacking, Running
  <2>2. ASSUME treeReadable, Len(stack) = 1, Described(Top.fork)
        PROVE  FALSE
    <3>1. Top = stack[1] /\ Top \in FrameType
      BY <1>0, <2>1, <2>2, StackIs
    <3>2. PICK j \in 0..Len(RecordsOf(Top.fork)) : SoFar(Top, j)
      BY <2>1, <2>2, <3>1 DEF Progress
    <3> QED
      BY <1>0, <2>1, <2>2, <3>1, <3>2, NextRecord
  <2> QED
    BY <2>1, <2>2, FinishProgress DEF Whole
<1>6. CASE More
  BY <1>6, MoreProgress
<1>7. CASE Abort \/ Crash \/ UNCHANGED listsVars
  <2>1. UNCHANGED <<treeReadable, vol, stack, opened>>
    BY <1>7 DEF Abort, Crash, listsVars
  <2> QED
    BY <2>1, ProgressNext DEF Progress
<1> QED
  BY <1>1, <1>2, <1>3, <1>4, <1>5, <1>6, <1>7 DEF ListsNext

\* As long as the tree can be read, a fork whose records are all there is opened
\* with all its extents, in order, on every volume and whichever forks were opened
\* before: each lookup of hfsplus_extents_get_extentlist_for_fork finds the record
\* that comes next.
THEOREM ListsCompleteHolds == ListsSpec => []ListsComplete
<1>1. Calls /\ Progress => ListsComplete
  <2> SUFFICES ASSUME Calls, Progress PROVE ListsComplete
    OBVIOUS
  <2>1. DOMAIN opened = 1..Len(opened)
    BY DEF Calls
  <2> QED
    BY <2>1 DEF ListsComplete, Progress, Whole
<1> QED
  BY <1>1, InitProgress, NextProgress, ListsAreKeptHolds, PTL DEF ListsSpec
=============================================================================
