----------------------------- MODULE ForkStream -----------------------------
(***************************************************************************)
(* The stdio stream over a fork (fopen_hfsfork, hfs/hfs_io.c) and its two  *)
(* kinds of client: fpread, which seeks and reads once, as the trees do for *)
(* their nodes, and extractFork (operations/extract_file.c), which reads   *)
(* the fork in chunks from its beginning to its end.                       *)
(*                                                                         *)
(* stdio itself is outside of the repository: a read of the stream is one  *)
(* call of fork_readfn, for all the caller asked for, which is what it does *)
(* for a request no smaller than its own buffer.                           *)
(***************************************************************************)
EXTENDS ForkRead

CONSTANTS
  Chunk,       \* block_size * 256 in extractFork
  Whences,     \* ways to seek; the program uses "set" alone
  SeekLimit    \* seeks of one fpread client

\* A chunk is a whole number of blocks.
ASSUME StreamAssumption ==
  /\ Chunk \in Nat \ {0} /\ Chunk % BlockSize = 0
  /\ Whences \subseteq {"set", "current", "end"}
  /\ SeekLimit \in Nat

VARIABLES
  client,   \* "fpread" or "extractFork"
  asked,    \* the size of each read of the stream
  cursor,   \* HFSPlusForkCookie.cursor
  seeks,    \* seeks made so far
  f_out     \* what extractFork has written

stream == <<client, asked, cursor, seeks, f_out>>
streamVars == <<vars, stream>>

\* The stream is open and positioned, and its first read begins.
StreamInit ==
  /\ Init
  /\ client \in {"fpread", "extractFork"}
  /\ client = "extractFork" => offset = 0 /\ size = Chunk
  /\ asked = size
  /\ cursor = offset
  /\ seeks = 0
  /\ f_out = <<>>

\* A call of hfs_read_fork_range begins, with a buffer of its own.
Reading(position) ==
  /\ offset' = position
  /\ size' = asked
  /\ request' = [start |-> 0, count |-> 0]
  /\ remaining' = request'
  /\ outer' = <<>> /\ inner' = <<>>
  /\ loopCounter' = 0
  /\ buf' = [j \in 0..(asked - 1) |-> Untouched]
  /\ pc' = "check"
  /\ UNCHANGED <<readable, fork>>

MutantReadfnMovesByBlock == cursor - (cursor % BlockSize) + Least(size, BlockSize)

\* Where the cursor is after a read: moved by what hfs_read_fork_range returned.
fork_readfn == cursor + size

\* fseeko on the stream, from where the last read left it: the end of the fork is counted backwards.
fork_seekfn(from, pos, whence) ==
  CASE whence = "set"     -> pos
    [] whence = "current" -> pos + from
    [] whence = "end"     -> fork.logicalSize - pos

\* One step of the read that is under way.
ReadStep == Next /\ UNCHANGED stream

Delivered == [j \in 1..size |-> buf[j - 1]]

MutantCopyChunkReadsAgain ==
  /\ client = "extractFork" /\ pc = "done"
  /\ cursor' = fork_readfn
  /\ f_out' = f_out \o Delivered
  /\ Reading(cursor')
  /\ UNCHANGED <<client, asked, seeks>>

\* A chunk that brought anything is written as long as it is, and the next one
\* is read.
CopyChunk ==
  /\ client = "extractFork" /\ pc = "done" /\ size > 0
  /\ cursor' = fork_readfn
  /\ f_out' = f_out \o Delivered
  /\ Reading(cursor')
  /\ UNCHANGED <<client, asked, seeks>>

\* Nothing came: the copy is complete, and both streams are closed.
CopyEnds ==
  /\ client = "extractFork" /\ pc = "done" /\ size = 0
  /\ pc' = "closed"
  /\ UNCHANGED <<ranges, size, request, remaining, outer, inner, loopCounter, buf, stream>>

\* fpread again, at another place.
Seek(pos, whence) ==
  /\ client = "fpread" /\ pc = "done"
  /\ seeks < SeekLimit
  /\ cursor' = fork_seekfn(fork_readfn, pos, whence)
  /\ cursor' >= 0
  /\ seeks' = seeks + 1
  /\ Reading(cursor')
  /\ UNCHANGED <<client, asked, f_out>>

\* The tree's stream stays open until the program ends.
Unused ==
  /\ client = "fpread" /\ pc = "done"
  /\ pc' = "closed"
  /\ UNCHANGED <<ranges, size, request, remaining, outer, inner, loopCounter, buf, stream>>

StreamNext ==
  \/ ReadStep
  \/ CopyChunk \/ CopyEnds
  \/ \E pos \in Offsets, whence \in Whences : Seek(pos, whence)
  \/ Unused

StreamSpec == StreamInit /\ [][StreamNext]_streamVars /\ WF_streamVars(StreamNext)

-----------------------------------------------------------------------------

\* Where a chunk of the fork lies: in one extent, so that one read brings it.
ChunkInOneExtent(first) ==
  LET last == Least(first + Chunk, fork.logicalSize) - 1 IN
  \E e \in Extents : /\ range_contains(e, first \div BlockSize)
                     /\ range_contains(e, last \div BlockSize)

Chunks == {n \in 0..(fork.logicalSize - 1) : n % Chunk = 0}

\* A file extracted from a volume that can be read is, byte for byte and to its
\* last byte, the fork, when no chunk is cut by the border of an extent: the
\* cursor, the chunks and the rounding to blocks leave no gap between them.
CopyIsFork ==
  client = "extractFork" /\ pc = "closed" /\ readable /\ Roomy
    /\ (\A n \in Chunks : ChunkInOneExtent(n))
  => f_out = [n \in 1..fork.logicalSize |-> ForkByte(n - 1)]

\* Nothing of another file gets into the copy, wherever reads fall short.
NoForeignCopies ==
  /\ NoForeignBytes
  /\ \A n \in DOMAIN f_out : f_out[n] >= 0 => \E e \in Extents : f_out[n] \in BytesOf(e)

\* A copy ends, with the whole program if a block of the fork is in no extent,
\* although nothing but an empty read tells it to; and so does every other read.
StreamEnds == <>(pc \in {"closed", "aborted"})
=============================================================================
