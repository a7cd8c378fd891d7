---------------------------- MODULE ForkExtents ----------------------------
(***************************************************************************)
(* How a fork gets its list of extents (hfs/extents.c, hfs_extentlist.c):  *)
(* first the extents in its own record, then those that the extents        *)
(* overflow B-tree holds for it.  The tree is opened by the first fork     *)
(* that needs it, and opening it makes the fork of the extents file, which *)
(* may itself have to be looked up in the tree: the functions re-enter     *)
(* each other, so the calls in progress are a stack of frames.             *)
(*                                                                         *)
(* Fork type and file number are one thing here, the cnid.                 *)
(***************************************************************************)
EXTENDS Integers, Sequences, SequencesExt, FiniteSets, FiniteSetsExt

CONSTANTS
  Volumes,       \* [extentsFile, records, tall]: see below
  UserForks,     \* forks a caller may open
  Density,       \* kHFSPlusExtentDensity, descriptors in a record
  MaxForks       \* forks opened in one run of the program

(***************************************************************************)
(* A fork is [cnid, extents, totalBlocks]; extents and every record of the *)
(* tree are sequences of Density descriptors [startBlock, blockCount].     *)
(* records is the sequence of [cnid, startBlock, extents] of the leaves in *)
(* key order; tall says that there are index nodes above them.             *)
(***************************************************************************)

Descriptor == [startBlock : Nat, blockCount : Nat]
ExtentRecord == [1..Density -> Descriptor]
AnyFork == [cnid : Nat, extents : ExtentRecord, totalBlocks : Nat]

ASSUME DensityAssumption == Density \in Nat \ {0}

\* Numbers and records as they are laid out on the disk, whatever they say.
ASSUME VolumesAssumption ==
  /\ UserForks \subseteq AnyFork
  /\ \A v \in Volumes :
       /\ v.extentsFile \in AnyFork
       /\ v.records \in Seq([cnid : Nat, startBlock : Nat, extents : ExtentRecord])

VARIABLES
  treeReadable, \* whether the header and all nodes of the tree can be read
  vol,
  cachedTree,   \* "absent", "blank" while or because nothing was read, "ready"
  stack,        \* frames [fork, list, blocks] of the calls, innermost last
  opened,       \* forks opened: [fork, list]
  outcome       \* "running", "aborted" or "crashed"

listsVars == <<treeReadable, vol, cachedTree, stack, opened, outcome>>

Top == Last(stack)
Below == Front(stack)

-----------------------------------------------------------------------------
(***************************************************************************)
(* hfs_extentlist.c                                                        *)
(***************************************************************************)

Total(list) ==
  LET sum[n \in 0..Len(list)] == IF n = 0 THEN 0 ELSE sum[n - 1] + list[n].blockCount
  IN sum[Len(list)]

MutantAddUnnumbered(list, d) ==
  IF d.blockCount = 0 THEN list
  ELSE Append(list, [ logicalStart |-> 0,
                      startBlock |-> d.startBlock, blockCount |-> d.blockCount ])

\* extentlist_add: empty descriptors are skipped, the others go to the end.
\* Every extent is numbered anew after each, which amounts to this.
Add(list, d) ==
  IF d.blockCount = 0 THEN list
  ELSE Append(list, [ logicalStart |-> Total(list),
                      startBlock |-> d.startBlock, blockCount |-> d.blockCount ])

MutantAddRecordStopsAtEmpty(list, record) ==
  LET used == {i \in DOMAIN record : \A j \in 1..i : record[j].blockCount > 0}
      added[n \in 0..Cardinality(used)] == IF n = 0 THEN list ELSE Add(added[n - 1], record[n])
  IN added[Cardinality(used)]

\* extentlist_add_record: one descriptor of the record after the other.
AddRecord(list, record) ==
  LET added[n \in 0..Len(record)] == IF n = 0 THEN list ELSE Add(added[n - 1], record[n])
  IN added[Len(record)]

Frame(f) ==
  [fork |-> f, list |-> AddRecord(<<>>, f.extents), blocks |-> Total(f.extents)]

\* A record of the tree is added to the list, and its blocks to the count.
With(frame, extents) ==
  [ fork   |-> frame.fork,
    list   |-> AddRecord(frame.list, extents),
    blocks |-> frame.blocks + Total(extents) ]

-----------------------------------------------------------------------------
(***************************************************************************)
(* hfsplus_extents_find_record                                             *)
(***************************************************************************)

Less(a, b) == a[1] < b[1] \/ (a[1] = b[1] /\ a[2] < b[2])
Key(i) == <<vol.records[i].cnid, vol.records[i].startBlock>>

\* The record btree_search arrives at: the last one that is not greater, else
\* the first of the leaf (TreeSearch).
Arrival(k) ==
  Max({1} \cup {i \in DOMAIN vol.records : ~Less(k, Key(i))})

\* The key is below all others: with index nodes, the search aborts.
Under(k) == vol.records # <<>> /\ Less(k, Key(1)) /\ vol.tall

NotFound == [found |-> FALSE, extents |-> <<>>]

\* Only an exact match counts as found, although the record is handed out when
\* it is any earlier one of the fork, too.
Lookup(f, blocks) ==
  LET k == <<f.cnid, blocks>>
      r == vol.records[Arrival(k)]
  IN IF vol.records = <<>> \/ r.cnid # f.cnid \/ r.startBlock > blocks
     THEN NotFound
     ELSE [found |-> Key(Arrival(k)) = k, extents |-> r.extents]

-----------------------------------------------------------------------------

ListsInit ==
  /\ treeReadable \in BOOLEAN
  /\ vol \in Volumes
  /\ cachedTree = "absent"
  /\ stack = <<>>
  /\ opened = <<>>
  /\ outcome = "running"

\* hfsfork_make: a caller opens a fork.
Make ==
  /\ outcome = "running" /\ stack = <<>> /\ Len(opened) < MaxForks
  /\ \E f \in UserForks : stack' = <<Frame(f)>>
  /\ UNCHANGED <<treeReadable, vol, cachedTree, opened, outcome>>

Running == outcome = "running" /\ stack # <<>>
Lacking == Running /\ Top.blocks < Top.fork.totalBlocks

\* The innermost call is done.  If it was for the extents file, the tree is
\* initialised from the new fork, which may fail without anybody looking.
Finish ==
  /\ IF Len(stack) = 1
     THEN /\ opened' = Append(opened, [fork |-> Top.fork, list |-> Top.list])
          /\ UNCHANGED cachedTree
     ELSE /\ cachedTree' \in {"ready"} \cup (IF treeReadable THEN {} ELSE {"blank"})
          /\ UNCHANGED opened
  /\ stack' = Below
  /\ UNCHANGED <<treeReadable, vol, outcome>>

\* All blocks of the fork are accounted for.
Covered ==
  /\ Running /\ ~Lacking
  /\ Finish

\* hfsplus_get_extents_btree: the first fork with more extents than its record
\* holds opens the tree, whose address is kept before there is anything in it.
OpenTree ==
  /\ Lacking /\ cachedTree = "absent"
  /\ cachedTree' = "blank"
  /\ stack' = Append(stack, Frame(vol.extentsFile))
  /\ UNCHANGED <<treeReadable, vol, opened, outcome>>

\* A tree with nothing in it has no root: no record, and the list stays short.
NoTree ==
  /\ Lacking /\ cachedTree = "blank"
  /\ Finish

MutantNoRecordContinues ==
  /\ Lacking /\ cachedTree = "ready"
  /\ ~Under(<<Top.fork.cnid, Top.blocks>>)
  /\ ~Lookup(Top.fork, Top.blocks).found
  /\ UNCHANGED listsVars

\* The tree has no record for the fork at this block: the list stays short.
NoRecord ==
  /\ Lacking /\ cachedTree = "ready"
  /\ ~Under(<<Top.fork.cnid, Top.blocks>>)
  /\ ~Lookup(Top.fork, Top.blocks).found
  /\ Finish

MutantMoreRecountsAll ==
  /\ Lacking /\ cachedTree = "ready"
  /\ LET got == Lookup(Top.fork, Top.blocks)
         frame == [Top EXCEPT !.list = AddRecord(@, got.extents),
                              !.blocks = Total(got.extents)]
     IN /\ got.found
        /\ IF Last(got.extents).blockCount = 0
           THEN /\ opened' = Append(opened, [fork |-> frame.fork, list |-> frame.list])
                /\ stack' = Below
           ELSE /\ stack' = Append(Below, frame)
                /\ UNCHANGED opened
  /\ UNCHANGED <<treeReadable, vol, cachedTree, outcome>>

\* A record: its extents are added.  Unless its last descriptor is in use it is
\* the last one.  The two checks that would end the program first, of a record
\* that begins late or one already in the list, cannot fail: the record begins
\* at the first block the list lacks, by Lookup and BlocksAreListed.
More ==
  /\ Lacking /\ cachedTree = "ready"
  /\ LET got == Lookup(Top.fork, Top.blocks)
         frame == With(Top, got.extents)
     IN /\ got.found
        /\ IF Last(got.extents).blockCount = 0
           THEN /\ opened' = Append(opened, [fork |-> frame.fork, list |-> frame.list])
                /\ stack' = Below
           ELSE /\ stack' = Append(Below, frame)
                /\ UNCHANGED opened
  /\ UNCHANGED <<treeReadable, vol, cachedTree, outcome>>

\* The list of the extents file itself was left short.
TreeShort == Frame(vol.extentsFile).blocks < vol.extentsFile.totalBlocks

\* The search ends the program, being below every key or led to a node in a
\* block of the extents file that its list lacks.
Abort ==
  /\ Lacking /\ cachedTree = "ready"
  /\ Under(<<Top.fork.cnid, Top.blocks>>) \/ TreeShort
  /\ outcome' = "aborted"
  /\ UNCHANGED <<treeReadable, vol, cachedTree, stack, opened>>

\* A node cannot be loaded: the search leaves no node, and the length of its
\* data is read all the same.
Crash ==
  /\ Lacking /\ cachedTree = "ready" /\ ~treeReadable
  /\ outcome' = "crashed"
  /\ UNCHANGED <<treeReadable, vol, cachedTree, stack, opened>>

ListsNext ==
  Make \/ Covered \/ OpenTree \/ NoTree \/ NoRecord \/ More \/ Abort \/ Crash

ListsSpec == ListsInit /\ [][ListsNext]_listsVars

\* Calls run to their end; that a caller opens a fork is not promised.
FairListsSpec == ListsSpec /\ WF_listsVars(stack # <<>> /\ ListsNext)

-----------------------------------------------------------------------------
(***************************************************************************)
(* Properties                                                              *)
(***************************************************************************)

Lists == {opened[i].list : i \in DOMAIN opened} \cup {stack[i].list : i \in DOMAIN stack}

Numbered(list) ==
  \A i \in DOMAIN list : list[i].logicalStart = Total(SubSeq(list, 1, i - 1))

\* In every list, each extent begins where the one before it ends: no logical
\* block is missing and none is in two extents, so a lookup has one answer.
Contiguous == \A list \in Lists : Numbered(list)

\* The count that decides whether to look for more is that of the list.
BlocksAreListed == \A i \in DOMAIN stack : stack[i].blocks = Total(stack[i].list)

\* The elements of a sequence that are in a set, in their order.
Within(s, S) ==
  LET kept[n \in 0..Len(s)] ==
        IF n = 0 THEN <<>>
        ELSE IF s[n] \in S THEN Append(kept[n - 1], s[n]) ELSE kept[n - 1]
  IN kept[Len(s)]

\* The overflow records of a fork, in key order.
RecordsOf(f) ==
  Within(vol.records, [cnid : {f.cnid}, startBlock : Nat, extents : ExtentRecord])

\* The descriptors of a fork up to its overflow record n.
Joined(f) ==
  LET joined[n \in 0..Len(RecordsOf(f))] ==
        IF n = 0 THEN f.extents ELSE joined[n - 1] \o RecordsOf(f)[n].extents
  IN joined

Descriptors(f) == Joined(f)[Len(RecordsOf(f))]

\* The tree has exactly the rest of the fork: its keys are in order, each record
\* of the fork begins at the block the one before it ends at and is full unless it
\* is the last, and together they have all blocks.
Described(f) ==
  /\ \A i, j \in DOMAIN vol.records : i < j => Less(Key(i), Key(j))
  /\ Total(Descriptors(f)) = f.totalBlocks
  /\ \A n \in DOMAIN RecordsOf(f) :
       /\ RecordsOf(f)[n].startBlock = Total(Joined(f)[n - 1])
       /\ n < Len(RecordsOf(f)) => Last(RecordsOf(f)[n].extents).blockCount > 0

Disk(list) ==
  [i \in DOMAIN list |-> [startBlock |-> list[i].startBlock, blockCount |-> list[i].blockCount]]

InUse(descriptors) == Within(descriptors, [startBlock : Nat, blockCount : Nat \ {0}])

\* A fork whose records are all there has all its extents, in order, whichever
\* fork was opened first, unless nodes cannot be read.
ListsComplete ==
  treeReadable =>
    \A i \in DOMAIN opened :
      Described(opened[i].fork) => Disk(opened[i].list) = InUse(Descriptors(opened[i].fork))

\* Every call for a fork returns or ends the program.
CallsEnd == (stack # <<>>) ~> (stack = <<>> \/ outcome # "running")
=============================================================================
