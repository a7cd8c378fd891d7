--------------------------- MODULE PartitionTree ---------------------------
(***************************************************************************)
(* The tree of volumes: volumes_load (volumes/volumes.c) with the          *)
(* partition maps it tries (gpt.c, apm.c, corestorage.c, mbr.c) and        *)
(* vol_make_partition, then hfsplus_find and hfs_open (hfs/hfs.c), and     *)
(* vol_close (volumes/volume.c), in the order hfsinspect.c calls them.     *)
(*                                                                         *)
(* Offsets and lengths count units of 512 bytes.  A disk gives the block   *)
(* at each place that holds something:                                     *)
(*   [kind |-> "boot", entries]     an MBR with its four entries           *)
(*   [kind |-> "gpt", valid, entries]  a GPT header and its entries; valid *)
(*                                  is what both checksums say             *)
(*   [kind |-> "apm", count, start, length]  one entry of an Apple map     *)
(*   [kind |-> "cs"]                a Core Storage header                  *)
(*   [kind |-> "fs", type]          an HFS or HFS+ volume header           *)
(* Every descriptor is a dup of the device's, so the number that may be    *)
(* open is what bounds a map that contains itself.                         *)
(***************************************************************************)
EXTENDS Integers, Sequences, SequencesExt, FiniteSetsExt

CONSTANTS
  Disks,
  MaxDescriptors   \* how many more files the process may open

ASSUME DescriptorsAssumption == MaxDescriptors \in Nat

\* The entries of a GPT are an array.
ASSUME DisksAssumption ==
  \A d \in Disks : \A p \in DOMAIN d :
    d[p].kind = "gpt" => d[p].entries \in Seq(Range(d[p].entries))

VARIABLES
  disk,
  vols,         \* the volumes, in the order of their creation; 1 is the device
  calls,        \* of volumes_load and then of hfsplus_find, the deepest last
  phase,        \* "load", "table", "find", "open", "close", "ended" or "crashed"
  found         \* the volume hfsplus_find returned; 0 is NULL

treeVars == <<disk, vols, calls, phase, found>>

-----------------------------------------------------------------------------
(***************************************************************************)
(* Reading a volume                                                        *)
(***************************************************************************)

Blank == [kind |-> "blank"]

\* vol_read of the block at x of volume v: nothing outside its window, and no
\* window when its length is 0.
BlockAt(v, x) ==
  IF (v.length = 0 \/ x < v.length) /\ v.offset + x \in DOMAIN disk
  THEN disk[v.offset + x] ELSE Blank

\* The GPT header is at sector 1, or where a protective entry says.
FirstLba(v) ==
  LET boot == BlockAt(v, 0) IN
  IF boot.kind = "boot" /\ boot.entries[1].type = "protective"
  THEN boot.entries[1].first ELSE 1

\* The sector sizes that lead to something signed as a GPT header, and to
\* something signed as the first entry of an Apple map.
GptSizes(v) == {s \in {1, 2, 4, 8} : BlockAt(v, s * FirstLba(v)).kind = "gpt"}
ApmSizes(v) == {s \in {1, 2, 4} : BlockAt(v, s).kind = "apm"}

Gpt(v) == BlockAt(v, Min(GptSizes(v)) * FirstLba(v))

Schemes == <<"gpt", "apm", "cs", "mbr">>

Detected(v, scheme) ==
  CASE scheme = "gpt" -> GptSizes(v) # {} /\ Gpt(v).valid
    [] scheme = "apm" -> ApmSizes(v) # {}
    [] scheme = "cs"  -> BlockAt(v, 0).kind = "cs"
    [] scheme = "mbr" -> BlockAt(v, 0).kind = "boot"

\* The tests set the sector size of the volume, and a GPT signature sets it
\* even when the header behind it turns out to be invalid.
Tested(v, scheme) ==
  [v EXCEPT !.sector = CASE scheme = "gpt" /\ GptSizes(v) # {} -> Min(GptSizes(v))
                         [] scheme = "apm" /\ ApmSizes(v) # {} -> Min(ApmSizes(v))
                         [] OTHER -> @]

\* A partition as vol_make_partition makes it, from the sectors of its entry.
Partition(v, first, count, type) ==
  [ offset |-> first * v.sector, length |-> count * v.sector, sector |-> v.sector,
    type |-> type, parts |-> <<>>, count |-> 0 ]

\* mbr_load: every entry with a type, in its own slot, so there may be gaps.
MbrTable(v) ==
  LET es == BlockAt(v, 0).entries
  IN  [i \in {j \in 1..4 : es[j].type # "none"} |->
         Partition(v, es[i].first, es[i].count, es[i].type)]

\* apm_get_header.  The entries of a disk lie within its volumes: past the end
\* the read leaves the entry before in the header, to be swapped back.
ApmEntry(v, i) ==
  LET b == BlockAt(v, i * v.sector) IN
  IF b.kind = "apm" THEN b ELSE [count |-> 0, start |-> 0, length |-> 0]

\* apm_load: entry i + 1 is read when its number is less than the count in
\* entry i, which leaves the last one out.
ApmTable(v) ==
  LET last == Max({i \in 1..MaxDescriptors + 1 :
                     \A j \in 1..(i - 1) : j + 1 < ApmEntry(v, j).count})
  IN  [i \in 1..last |-> Partition(v, ApmEntry(v, i).start, ApmEntry(v, i).length, "data")]

\* gpt_load: the entries before the first empty one, the last sector of each
\* not counted.
GptTable(v) ==
  LET es == Gpt(v).entries
  IN  [i \in {j \in DOMAIN es : \A k \in 1..j : es[k].first # 0 \/ es[k].last # 0} |->
         Partition(v, es[i].first, es[i].last - es[i].first, es[i].type)]

Table(v, scheme) ==
  CASE scheme = "gpt" -> GptTable(v)
    [] scheme = "apm" -> ApmTable(v)
    [] scheme = "mbr" -> MbrTable(v)

IsMap(type) == type \in {"map", "protective"}

-----------------------------------------------------------------------------
(***************************************************************************)
(* volumes_load                                                            *)
(***************************************************************************)

\* A call of volumes_load: the scheme it tests, or 5 for the loop over nested
\* maps with the index of that loop.  hfsplus_find has the same loop.
LoadCall(v) == [vol |-> v, step |-> 1, next |-> 1]
FindCall(v) == [vol |-> v, step |-> 0, next |-> 1]

Current == Last(calls)
Volume == vols[Current.vol]
Scheme == Schemes[Current.step]
WithCurrent(call) == Append(Front(calls), call)

TreeInit ==
  /\ disk \in Disks
  /\ vols = << [ offset |-> 0, length |-> Max(DOMAIN disk) + 1, sector |-> 1, type |-> "unknown",
                 parts |-> <<>>, count |-> 0 ] >>
  /\ calls = <<LoadCall(1)>>
  /\ phase = "load"
  /\ found = 0

\* The volume has no map of this scheme, or one that cannot be loaded.
NextScheme ==
  /\ phase = "load" /\ Current.step < 5
  /\ ~Detected(Volume, Scheme) \/ Scheme = "cs"
  /\ vols' = [vols EXCEPT ![Current.vol] = Tested(@, Scheme)]
  /\ calls' = WithCurrent([Current EXCEPT !.step = @ + 1])
  /\ UNCHANGED <<disk, phase, found>>

Available == MaxDescriptors + 1 - Len(vols)

AsMap(v, parts, count) == [v EXCEPT !.type = "map", !.parts = parts, !.count = count]

\* How many slots of the table are used up to slot i.
Rank(table, i) == Cardinality({j \in DOMAIN table : j <= i})

\* vol_make_partition for the slots of a table: the new volumes are linked in
\* the slots, and the count of the parent is how many there are.
WithPartitions(table) ==
  LET count == Cardinality(DOMAIN table)
      parts == [i \in DOMAIN table |-> Len(vols) + Rank(table, i)]
  IN  [vols EXCEPT ![Current.vol] = AsMap(@, parts, count)]
      \o [k \in 1..count |-> table[CHOOSE i \in DOMAIN table : Rank(table, i) = k]]

\* A test has set the sector size before the table is read, so this is a step
\* of its own: the map is found, and the step after it loads the partitions.
Detect ==
  /\ phase = "load" /\ Current.step < 5
  /\ Detected(Volume, Scheme) /\ Scheme # "cs"
  /\ vols' = [vols EXCEPT ![Current.vol] = Tested(@, Scheme)]
  /\ phase' = "table"
  /\ UNCHANGED <<disk, calls, found>>

Entries == Table(Volume, Scheme)
Fits == Cardinality(DOMAIN Entries) <= Available

MutantLoadCountsSlots ==
  /\ phase = "table" /\ Fits
  /\ vols' = [WithPartitions(Entries) EXCEPT ![Current.vol].count = @ + 1]
  /\ calls' = WithCurrent([Current EXCEPT !.step = 5])
  /\ phase' = "load"
  /\ UNCHANGED <<disk, found>>

Load ==
  /\ phase = "table" /\ Fits
  /\ vols' = WithPartitions(Entries)
  /\ calls' = WithCurrent([Current EXCEPT !.step = 5])
  /\ phase' = "load"
  /\ UNCHANGED <<disk, found>>

\* No descriptor is left for the last partitions: gpt_load goes on without them,
\* while apm_load and mbr_load use the volume they did not get.
LoadPart ==
  /\ phase = "table" /\ ~Fits
  /\ IF Scheme = "gpt"
     THEN /\ vols' = WithPartitions([i \in 1..Available |-> Entries[i]])
          /\ calls' = WithCurrent([Current EXCEPT !.step = 5])
          /\ phase' = "load"
     ELSE /\ phase' = "crashed"
          /\ UNCHANGED <<vols, calls>>
  /\ UNCHANGED <<disk, found>>

\* The slot the loop over the partitions looks at; 0 when it is empty.  The
\* loop ends at the number of partitions, also when their slots have gaps.
Slot == IF Current.next \in DOMAIN Volume.parts THEN Volume.parts[Current.next] ELSE 0
More == Current.next <= Volume.count
Advanced == [Current EXCEPT !.next = @ + 1]

MutantNestKeepsIndex ==
  /\ phase = "load" /\ Current.step = 5 /\ More
  /\ calls' = IF Slot # 0 /\ IsMap(vols[Slot].type) THEN Append(calls, LoadCall(Slot)) ELSE WithCurrent(Advanced)
  /\ UNCHANGED <<disk, vols, phase, found>>

MutantNestStopsAfterMap ==
  /\ phase = "load" /\ Current.step = 5 /\ More
  /\ calls' = IF Slot # 0 /\ IsMap(vols[Slot].type)
              THEN Append(WithCurrent([Current EXCEPT !.next = Volume.count + 1]), LoadCall(Slot))
              ELSE WithCurrent(Advanced)
  /\ UNCHANGED <<disk, vols, phase, found>>

\* A partition that may be a map is loaded in turn, after all of its siblings
\* have been made.
Nest ==
  /\ phase = "load" /\ Current.step = 5 /\ More
  /\ calls' = IF Slot # 0 /\ IsMap(vols[Slot].type)
              THEN Append(WithCurrent(Advanced), LoadCall(Slot))
              ELSE WithCurrent(Advanced)
  /\ UNCHANGED <<disk, vols, phase, found>>

\* When the last call ends, the main program looks for a file system.
Loaded ==
  /\ phase = "load" /\ Current.step = 5 /\ ~More
  /\ calls' = IF Len(calls) > 1 THEN Front(calls) ELSE <<FindCall(1)>>
  /\ phase' = IF Len(calls) > 1 THEN "load" ELSE "find"
  /\ UNCHANGED <<disk, vols, found>>

-----------------------------------------------------------------------------
(***************************************************************************)
(* hfsplus_find, hfs_open, vol_close                                       *)
(***************************************************************************)

\* hfs_test.  hfsplus_find tests the bits of its result, and all the types
\* share some, so any of them matches.
hfs_test(v) == LET b == BlockAt(v, 2) IN IF b.kind = "fs" THEN b.type ELSE "unknown"
IsMatch(v) == hfs_test(v) # "unknown"

\* The volume of the call has a file system, so the search is over.
Match ==
  /\ phase = "find" /\ Current.step = 0
  /\ IsMatch(Volume)
  /\ found' = Current.vol
  /\ phase' = "open"
  /\ calls' = <<>>
  /\ UNCHANGED <<disk, vols>>

NoMatch ==
  /\ phase = "find" /\ Current.step = 0
  /\ ~IsMatch(Volume)
  /\ calls' = WithCurrent([Current EXCEPT !.step = 1])
  /\ UNCHANGED <<disk, vols, phase, found>>

MutantDescendBackwards ==
  /\ phase = "find" /\ Current.step = 1 /\ More
  /\ LET i == Volume.count + 1 - Current.next
     IN calls' = WithCurrent(Advanced) \o IF i \in DOMAIN Volume.parts THEN <<FindCall(Volume.parts[i])>> ELSE <<>>
  /\ UNCHANGED <<disk, vols, phase, found>>

Descend ==
  /\ phase = "find" /\ Current.step = 1 /\ More
  /\ calls' = WithCurrent(Advanced) \o IF Slot # 0 THEN <<FindCall(Slot)>> ELSE <<>>
  /\ UNCHANGED <<disk, vols, phase, found>>

\* The volume has none; when it is the device, the program says so and ends.
Return ==
  /\ phase = "find" /\ Current.step = 1 /\ ~More
  /\ calls' = Front(calls)
  /\ phase' = IF Len(calls) = 1 THEN "ended" ELSE "find"
  /\ UNCHANGED <<disk, vols, found>>

\* hfs_open ends the program when the volume is plain HFS.
Open ==
  /\ phase = "open"
  /\ phase' = IF hfs_test(vols[found]) = "hfs" THEN "ended" ELSE "close"
  /\ UNCHANGED <<disk, vols, calls, found>>

Kids(v) == {vols[v].parts[i] : i \in DOMAIN vols[v].parts \cap 1..vols[v].count}

\* The volumes vol_close reaches from v.  A volume is newer than its parent.
Under(v) ==
  LET reach[n \in 0..Len(vols)] ==
        IF n = 0 THEN {v}
        ELSE reach[n - 1] \cup UNION {Kids(u) : u \in reach[n - 1]}
  IN  reach[Len(vols)]

\* vol_close counts down from the number of partitions, so that it uses an
\* empty slot below that number as a volume.
Close ==
  /\ phase = "close"
  /\ phase' = IF \A u \in Under(found) : 1..vols[u].count \subseteq DOMAIN vols[u].parts
           THEN "ended" ELSE "crashed"
  /\ UNCHANGED <<disk, vols, calls, found>>

TreeNext ==
  \/ NextScheme \/ Detect \/ Load \/ LoadPart
  \/ Nest \/ Loaded
  \/ Match \/ NoMatch \/ Descend \/ Return
  \/ Open \/ Close

TreeSpec == TreeInit /\ [][TreeNext]_treeVars

\* One thread that waits for nothing but its reads.
FairTreeSpec == TreeSpec /\ WF_treeVars(TreeNext)

-----------------------------------------------------------------------------
(***************************************************************************)
(* Properties                                                              *)
(***************************************************************************)

\* The used entries of every MBR come before the unused ones.
Gapless ==
  \A p \in DOMAIN disk : disk[p].kind = "boot" =>
    \A i, j \in 1..4 : i < j /\ disk[p].entries[j].type # "none" => disk[p].entries[i].type # "none"

\* The slots that lead from the device to each volume; a parent is older.
Path ==
  LET path[v \in DOMAIN vols] ==
        IF v = 1 THEN <<>>
        ELSE LET at == CHOOSE at \in (1..v - 1) \X (1..MaxDescriptors + 4) :
                         at[2] \in DOMAIN vols[at[1]].parts /\ vols[at[1]].parts[at[2]] = v
             IN  Append(path[at[1]], at[2])
  IN  path

Before(p, q) ==
  \/ Len(p) < Len(q) /\ \A i \in DOMAIN p : p[i] = q[i]
  \/ \E i \in DOMAIN p \cap DOMAIN q : p[i] < q[i] /\ \A j \in 1..(i - 1) : p[j] = q[j]

\* hfs.c:148: hfsplus_find returns the first volume in the tree, in the order of
\* the partitions and a volume before its own, that hfs_test recognises; with
\* gaps in an MBR it misses those in the last slots.
FindIsFirst ==
  phase = "open" /\ Gapless =>
    \A v \in DOMAIN vols : IsMatch(vols[v]) => v = found \/ Before(Path[found], Path[v])

\* What the maps of a disk designate, straight from the tables and without the
\* calls: the device and, for each volume that may be a map, its partitions.
PartsOf(v) ==
  LET tested(i) == IF i = 1 THEN Tested(v, "gpt") ELSE Tested(Tested(v, "gpt"), "apm")
      schemes == {i \in 1..4 : i # 3 /\ Detected(v, Schemes[i])}
  IN  IF schemes = {} THEN {} ELSE Range(Table(tested(Min(schemes)), Schemes[Min(schemes)]))

Designated ==
  LET reach[n \in 0..MaxDescriptors] ==
        IF n = 0 THEN {[vols[1] EXCEPT !.sector = 1, !.type = "map", !.parts = <<>>, !.count = 0]}
        ELSE reach[n - 1] \cup UNION {PartsOf(v) : v \in {u \in reach[n - 1] : IsMap(u.type)}}
  IN  reach[MaxDescriptors]

\* The program says that there is no file system only when none of the volumes
\* the maps designate, nested ones included, has one.  Out of its reach are the
\* last entry of an Apple map, slots after a gap, and what no descriptor is left
\* for.
NothingOverlooked ==
  phase = "ended" /\ found = 0 /\ Gapless /\ Available > 0 =>
    \A v \in Designated : ~IsMatch(v)

\* vol_close ends without using an empty slot, unless an MBR has gaps.
ClosesCleanly == phase = "crashed" /\ found # 0 => ~Gapless

\* Loading ends, also when a map contains itself: by the number of descriptors.
LoadEnds == <>(phase \notin {"load", "table"})
=============================================================================
