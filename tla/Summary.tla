------------------------------ MODULE Summary ------------------------------
(***************************************************************************)
(* The volume summary: generateVolumeSummary and generateForkSummary       *)
(* (operations/hfs_summary.c), one pass over the leaves of the catalog.    *)
(*                                                                         *)
(* What a catalog record says of its file is FileInfo[cnid], a record      *)
(* [marks, data, rsrc]: marks is the set of what its Finder information    *)
(* marks it as, a fork is [size, blocks, inRecord, extents], where         *)
(* inRecord counts the descriptors in the catalog record and extents the   *)
(* ones of the list that hfsfork_make builds.  Valence[cnid] is what a     *)
(* folder's record says of the number of its children.                     *)
(***************************************************************************)
EXTENDS Catalog

CONSTANTS
  FileInfo,
  Valence,
  Density,     \* kHFSPlusExtentDensity
  RankCount    \* the length of largestFiles

\* The data of the forks in a catalog record is of the types of their fields.
ForkInfo == [size : Nat, blocks : Nat, inRecord : Nat, extents : Nat]

ASSUME RankAssumption == RankCount \in Nat \ {0}
ASSUME DensityAssumption == Density \in Nat \ {0}

VARIABLES
  leaf,        \* the leaf that is read, 0 when there is no summary
  rec,         \* the record in it, 0 before it is loaded
  summary,
  largestFiles

summaryVars == <<leaf, rec, summary, largestFiles>>

-----------------------------------------------------------------------------

\* Only the first mark counts, in this order.
Marks == <<"hardLink", "folderLink", "symLink", "alias", "invisible">>

Kind(file) ==
  IF file.marks # {} THEN Marks[Min({m \in DOMAIN Marks : Marks[m] \in file.marks})]
  ELSE IF file.data.size = 0 /\ file.rsrc.size = 0 THEN "empty" ELSE "counted"

ASSUME FilesAssumption ==
  \A id \in DOMAIN FileInfo : FileInfo[id] \in [marks : SUBSET Range(Marks), data : ForkInfo, rsrc : ForkInfo]

Kinds == Range(Marks) \cup {"empty", "counted"}

NoForks == [count |-> 0, fragmented |-> 0, blocks |-> 0, space |-> 0,
            descriptors |-> 0, listed |-> 0, listedRecords |-> 0]

NoSummary ==
  [nodes |-> 0, records |-> 0, folders |-> 0, emptyFolders |-> 0,
   files |-> [k \in Kinds |-> 0], data |-> NoForks, rsrc |-> NoForks]

NoRank == [measure |-> 0, cnid |-> 0]

SummaryInit ==
  /\ leaf = 0 /\ rec = 0
  /\ summary = NoSummary
  /\ largestFiles = [n \in 1..RankCount |-> NoRank]

BeginSummary ==
  /\ leaf' = 1 /\ rec' = 0
  /\ summary' = NoSummary
  /\ largestFiles' = [n \in 1..RankCount |-> NoRank]

\* generateForkSummary; an empty fork is not passed to it.  The counter of
\* overflow records counts every Density extents of the list, the ones of the
\* catalog record included.
WithFork(forks, fork) ==
  IF fork.size = 0 THEN forks
  ELSE [ count |-> forks.count + 1,
         fragmented |-> forks.fragmented + IF fork.inRecord > 1 THEN 1 ELSE 0,
         blocks |-> forks.blocks + fork.blocks,
         space |-> forks.space + fork.size,
         descriptors |-> forks.descriptors + fork.inRecord,
         listed |-> forks.listed + fork.extents,
         listedRecords |-> forks.listedRecords + fork.extents \div Density ]

Size(file) == file.data.size + file.rsrc.size

MutantRanked(rank) == {[largestFiles EXCEPT ![1] = rank]}

\* The smallest is the first.  It gives way to a larger file, and the array is
\* sorted; qsort leaves open in which order files of one size come.
Ranked(rank) ==
  LET replaced == [largestFiles EXCEPT ![1] = rank]
      orders == {p \in [1..RankCount -> 1..RankCount] : \A m, n \in 1..RankCount : m # n => p[m] # p[n]}
  IN  IF largestFiles[1].measure < rank.measure
      THEN {r \in {[n \in 1..RankCount |-> replaced[p[n]]] : p \in orders} :
              \A n \in 1..RankCount - 1 : r[n].measure <= r[n + 1].measure}
      ELSE {largestFiles}

Tallied == [summary EXCEPT !.records = @ + 1]

-----------------------------------------------------------------------------
(***************************************************************************)
(* Steps                                                                   *)
(***************************************************************************)

EnterLeaf ==
  /\ rec = 0 /\ leaf \notin catalog.lost
  /\ rec' = 1
  /\ summary' = [summary EXCEPT !.nodes = @ + 1]
  /\ UNCHANGED <<leaf, largestFiles>>

Record == catalog.leaves[leaf][rec]
AtRecord == rec \in DOMAIN catalog.leaves[leaf]

CountFile ==
  /\ AtRecord /\ Record.type = "file"
  /\ LET file == FileInfo[Record.id]
         kind == Kind(file)
         counted == [Tallied EXCEPT !.files[kind] = @ + 1]
     IN  IF kind # "counted"
         THEN summary' = counted /\ UNCHANGED largestFiles
         ELSE /\ summary' = [counted EXCEPT !.data = WithFork(@, file.data), !.rsrc = WithFork(@, file.rsrc)]
              /\ largestFiles' \in Ranked([measure |-> Size(file), cnid |-> Record.id])
  /\ rec' = rec + 1
  /\ UNCHANGED leaf

CountFolder ==
  /\ AtRecord /\ Record.type = "folder"
  /\ summary' = [Tallied EXCEPT !.folders = @ + 1, !.emptyFolders = @ + IF Valence[Record.id] = 0 THEN 1 ELSE 0]
  /\ rec' = rec + 1
  /\ UNCHANGED <<leaf, largestFiles>>

CountOther ==
  /\ AtRecord /\ Record.type \notin {"file", "folder"}
  /\ summary' = Tallied
  /\ rec' = rec + 1
  /\ UNCHANGED <<leaf, largestFiles>>

LeafDone == rec = Len(catalog.leaves[leaf]) + 1

NextLeaf ==
  /\ LeafDone /\ leaf < Len(catalog.leaves)
  /\ leaf' = leaf + 1 /\ rec' = 0
  /\ UNCHANGED <<summary, largestFiles>>

SummaryStep == EnterLeaf \/ CountFile \/ CountFolder \/ CountOther \/ NextLeaf

\* The last leaf links to node 0.
SummaryDone == LeafDone /\ leaf = Len(catalog.leaves)

\* die(), for a leaf that cannot be loaded.
SummaryDies == rec = 0 /\ leaf \in catalog.lost

\* The lines under "Largest Files": the first of the array is never printed.
Printed == {n \in 2..RankCount : largestFiles[n].cnid # 0}

-----------------------------------------------------------------------------
(***************************************************************************)
(* Properties                                                              *)
(***************************************************************************)

Files == {p \in Places : At(p).type = "file"}
Folders == {p \in Places : At(p).type = "folder"}
FileAt(p) == FileInfo[At(p).id]
OfKind(kind) == {p \in Files : Kind(FileAt(p)) = kind}
Counted == OfKind("counted")

\* The totals of the forks, "data" or "rsrc", as the numbers of those that are not
\* empty, of those in pieces and of their bytes.
ForksAddUp(which) ==
  LET fork(p) == FileAt(p)[which]
      forks == {p \in Counted : fork(p).size # 0}
  IN  /\ summary[which].count = Cardinality(forks)
      /\ summary[which].fragmented = Cardinality({p \in forks : fork(p).inRecord > 1})
      /\ summary[which].space = Cardinality(UNION {{p} \X (1..fork(p).size) : p \in forks})

\* When all leaves were read, each record has been counted once and under one
\* heading, and the totals of the forks are those of the files that are neither
\* links nor aliases nor invisible.
CountsAddUp ==
  /\ summary.nodes = Len(catalog.leaves)
  /\ summary.records = Cardinality(Places)
  /\ \A kind \in Kinds : summary.files[kind] = Cardinality(OfKind(kind))
  /\ summary.folders = Cardinality(Folders)
  /\ summary.emptyFolders = Cardinality({p \in Folders : Valence[At(p).id] = 0})
  /\ ForksAddUp("data") /\ ForksAddUp("rsrc")

\* No file that is counted and not printed is larger than one that is, unless one
\* with the CNID 0 takes a place that is not printed.
LargestArePrinted ==
  LET size(p) == Size(FileAt(p))
      cnids == {largestFiles[n].cnid : n \in Printed}
  IN  /\ \A n \in Printed : \E p \in Counted : At(p).id = largestFiles[n].cnid /\ size(p) = largestFiles[n].measure
      /\ (\A p \in Counted : At(p).id # 0) =>
           \A p \in Counted : At(p).id \notin cnids =>
             Cardinality(Printed) = RankCount - 1 /\ \A n \in Printed : size(p) <= largestFiles[n].measure

\* The summary of a catalog whose leaves can be read says what is in it.
SummaryExact ==
  leaf # 0 /\ SummaryDone => CountsAddUp /\ LargestArePrinted
=============================================================================
