------------------------------ MODULE Session ------------------------------
(***************************************************************************)
(* One run of the program: main (hfsinspect.c), from the options to the    *)
(* clean exit.  It composes the operations: the commands about the catalog *)
(* (Catalog) and the volume summary (Summary) take their own steps here,   *)
(* one after the other in the order of main; the free space report and the *)
(* printing of headers and nodes are single steps.                         *)
(*                                                                         *)
(* options is what the command line asks for: [mode, path, parent, name,   *)
(* cnid, tree, slash], where mode is the set of the bits that are set and  *)
(* slash says whether the output path has more than one component.         *)
(*                                                                         *)
(* world is what the program meets:                                        *)
(*   device, open     how the device is named ("disk" is below /dev/disk), *)
(*                    and what opening it by each name comes to            *)
(*   fs               "none", "refused" by hfs_open, or "hfsplus"          *)
(*   euid, libc       who runs the program, and with whose dirname()       *)
(*   owner            whose the directory of the output path is, "missing" *)
(*                    when there is none                                   *)
(*   target           what is at the output path                           *)
(*   special          the special files of the volume with a length        *)
(*   journal          what the volume header and the journal info block    *)
(*                    say: "no", "unset", "inFS" or "elsewhere"            *)
(***************************************************************************)
EXTENDS Summary

CONSTANTS
  Sessions,    \* [catalog, options, world]
  NameOf       \* the names of the three files in the root folder

\* A catalog has a leaf, where the records lie one after the other; a path has a
\* segment; and what is known of the files is known of those in the catalog.
ASSUME SessionsAssumption ==
  \A s \in Sessions :
    /\ s.catalog.leaves \in Seq(Seq(CatalogRecords)) \ {<<>>}
    /\ s.options.path \in Seq(Nat) \ {<<>>}
    /\ \A n \in DOMAIN s.catalog.leaves : \A r \in Range(s.catalog.leaves[n]) :
         r.type = "file" => r.id \in DOMAIN FileInfo

VARIABLES
  options, world,
  at,          \* the place in main
  k,           \* the lookup of the yank, later the request
  device,      \* options.device_path
  euid,
  out,         \* the files written: [file, holds, by]; holds is a CNID
  record,      \* catalogRecord, by the CNID of its file
  tree         \* options.tree

mainVars == <<options, world, at, k, device, euid, out, record, tree>>
catalogVars == <<catalog, command, pc, i, parentID, spec, node, recordID, rows>>
allVars == <<mainVars, catalogVars, summaryVars>>

SessionInit ==
  /\ \E s \in Sessions : catalog = s.catalog /\ options = s.options /\ world = s.world
  /\ at = "options" /\ k = 0
  /\ device = world.device
  /\ euid = world.euid
  /\ out = {}
  /\ record = 0
  /\ tree = "none"
  /\ CatalogInit
  /\ SummaryInit

\* What every step of main leaves alone.
Given == UNCHANGED <<options, world>>
Elsewhere == UNCHANGED <<catalogVars, summaryVars>>

Exit == at' = "exited"
Crash == at' = "crashed"

-----------------------------------------------------------------------------
(***************************************************************************)
(* Options and device                                                      *)
(***************************************************************************)

\* -F needs a parent, -P an absolute path: the first segment is empty.
Usage ==
  /\ at = "options"
  /\ \/ "fsspec" \in options.mode /\ options.parent = 0
     \/ "path" \in options.mode /\ Head(options.path) # 0
  /\ Exit
  /\ UNCHANGED <<k, device, euid, out, record, tree>> /\ Given /\ Elsewhere

Options ==
  /\ at = "options"
  /\ "fsspec" \in options.mode => options.parent # 0
  /\ "path" \in options.mode => Head(options.path) = 0
  /\ at' = "open"
  /\ UNCHANGED <<k, device, euid, out, record, tree>> /\ Given /\ Elsewhere

OpenDevice ==
  /\ at = "open" /\ world.open[device] = "ok"
  /\ at' = "find"
  /\ UNCHANGED <<k, device, euid, out, record, tree>> /\ Given /\ Elsewhere

\* A busy disk is tried again by its raw name, which does not match again.
OpenRaw ==
  /\ at = "open" /\ world.open[device] = "busy"
  /\ device = "disk"
  /\ device' = "rdisk"
  /\ UNCHANGED <<at, k, euid, out, record, tree>> /\ Given /\ Elsewhere

OpenFails ==
  /\ at = "open"
  /\ world.open[device] = "error" \/ (world.open[device] = "busy" /\ device # "disk")
  /\ Exit
  /\ UNCHANGED <<k, device, euid, out, record, tree>> /\ Given /\ Elsewhere

\* volumes_load or volumes_dump, hfsplus_find and hfs_open: see PartitionTree.
Find ==
  /\ at = "find"
  /\ IF world.fs = "hfsplus" THEN at' = "drop" ELSE Exit
  /\ UNCHANGED <<k, device, euid, out, record, tree>> /\ Given /\ Elsewhere

-----------------------------------------------------------------------------
(***************************************************************************)
(* The output path and the privileges                                      *)
(***************************************************************************)

Outputs == options.mode \cap {"output", "yank"} # {}

\* dirname() of glibc ends its argument at the last slash, and so does this
\* to options.extract_path, from which everything below takes it.
Truncated == world.libc = "glibc" /\ options.slash

OutputTarget == IF Truncated THEN "directory" ELSE world.target
CanWrite == euid = "root" \/ euid = world.owner

MutantDropOnlyWithoutOutput ==
  /\ at = "drop" /\ ~(Outputs /\ world.owner = "missing")
  /\ euid' = IF euid = "root" /\ ~Outputs THEN "nobody" ELSE euid
  /\ at' = IF "yank" \in options.mode THEN "yank" ELSE "info"
  /\ UNCHANGED <<k, device, out, record, tree>> /\ Given /\ Elsewhere

\* root becomes the owner of the directory it writes to, else user 99.
Drop ==
  /\ at = "drop" /\ ~(Outputs /\ world.owner = "missing")
  /\ euid' = IF euid # "root" THEN euid ELSE IF Outputs THEN world.owner ELSE "nobody"
  /\ at' = IF "yank" \in options.mode THEN "yank" ELSE "info"
  /\ UNCHANGED <<k, device, out, record, tree>> /\ Given /\ Elsewhere

NoDirectory ==
  /\ at = "drop" /\ Outputs /\ world.owner = "missing"
  /\ Exit
  /\ UNCHANGED <<k, device, euid, out, record, tree>> /\ Given /\ Elsewhere

-----------------------------------------------------------------------------
(***************************************************************************)
(* Yank                                                                    *)
(***************************************************************************)

HeaderBlocks == -1

\* The forks of the volume header, by the CNIDs of the special files.
SpecialFiles ==
  << [file |-> "extents.btree", holds |-> 3], [file |-> "catalog.btree", holds |-> 4],
     [file |-> "allocation.bmap", holds |-> 6], [file |-> "startupFile", holds |-> 7],
     [file |-> "attributes.btree", holds |-> 8] >>

Header == [file |-> "header.block", holds |-> HeaderBlocks]

Written(files) == {[file |-> f.file, holds |-> f.holds, by |-> euid] : f \in files}

\* What cannot be made a directory ends the program (with status 0); a header
\* file that cannot be created is a null stream, which is written to.
YankBlocked ==
  /\ at = "yank"
  /\ \/ OutputTarget = "absent" /\ ~CanWrite /\ Exit
     \/ OutputTarget = "file" /\ Crash
     \/ OutputTarget = "directory" /\ ~CanWrite /\ Crash
  /\ UNCHANGED <<k, device, euid, out, record, tree>> /\ Given /\ Elsewhere

HasLength(f) == f.holds \in world.special

MutantYankForksUpToEmpty ==
  /\ at = "yank" /\ OutputTarget # "file" /\ CanWrite
  /\ out' = Written({Header} \cup {SpecialFiles[n] : n \in {m \in 1..5 : \A l \in 1..m : HasLength(SpecialFiles[l])}})
  /\ at' = "lookup" /\ k' = 1
  /\ UNCHANGED <<device, euid, record, tree>> /\ Given /\ Elsewhere

\* The header blocks, and each special file that is not empty.
YankForks ==
  /\ at = "yank" /\ OutputTarget # "file" /\ CanWrite
  /\ out' = Written({Header} \cup {f \in Range(SpecialFiles) : HasLength(f)})
  /\ at' = "lookup" /\ k' = 1
  /\ UNCHANGED <<device, euid, record, tree>> /\ Given /\ Elsewhere

CatalogFiles == <<"hotfiles.btree", "journal.block", "journal.buf">>

\* HFSPlusGetCatalogInfoByPath for "/" and the name.
BeginLookup ==
  /\ at = "lookup"
  /\ Give([op |-> "path", path |-> <<0, NameOf[CatalogFiles[k]]>>, parent |-> 0, name |-> 0, list |-> FALSE])
  /\ at' = "looking"
  /\ UNCHANGED <<k, device, euid, out, record, tree, summaryVars>> /\ Given

Looking ==
  /\ at = "looking" /\ LookupStep
  /\ UNCHANGED <<mainVars, summaryVars>>

AfterLookup ==
  IF k < Len(CatalogFiles) THEN at' = "lookup" /\ k' = k + 1 ELSE at' = "info" /\ k' = 0

\* 0 says that the path was found.  It is taken for "not found": the record is
\* kept, and nothing extracted.
LookupFound ==
  /\ at = "looking" /\ pc = "show"
  /\ record' \in {r.id : r \in Found(spec)}
  /\ AfterLookup
  /\ UNCHANGED <<device, euid, out, tree>> /\ Given /\ Elsewhere

\* And without the file, the fork of the record that is there is extracted: of
\* the one found last, or an empty one.
LookupMissing ==
  /\ at = "looking" /\ pc = "missing"
  /\ out' = out \cup Written({[file |-> CatalogFiles[k], holds |-> record]})
  /\ AfterLookup
  /\ UNCHANGED <<device, euid, record, tree>> /\ Given /\ Elsewhere

-----------------------------------------------------------------------------
(***************************************************************************)
(* The requests, in the order of main                                      *)
(***************************************************************************)

Requests ==
  << "summary", "volumeheader", "journal", "freespace", "path", "fsspec", "cnid",
     "btree", "node", "output" >>

\* Only with no option at all is the volume header the default.
Wanted == IF options.mode = {} THEN {"volumeheader"} ELSE options.mode
Remaining(n) == {m \in n + 1..Len(Requests) : Requests[m] \in Wanted}

\* On to the next request, or to the end.
Proceed ==
  IF Remaining(k) = {} THEN at' = "done" /\ UNCHANGED k
  ELSE at' = "request" /\ k' = Min(Remaining(k))

Finish == at' = "done" /\ UNCHANGED k

AtRequest(names) == at = "request" /\ Requests[k] \in names

\* PrintVolumeInfo, which begins with the name of the root folder.
Info ==
  /\ at = "info"
  /\ IF Below(<<kHFSRootFolderID, 0>>) THEN Crash /\ UNCHANGED k ELSE Proceed
  /\ UNCHANGED <<device, euid, out, record, tree>> /\ Given /\ Elsewhere

ShowStored ==
  /\ AtRequest({"volumeheader", "freespace"})
  /\ Proceed
  /\ UNCHANGED <<device, euid, out, record, tree>> /\ Given /\ Elsewhere

\* A journal on another device has no header here, and that ends the program.
Journal ==
  /\ AtRequest({"journal"})
  /\ IF world.journal = "elsewhere" THEN Exit /\ UNCHANGED k ELSE Proceed
  /\ UNCHANGED <<device, euid, out, record, tree>> /\ Given /\ Elsewhere

Summarise ==
  /\ AtRequest({"summary"})
  /\ BeginSummary
  /\ at' = "summary"
  /\ UNCHANGED <<k, device, euid, out, record, tree, catalogVars>> /\ Given

Summarising ==
  /\ at = "summary" /\ SummaryStep
  /\ UNCHANGED <<mainVars, catalogVars>>

SummaryEnds ==
  /\ at = "summary"
  /\ \/ SummaryDone /\ Proceed
     \/ SummaryDies /\ Exit /\ UNCHANGED k
  /\ UNCHANGED <<device, euid, out, record, tree>> /\ Given /\ Elsewhere

CommandFor(request) ==
  LET list == "list" \in options.mode IN
  CASE request = "path" -> [op |-> "path", path |-> options.path, parent |-> 0, name |-> 0, list |-> list]
    [] request = "fsspec" -> [op |-> "spec", path |-> <<>>, parent |-> options.parent, name |-> options.name, list |-> list]
    [] OTHER -> [op |-> "cnid", path |-> <<>>, parent |-> options.cnid, name |-> 0, list |-> list]

BeginCommand ==
  /\ AtRequest({"path", "fsspec", "cnid"})
  /\ Give(CommandFor(Requests[k]))
  /\ at' = "command"
  /\ UNCHANGED <<k, device, euid, out, record, tree, summaryVars>> /\ Given

Commanding ==
  /\ at = "command" /\ (LookupStep \/ ShowStep \/ ListStep)
  /\ UNCHANGED <<mainVars, summaryVars>>

\* What is not found is reported, and the program goes on.
CommandEnds ==
  /\ at = "command" /\ pc \in {"shown", "missing"}
  /\ Proceed
  /\ UNCHANGED <<device, euid, out, record, tree>> /\ Given /\ Elsewhere

CatalogCrashes ==
  /\ at \in {"command", "looking"} /\ pc = "crashed"
  /\ Crash
  /\ UNCHANGED <<k, device, euid, out, record, tree>> /\ Given /\ Elsewhere

HotFiles == <<kHFSRootFolderID, NameOf["hotfiles.btree"]>>

\* loadBTree, and the printing of one node.  The tree of hot files is looked up
\* in the catalog; the others are made from the volume header.
PrintTree ==
  /\ AtRequest({"btree", "node"})
  /\ IF options.tree = "hotfiles" /\ Found(HotFiles) = {}
     THEN Exit /\ UNCHANGED <<k, tree>>
     ELSE tree' = options.tree /\ Proceed
  /\ UNCHANGED <<device, euid, out, record>> /\ Given /\ Elsewhere

TreeFile == CASE tree = "extents" -> 3 [] tree = "catalog" -> 4 [] OTHER -> 8

\* A tree was printed, and its fork can be extracted to the output path.
OutputTree ==
  /\ AtRequest({"output"}) /\ tree \in {"extents", "catalog", "attributes"}
  /\ IF OutputTarget # "directory" /\ "yank" \notin options.mode /\ CanWrite
     THEN out' = out \cup Written({[file |-> "output", holds |-> TreeFile]}) /\ Finish
     ELSE Exit /\ UNCHANGED <<k, out>>
  /\ UNCHANGED <<device, euid, record, tree>> /\ Given /\ Elsewhere

\* hfsplus_get_special_fork knows no fork for the tree of hot files, and leaves
\* the pointer to it as it was: null, or anything else.
OutputHotFiles ==
  /\ AtRequest({"output"}) /\ tree = "hotfiles"
  /\ Finish \/ (Crash /\ UNCHANGED k)
  /\ UNCHANGED <<device, euid, out, record, tree>> /\ Given /\ Elsewhere

\* Without a tree nothing is extracted, whatever path was shown.
OutputNothing ==
  /\ AtRequest({"output"}) /\ tree = "none"
  /\ Finish
  /\ UNCHANGED <<device, euid, out, record, tree>> /\ Given /\ Elsewhere

SessionNext ==
  \/ Usage \/ Options \/ OpenDevice \/ OpenRaw \/ OpenFails \/ Find
  \/ Drop \/ NoDirectory
  \/ YankBlocked \/ YankForks \/ BeginLookup \/ Looking \/ LookupFound \/ LookupMissing
  \/ Info \/ ShowStored \/ Journal
  \/ Summarise \/ Summarising \/ SummaryEnds
  \/ BeginCommand \/ Commanding \/ CommandEnds \/ CatalogCrashes
  \/ PrintTree \/ OutputTree \/ OutputHotFiles \/ OutputNothing

\* One thread that waits for nothing but its reads.
SessionSpec == SessionInit /\ [][SessionNext]_allVars /\ WF_allVars(SessionNext)

-----------------------------------------------------------------------------
(***************************************************************************)
(* Properties                                                              *)
(***************************************************************************)

\* The forks that a yanked file may hold: its own, or none.
Own(file) ==
  {0} \cup {f.holds : f \in {g \in Range(SpecialFiles) \cup {Header} : g.file = file}}
      \cup {r.id : r \in {s \in Records : file \in Range(CatalogFiles) /\ KeyOf(s) = <<kHFSRootFolderID, NameOf[file]>>}}

\* The fork of a file of the catalog found before, under the name of a later one
\* that is not found there: it is not in the catalog, or its leaf cannot be loaded.
Stale(o) ==
  \E m, n \in DOMAIN CatalogFiles :
    /\ m < n /\ CatalogFiles[n] = o.file
    /\ o.holds # 0 /\ o.holds \in Own(CatalogFiles[m])
    /\ Found(<<kHFSRootFolderID, NameOf[CatalogFiles[n]]>>) = {}

\* A yanked file never holds the fork of another one, apart from the ones that
\* are Stale, and once the yank is over, each special file with a length is
\* among them.
YankHoldsItsForks ==
  /\ \A o \in out : o.file # "output" => o.holds \in Own(o.file) \/ Stale(o)
  /\ "yank" \in options.mode /\ at \in {"info", "request", "done"} =>
       \A f \in Range(SpecialFiles) : HasLength(f) => \E o \in out : o.file = f.file

\* Whatever is written by a program that root started belongs to the owner of
\* the directory it is written to.
WrittenByOwner ==
  \A o \in out : world.euid = "root" => o.by = world.owner

\* The excuses for a crash: a key below all keys, a directory that cannot be
\* written to, the fork of the hot files.
Excused ==
  \/ pc = "crashed" /\ Below(spec)
  \/ "yank" \in options.mode /\ (OutputTarget = "file" \/ ~CanWrite)
  \/ tree = "hotfiles" /\ "output" \in options.mode

\* About a sound catalog every session ends, and without a crash that has no
\* excuse.
SessionEnds ==
  Sound => <>(at \in {"done", "exited"} \/ (at = "crashed" /\ Excused))
=============================================================================
