------------------------------ MODULE Catalog ------------------------------
(***************************************************************************)
(* The catalog: HFSPlusGetCatalogInfoByPath and the lookups under it       *)
(* (hfs/catalog.c), showPathInfo and showCatalogRecord (operations/), and  *)
(* PrintFolderListing (hfs/output_hfs.c).                                  *)
(*                                                                         *)
(* A catalog is a record [leaves, lost, rootNode, treeDepth]: the leaf     *)
(* nodes in the order of their links, each a sequence of records, and the  *)
(* ones that cannot be loaded, unreadable or marked unused.                *)
(* A record is [parent, name, type, id, toParent, toName]; id is the CNID  *)
(* of a file or folder, toParent and toName are where a thread leads.      *)
(* Names are numbers, 0 is the empty name, and comparing keys is comparing *)
(* parent, then name.  A search finds what TreeSearch!Lands says.          *)
(*                                                                         *)
(* The module has no Next of its own: Session gives the commands, one      *)
(* after another, and takes these steps for each.                          *)
(***************************************************************************)
EXTENDS Integers, Sequences, SequencesExt, FiniteSetsExt

VARIABLES
  catalog,
  command,     \* [op, path, parent, name, list]; op is "path", "spec" or "cnid"
  pc,          \* "idle", "path", "show", "list", "shown", "missing" or "crashed"
  i,           \* the segment of the path
  parentID,
  spec,        \* the key last searched, <<parent, name>>
  node, recordID,  \* the place of the listing
  rows         \* the CNIDs it has printed

vars == <<catalog, command, pc, i, parentID, spec, node, recordID, rows>>

kHFSRootFolderID == 2

RecordTypes == {"file", "folder", "fileThread", "folderThread", "other"}
CatalogRecords == [parent : Nat, name : Nat, type : RecordTypes, id : Nat, toParent : Nat, toName : Nat]

-----------------------------------------------------------------------------

Records == UNION {Range(catalog.leaves[n]) : n \in DOMAIN catalog.leaves}
KeyOf(r) == <<r.parent, r.name>>
Less(k, l) == k[1] < l[1] \/ (k[1] = l[1] /\ k[2] < l[2])

\* Where records are: the number of the leaf, and the number in it, ordered as
\* keys are.
Places == UNION {{n} \X (DOMAIN catalog.leaves[n]) : n \in DOMAIN catalog.leaves}
At(p) == catalog.leaves[p[1]][p[2]]

\* The records a search for the key returns: the one with the key, when its
\* leaf can be loaded.
Found(key) ==
  {r \in UNION {Range(catalog.leaves[n]) : n \in DOMAIN catalog.leaves \ catalog.lost} : KeyOf(r) = key}

\* btree_search ends the program for a key below all others when the tree has
\* index nodes.
Below(key) == catalog.treeDepth > 1 /\ \A r \in Records : Less(key, KeyOf(r))

IsThread(r) == r.type \in {"fileThread", "folderThread"}

NoCommand == [op |-> "none", path |-> <<>>, parent |-> 0, name |-> 0, list |-> FALSE]

CatalogInit ==
  /\ command = NoCommand
  /\ pc = "idle"
  /\ i = 1 /\ parentID = kHFSRootFolderID
  /\ spec = <<0, 0>>
  /\ node = 0 /\ recordID = 0
  /\ rows = <<>>

Fixed == UNCHANGED <<catalog, command>>

\* The locals of the functions are new with every call of them.
Give(c) ==
  /\ command' = c
  /\ pc' = IF c.op = "path" THEN "path" ELSE "show"
  /\ i' = 1 /\ parentID' = kHFSRootFolderID
  /\ spec' = <<c.parent, c.name>>
  /\ node' = 0 /\ recordID' = 0
  /\ rows' = <<>>
  /\ UNCHANGED catalog

-----------------------------------------------------------------------------
(***************************************************************************)
(* HFSPlusGetCatalogInfoByPath                                             *)
(***************************************************************************)

Segment == command.path[i]
Searched == IF pc = "path" THEN <<parentID, Segment>> ELSE spec

\* A segment without a record.  (The empty path, which is refused, is refused
\* by both callers before.)
PathMissing ==
  /\ pc = "path"
  /\ Found(Searched) = {} /\ ~Below(Searched)
  /\ pc' = "missing"
  /\ UNCHANGED <<i, parentID, spec, node, recordID, rows>> /\ Fixed

\* Where the next segment is looked up.
Descended(r) ==
  CASE r.type = "folder" -> r.id
    [] IsThread(r) -> r.toParent
    [] OTHER -> parentID

MutantPathStepTakesEmptySegment ==
  /\ pc = "path"
  /\ \E r \in Found(Searched) :
       /\ parentID' = Descended(r)
       /\ pc' = IF i = Len(command.path) \/ r.type = "file" THEN "show" ELSE "path"
  /\ spec' = Searched
  /\ i' = i + 1
  /\ UNCHANGED <<node, recordID, rows>> /\ Fixed

\* An empty segment finds the thread of the folder and leaves the parent alone.
\* A file ends the path, whatever is left of it.  showPathInfo shows the key
\* that was found last.
PathStep ==
  /\ pc = "path"
  /\ \E r \in Found(Searched) :
       /\ parentID' = IF Segment = 0 THEN parentID ELSE Descended(r)
       /\ pc' = IF i = Len(command.path) \/ (Segment # 0 /\ r.type = "file") THEN "show" ELSE "path"
  /\ spec' = Searched
  /\ i' = i + 1
  /\ UNCHANGED <<node, recordID, rows>> /\ Fixed

\* The search ends the program.
Aborted ==
  /\ pc = "path" \/ pc = "show"
  /\ Below(Searched)
  /\ pc' = "crashed" /\ spec' = Searched
  /\ UNCHANGED <<i, parentID, node, recordID, rows>> /\ Fixed

-----------------------------------------------------------------------------
(***************************************************************************)
(* showCatalogRecord                                                       *)
(***************************************************************************)

ShowMissing ==
  /\ pc = "show"
  /\ Found(spec) = {} /\ ~Below(spec)
  /\ pc' = "missing"
  /\ UNCHANGED <<i, parentID, spec, node, recordID, rows>> /\ Fixed

MutantFollowStays ==
  /\ pc = "show" /\ command.op = "cnid"
  /\ \E r \in Found(spec) : IsThread(r)
  /\ UNCHANGED vars

\* Only a CNID follows threads, again and again while it meets one.
Follow ==
  /\ pc = "show" /\ command.op = "cnid"
  /\ \E r \in Found(spec) :
       /\ IsThread(r)
       /\ spec' = <<r.toParent, r.toName>>
  /\ UNCHANGED <<pc, i, parentID, node, recordID, rows>> /\ Fixed

Lists(r) == command.list /\ (r.type = "folder" \/ r.type = "folderThread")

\* The record itself is printed, or that its type is unknown.
Show ==
  /\ pc = "show"
  /\ \E r \in Found(spec) : ~(command.op = "cnid" /\ IsThread(r)) /\ ~Lists(r)
  /\ pc' = "shown"
  /\ UNCHANGED <<i, parentID, spec, node, recordID, rows>> /\ Fixed

FolderOf(r) == IF r.type = "folder" THEN r.id ELSE spec[1]

\* PrintFolderListing begins at the thread of the folder.  The result of the
\* search is never negative, so without a thread it uses a null node.
BeginList ==
  /\ pc = "show"
  /\ \E r \in Found(spec) :
       /\ ~(command.op = "cnid" /\ IsThread(r)) /\ Lists(r)
       /\ IF Found(<<FolderOf(r), 0>>) = {}
          THEN pc' = "crashed" /\ UNCHANGED <<node, recordID>>
          ELSE /\ pc' = "list"
               /\ \E n \in DOMAIN catalog.leaves :
                    /\ node' = n
                    /\ \E k \in DOMAIN catalog.leaves[n] :
                         /\ KeyOf(catalog.leaves[n][k]) = <<FolderOf(r), 0>>
                         /\ recordID' = k
  /\ UNCHANGED <<i, parentID, spec, rows>> /\ Fixed

-----------------------------------------------------------------------------
(***************************************************************************)
(* PrintFolderListing                                                      *)
(***************************************************************************)

\* The last leaf links to node 0, the header node.  Its first record has no key:
\* read as a catalog record, its parent is the number of the root node, and its
\* type is the depth of the tree, where 1 says folder and 2 says file.  The
\* CNID that is printed of it is of no consequence here.
HeaderNode ==
  << [ parent |-> catalog.rootNode, name |-> 0, id |-> 0, toParent |-> 0, toName |-> 0,
       type |-> CASE catalog.treeDepth = 1 -> "folder" [] catalog.treeDepth = 2 -> "file" [] OTHER -> "other" ],
     [ parent |-> 0, name |-> 0, id |-> 0, toParent |-> 0, toName |-> 0, type |-> "other" ] >>

Nodes == Append(catalog.leaves, HeaderNode)

AtEnd == recordID = Len(Nodes[node])
NextNode == IF AtEnd THEN node + 1 ELSE node

MutantNextRecordSkips == IF AtEnd THEN 2 ELSE recordID + 1

NextRecord == IF AtEnd THEN 1 ELSE recordID + 1

\* The folder is the parent of the thread the listing began at.
ListedFolder ==
  LET r == CHOOSE r \in Found(spec) : TRUE IN FolderOf(r)

\* The next node cannot be loaded, which ends the listing without its totals.
ListBreaks ==
  /\ pc = "list"
  /\ NextNode \in catalog.lost
  /\ pc' = "missing"
  /\ UNCHANGED <<i, parentID, spec, node, recordID, rows>> /\ Fixed

\* A record with the parent: a row, if it is a file or a folder.
Row ==
  /\ pc = "list"
  /\ NextNode \notin catalog.lost
  /\ NextRecord \in DOMAIN Nodes[NextNode]
  /\ LET r == Nodes[NextNode][NextRecord]
     IN  /\ r.parent = ListedFolder
         /\ rows' = IF r.type \in {"file", "folder"} THEN Append(rows, r.id) ELSE rows
  /\ node' = NextNode /\ recordID' = NextRecord
  /\ UNCHANGED <<pc, i, parentID, spec>> /\ Fixed

\* The first record with another parent ends the listing.
EndList ==
  /\ pc = "list"
  /\ NextNode \notin catalog.lost
  /\ NextRecord \in DOMAIN Nodes[NextNode]
  /\ Nodes[NextNode][NextRecord].parent # ListedFolder
  /\ pc' = "shown"
  /\ UNCHANGED <<i, parentID, spec, node, recordID, rows>> /\ Fixed

LookupStep == pc = "path" /\ (PathMissing \/ PathStep \/ Aborted)
ShowStep == pc = "show" /\ (ShowMissing \/ Follow \/ Show \/ BeginList \/ Aborted)
ListStep == ListBreaks \/ Row \/ EndList

-----------------------------------------------------------------------------
(***************************************************************************)
(* Properties                                                              *)
(***************************************************************************)

\* A catalog in order: every key once and sorted over the leaves, every leaf
\* in use and readable, a root folder, and each folder and file with the thread
\* back to it.  No CNID is 0.
Sound ==
  /\ \E r \in Records : r.type = "folder" /\ r.id = kHFSRootFolderID
  /\ catalog.lost = {} /\ \A n \in DOMAIN catalog.leaves : catalog.leaves[n] # <<>>
  /\ \A p, q \in Places : Less(p, q) => Less(KeyOf(At(p)), KeyOf(At(q)))
  /\ \A r \in Records : r.parent > 0
  /\ \A r \in Records :
       IF IsThread(r) THEN
         /\ r.name = 0
         /\ \E s \in Records : /\ KeyOf(s) = <<r.toParent, r.toName>> /\ s.name # 0
                               /\ s.type \in {"file", "folder"} /\ s.id = r.parent
       ELSE
         /\ r.type \in {"file", "folder"} /\ r.name # 0
         /\ \E t \in Records : /\ KeyOf(t) = <<r.id, 0>> /\ <<t.toParent, t.toName>> = KeyOf(r)
                               /\ t.type = IF r.type = "folder" THEN "folderThread" ELSE "fileThread"

Child(folder, name) == {r \in Records : KeyOf(r) = <<folder, name>>}

\* What the names of a path lead to from the root folder, up to each of them:
\* an empty one stays, and so does everything behind a file; {} when a name is
\* missing.
Walk ==
  LET walk[n \in 0..Len(command.path)] ==
        IF n = 0 THEN {r \in Records : r.type = "folder" /\ r.id = kHFSRootFolderID}
        ELSE IF command.path[n] = 0 THEN walk[n - 1]
        ELSE UNION {IF r.type = "file" THEN {r} ELSE Child(r.id, command.path[n]) : r \in walk[n - 1]}
  IN  walk

Designates == Walk[Len(command.path)]

\* The file or folder a key leads to, itself or through its thread.
Target(key) ==
  UNION {IF IsThread(r) THEN Child(r.toParent, r.toName) ELSE {r} : r \in Found(key)}

\* In a sound catalog a path is found exactly when its names lead somewhere, and
\* leads there however many slashes stand between and after them.
PathResolves ==
  Sound /\ command.op = "path" =>
    /\ pc \in {"show", "list", "shown"} => Target(spec) = Designates /\ Designates # {}
    /\ pc = "missing" => Designates = {}

\* The one that ends up in the header node and takes its first record for a file
\* or a folder: the last folder of the catalog, when its CNID is also the number
\* of the root node.
Astray == /\ catalog.rootNode = ListedFolder
          /\ catalog.treeDepth \in 1..2
          /\ \A r \in Records : r.parent <= ListedFolder

\* The children of the folder that is listed, and the place of each among them.
Kids == {p \in Places : At(p).parent = ListedFolder /\ ~IsThread(At(p))}
UpTo(p) == {q \in Kids : q = p \/ Less(q, p)}

\* In a sound catalog the rows are the CNIDs of the children of the folder in
\* the order of their names: none left out where one leaf ends and the next
\* begins, none of another folder, apart from one row in the folder that is
\* Astray.
ListsChildren ==
  Sound /\ pc = "shown" /\ node # 0 =>
    /\ \A p \in Kids : rows[Cardinality(UpTo(p))] = At(p).id
    /\ IF Astray THEN Len(rows) = Cardinality(Kids) + 1 /\ Last(rows) = 0
                 ELSE Len(rows) = Cardinality(Kids)
=============================================================================
