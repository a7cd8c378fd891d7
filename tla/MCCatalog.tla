------------------------------ MODULE MCCatalog ------------------------------
(***************************************************************************)
(* Sessions about small catalogs, cut into leaves of each size, and ones   *)
(* damaged in one record or one leaf: each command on its own with every   *)
(* path of up to four names, the summary, and combinations of requests in  *)
(* the circumstances that matter to them.                                  *)
(***************************************************************************)
EXTENDS Session

Item(parent, name, type, id) ==
  [parent |-> parent, name |-> name, type |-> type, id |-> id, toParent |-> 0, toName |-> 0]
Thread(id, type, parent, name) ==
  [parent |-> id, name |-> 0, type |-> type, id |-> 0, toParent |-> parent, toName |-> name]

\* /1 is a folder with a folder 1 and a file 2 in it, /2 is a file.
Deep ==
  << Item(1, 3, "folder", 2),
     Thread(2, "folderThread", 1, 3), Item(2, 1, "folder", 16), Item(2, 2, "file", 19),
     Thread(16, "folderThread", 2, 1), Item(16, 1, "folder", 17), Item(16, 2, "file", 18),
     Thread(17, "folderThread", 16, 1),
     Thread(18, "fileThread", 16, 2), Thread(19, "fileThread", 2, 2) >>

\* /2 is a folder and the last one; its files were there first.
LastFolder ==
  << Item(1, 3, "folder", 2),
     Thread(2, "folderThread", 1, 3), Item(2, 1, "file", 16), Item(2, 2, "folder", 18),
     Thread(16, "fileThread", 2, 1), Thread(17, "fileThread", 18, 1),
     Thread(18, "folderThread", 2, 2), Item(18, 1, "file", 17) >>

Cut(records, size) ==
  [n \in 1..((Len(records) + size - 1) \div size) |->
     SubSeq(records, size * (n - 1) + 1, IF size * n < Len(records) THEN size * n ELSE Len(records))]

InLeaves(records, size, root, depth) ==
  LET leaves == Cut(records, size)
  IN  [leaves |-> leaves, lost |-> {}, rootNode |-> root, treeDepth |-> depth]

SoundCatalogs ==
  {InLeaves(rs, size, root, depth) : rs \in {Deep, LastFolder}, size \in {1, 2, 3}, root \in {3, 18}, depth \in {2, 3}}
  \cup {InLeaves(rs, 10, root, 1) : rs \in {Deep, LastFolder}, root \in {1, 18}}

Rootless == InLeaves(SubSeq(Deep, 3, 10), 3, 3, 2)

\* A thread that leads to itself, one that leads to another thread, a folder
\* without a thread, a record of no known type, a thread where a folder should
\* be, and no root folder at all.
Damaged ==
  {InLeaves(ReplaceAt(Deep, 5, Thread(16, "folderThread", 16, 0)), 3, 3, 2),
   InLeaves(ReplaceAt(Deep, 5, Thread(16, "folderThread", 17, 0)), 3, 3, 2),
   InLeaves(RemoveAt(Deep, 5), 3, 3, 2),
   InLeaves(ReplaceAt(Deep, 3, Item(2, 1, "other", 16)), 3, 3, 2),
   InLeaves(ReplaceAt(Deep, 3, [Thread(2, "folderThread", 1, 3) EXCEPT !.name = 1]), 3, 3, 2),
   Rootless}

Lossy == {[InLeaves(Deep, 2, 3, 2) EXCEPT !.lost = {n}] : n \in 1..5}

\* A root folder with the files of the given names, whose CNIDs are 20 more.
Root(names) ==
  LET sorted == SelectSeq([n \in 1..9 |-> n], LAMBDA n : n \in names) IN
  << Item(1, 3, "folder", 2), Thread(2, "folderThread", 1, 3) >>
    \o [n \in DOMAIN sorted |-> Item(2, sorted[n], "file", 20 + sorted[n])]
    \o [n \in DOMAIN sorted |-> Thread(20 + sorted[n], "fileThread", 2, sorted[n])]

MCNameOf == ("hotfiles.btree" :> 4) @@ ("journal.block" :> 5) @@ ("journal.buf" :> 6)

\* Of three ranks, the files 21 to 25 compete for two that are printed; the
\* others have a mark or no fork.
Fork(size, inRecord, extents) == [size |-> size, blocks |-> size, inRecord |-> inRecord, extents |-> extents]
Plain(data, rsrc) == [marks |-> {}, data |-> Fork(data, 1, 1), rsrc |-> Fork(rsrc, 2, 3)]
Marked(marks) == [marks |-> marks, data |-> Fork(90, 1, 1), rsrc |-> Fork(0, 0, 0)]

MCFileInfo ==
  [ id \in 16..29 |->
      CASE id = 21 -> Plain(20, 0) [] id = 22 -> Plain(30, 10) [] id = 23 -> Plain(10, 0)
        [] id = 24 -> Plain(0, 50) [] id = 25 -> Plain(40, 0) [] id = 26 -> Plain(0, 0)
        [] id = 27 -> Marked({"hardLink", "invisible"}) [] id = 28 -> Marked({"folderLink", "alias"})
        [] id = 29 -> Marked({"symLink"}) [] id = 18 -> Marked({"alias", "invisible"})
        [] id = 19 -> Marked({"invisible"}) [] OTHER -> Plain(10, 10) ]

MCValence == [id \in 2..19 |-> IF id = 17 THEN 0 ELSE 2]

-----------------------------------------------------------------------------

NoOptions == [mode |-> {}, path |-> <<0, 0>>, parent |-> 0, name |-> 0, cnid |-> 0, tree |-> "catalog", slash |-> FALSE]

Opens(disk, rdisk, image) == [disk |-> disk, rdisk |-> rdisk, image |-> image]

Usual ==
  [device |-> "image", open |-> Opens("ok", "ok", "ok"), fs |-> "hfsplus", euid |-> "user", libc |-> "glibc",
   owner |-> "user", target |-> "absent", special |-> {3, 4, 6}, journal |-> "inFS"]

With(catalogs, optionses, worlds) == [catalog : catalogs, options : optionses, world : worlds]

Listing(mode) == {{mode}, {mode, "list"}}

Commands ==
  UNION {
    {[NoOptions EXCEPT !.mode = m, !.path = <<0>> \o p] : m \in Listing("path"), p \in UNION {[1..n -> 0..2] : n \in 1..4}},
    {[NoOptions EXCEPT !.mode = m, !.path = <<1>>] : m \in Listing("path")},
    {[NoOptions EXCEPT !.mode = m, !.parent = p, !.name = n] : m \in Listing("fsspec"), p \in {0, 1, 2, 16, 18}, n \in 0..3},
    {[NoOptions EXCEPT !.mode = m, !.cnid = c] : m \in Listing("cnid"), c \in {1, 2, 16, 17, 18, 19, 20}} }

\* Every cut of the catalogs with every command, and with the summary.
About ==
  With(SoundCatalogs \cup Damaged \cup Lossy, Commands \cup {[NoOptions EXCEPT !.mode = {"summary"}]}, {Usual})
  \cup With({InLeaves(Root(1..9), size, 3, 2) : size \in {3, 20}}, {[NoOptions EXCEPT !.mode = {"summary"}]}, {Usual})

\* Some of the three files are not in the root folder, or their leaf is lost.
Yanked ==
  {InLeaves(Root({1} \cup names), 3, 3, 2) : names \in SUBSET {4, 5, 6}}
  \cup {[InLeaves(Root({1, 4, 5, 6}), 2, 3, 2) EXCEPT !.lost = {n}] : n \in 1..3}

Writers ==
  {[Usual EXCEPT !.euid = e, !.libc = l, !.owner = o, !.target = t] :
     e \in {"root", "user"}, l \in {"glibc", "bsd"}, o \in {"root", "user", "other", "missing"},
     t \in {"absent", "file", "directory"}}

\* Whatever the catalog and the volume hold, and whoever may write where.
Yanks ==
  With(Yanked \cup {Rootless}, {[NoOptions EXCEPT !.mode = {"yank"}]}, {[Usual EXCEPT !.special = s] : s \in SUBSET {3, 4, 8}})
  \cup With({InLeaves(Root({1, 4}), 3, 3, 2)},
             {[NoOptions EXCEPT !.mode = m, !.slash = s] : m \in {{"yank"}, {"yank", "output", "btree"}}, s \in BOOLEAN},
             Writers)

Extractions ==
  With({InLeaves(Root({1, 4}), 3, 3, 2), InLeaves(Root({1}), 3, 3, 2)},
       {[NoOptions EXCEPT !.mode = m, !.slash = s, !.tree = t] :
          m \in {{"output", "btree"}, {"output", "node"}, {"output", "path"}, {"btree", "node"}},
          s \in BOOLEAN, t \in {"catalog", "extents", "attributes", "hotfiles"}},
       Writers)

\* Requests one after the other, on volumes with each kind of journal.
Sequences ==
  With({InLeaves(Root({1, 4}), 3, 3, 2), InLeaves(Deep, 2, 3, 2)},
       {[NoOptions EXCEPT !.mode = m, !.cnid = 2, !.parent = 2, !.name = 1] :
          m \in SUBSET {"summary", "volumeheader", "journal", "freespace", "path", "fsspec", "cnid", "list", "btree"}},
       {[Usual EXCEPT !.journal = j] : j \in {"no", "unset", "inFS", "elsewhere"}})

Devices ==
  With({InLeaves(Root({1}), 3, 3, 2)}, {NoOptions},
       {[Usual EXCEPT !.device = d, !.open = Opens(a, b, a), !.fs = f] :
          d \in {"disk", "rdisk", "image"}, a, b \in {"ok", "busy", "error"}, f \in {"none", "refused", "hfsplus"}})

MCSessions == About \cup Yanks \cup Extractions \cup Sequences \cup Devices
=============================================================================
