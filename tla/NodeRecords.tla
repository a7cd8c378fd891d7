---------------------------- MODULE NodeRecords ----------------------------
(***************************************************************************)
(* From the bytes of the disk to the records a caller reads.  The node     *)
(* that btree_get_node fetches is brought to the order of the host by two  *)
(* functions: swap_BTreeNode, which knows descriptor, key lengths and      *)
(* child pointers, and the getNode function of the tree, which knows keys  *)
(* and values.  Both work in place, and each relies on what was swapped    *)
(* before: the length of a key says where the value is, the length of a    *)
(* name how much of it there is, the type of a record what it holds.  The  *)
(* cache sits below them, so a node met again is swapped again.            *)
(*                                                                         *)
(* What was done to a buffer is the set of <<place, who>>, a place being   *)
(* <<offset, bytes>>.  The blocks at fixed places on the volume are loaded *)
(* in one step each.                                                       *)
(***************************************************************************)
EXTENDS BTreeNodes, Layouts, FiniteSets

CONSTANTS
  Contents,   \* [tree -> [node -> [kind, records]]], what the nodes hold
  Blocks      \* the blocks loaded: some of "header", "journal", "mdb", "tree"

\* An attribute of a type the code does not know ends the program.
ASSUME KnownAttributes ==
  "attributes" \in DOMAIN Contents =>
    \A n \in DOMAIN Contents["attributes"] :
      LET node == Contents["attributes"][n] IN
      node.kind = "leaf" =>
        \A i \in DOMAIN node.records : node.records[i].value \in {"data", "fork", "more"}

VARIABLES
  tree,       \* the tree the nodes belong to
  build,      \* the compiler: "clang" or "gcc"
  handed      \* the buffers last handed out: set of [key, value, at, swapped]

recordVars == <<tree, build, handed>>

-----------------------------------------------------------------------------
(* Places *)

PlacesOf(base, s, swaps) ==
  { <<base + f[2], f[3]>> : f \in {f \in s.fields : <<f[1], f[3]>> \in swaps} }

Swap(base, s, swaps, who) == {<<place, who>> : place \in PlacesOf(base, s, swaps)}

SwapsOf(place, done) == {who \in {d[2] : d \in done} : <<place, who>> \in done}

\* A number reads right once it was swapped, or any odd number of times.
ReadsRight(place, done) == Cardinality(SwapsOf(place, done)) % 2 = 1

-----------------------------------------------------------------------------
(* Records *)

maxKeyLength == [catalog |-> 516, extents |-> 10, attributes |-> 266, hotfiles |-> 10]

\* The extents tree has index keys of one length.
VariableIndexKeys == tree # "extents"

KeyLayout(r) ==
  CASE tree = "catalog"    -> HFSPlusCatalogKey(r.name)
    [] tree = "attributes" -> HFSPlusAttrKey(r.name)
    [] OTHER               -> HFSPlusExtentKey

\* keyLength as the disk has it; a bad key states two bytes too few.
keyLength(r) == KeyLayout(r).size - 2 - (IF r.value = "badkey" THEN 2 ELSE 0)

ChildPointer == Fields(4, <<"childNode">>)

ValueLayout(r) ==
  CASE r.value = "child"   -> ChildPointer
    [] r.value = "file"    -> HFSPlusCatalogFile
    [] r.value = "folder"  -> HFSPlusCatalogFolder
    [] r.value = "thread"  -> HFSPlusCatalogThread(r.name)
    [] r.value = "extents" -> HFSPlusExtentRecord
    [] r.value = "data"    -> HFSPlusAttrData
    [] r.value = "fork"    -> HFSPlusAttrForkData
    [] r.value = "more"    -> HFSPlusAttrExtents
    [] OTHER               -> Fields(IF tree = "catalog" THEN 2 ELSE 4, <<"recordType">>)

\* Where the value lies on the disk.
ValuePlace(r, kind) ==
  2 + IF kind = "index" /\ ~VariableIndexKeys THEN maxKeyLength[tree] ELSE keyLength(r)

MutantBTGetRecordKeyLength(r, kind, done) ==
  2 + IF ReadsRight(<<0, 2>>, done) /\ kind = "leaf" THEN keyLength(r) ELSE maxKeyLength[tree]

\* BTGetRecordKeyLength.  A length in the wrong order is too long for any
\* tree and cut to the longest.
BTGetRecordKeyLength(r, kind, done) ==
  2 + IF \/ kind = "index" /\ ~VariableIndexKeys
         \/ ~ReadsRight(<<0, 2>>, done)
      THEN maxKeyLength[tree]
      ELSE keyLength(r)

\* Units of a name that are swapped: all of it, or 256 of garbage.
NameUnits(r, place, done) == IF ReadsRight(place, done) \/ r.name = 0 THEN r.name ELSE 256

-----------------------------------------------------------------------------
(* What swap_BTreeNode does to a keyed record *)

SwapKeyAndPointer(r, kind) ==
  LET length == Swap(0, KeyLayout(r), Swaps(2, {"keyLength"}), "node")
  IN length \cup
     IF kind = "index"
     THEN Swap(BTGetRecordKeyLength(r, kind, length), ChildPointer, Swaps(4, {"childNode"}), "node")
     ELSE {}

-----------------------------------------------------------------------------
(* What the getNode functions add *)

\* The parent, the length of the name, then as many units.
swap_CatalogKey(r, done) ==
  LET length == Swap(0, HFSPlusCatalogKey(0), swap_HFSPlusCatalogKey(0), "key")
      n      == NameUnits(r, <<6, 2>>, done \cup length)
  IN Swap(0, HFSPlusCatalogKey(n), swap_HFSPlusCatalogKey(n), "key")

swap_HFSPlusCatalogRecord(r, at) ==
  {<< <<at, 2>>, "type" >>} \cup
    CASE r.value = "file"   -> Swap(at, HFSPlusCatalogFile, swap_HFSPlusCatalogFile, "value")
      [] r.value = "folder" -> Swap(at, HFSPlusCatalogFolder, swap_HFSPlusCatalogFolder, "value")
      [] r.value = "thread" -> Swap(at, HFSPlusCatalogThread(r.name),
                                    swap_HFSPlusCatalogThread(r.name), "value")
      [] OTHER -> {}

hfsplus_catalog_get_node(r, kind, done) ==
  LET key == done \cup swap_CatalogKey(r, done)
  IN key \cup
     IF kind = "leaf"
     THEN swap_HFSPlusCatalogRecord(r, BTGetRecordKeyLength(r, kind, key))
     ELSE {}

\* A record whose key states another length than 10 keeps its value as it is.
hfsplus_extents_get_node(r, kind, done) ==
  LET key == done \cup Swap(0, HFSPlusExtentKey, swap_HFSPlusExtentKey, "key")
  IN key \cup
     IF kind = "leaf" /\ r.value # "badkey"
     THEN Swap(BTGetRecordKeyLength(r, kind, key), HFSPlusExtentRecord,
               swap_HFSPlusExtentRecord, "value")
     ELSE {}

swap_AttrKey(r, done) ==
  LET length == Swap(0, HFSPlusAttrKey(0), swap_HFSPlusAttrKey(0), "key")
      n      == NameUnits(r, <<12, 2>>, done \cup length)
  IN Swap(0, HFSPlusAttrKey(n), swap_HFSPlusAttrKey(n), "key")

swap_HFSPlusAttrRecord(r, at) ==
  {<< <<at, 4>>, "type" >>} \cup
    CASE r.value = "data" -> Swap(at, HFSPlusAttrData, swap_HFSPlusAttrData, "value")
      [] r.value = "fork" -> Swap(at, HFSPlusAttrForkData, swap_HFSPlusAttrForkData, "value")
      [] r.value = "more" -> Swap(at, HFSPlusAttrExtents, swap_HFSPlusAttrExtents, "value")

hfs_attributes_get_node(r, kind, done) ==
  LET key == done \cup swap_AttrKey(r, done)
  IN key \cup
     IF kind = "leaf"
     THEN swap_HFSPlusAttrRecord(r, BTGetRecordKeyLength(r, kind, key))
     ELSE {}

\* hfs_hotfiles_get_node leaves keys and values as they are.
SwapForTree(r, kind, done) ==
  CASE tree = "catalog"    -> hfsplus_catalog_get_node(r, kind, done)
    [] tree = "extents"    -> hfsplus_extents_get_node(r, kind, done)
    [] tree = "attributes" -> hfs_attributes_get_node(r, kind, done)
    [] OTHER               -> done

-----------------------------------------------------------------------------
(* Nodes and blocks *)

Part(key, value, at, done) == [key |-> key, value |-> value, at |-> at, swapped |-> done]

Whole(s, swaps) == Part(s, Fields(1, <<>>), 0, Swap(0, s, swaps, "node"))

\* swap_BTreeNode and the getNode function, over a node as the disk has it:
\* cache_get copies the bytes out, and cache_set took them before the swap.
SwapNode(node) ==
  { Whole(BTNodeDescriptor, swap_BTNodeDescriptor) } \cup
    CASE node.kind = "header" -> { Whole(BTHeaderRec, swap_BTHeaderRec) }
      [] node.kind = "map"    -> {}
      [] OTHER ->
           { Part(KeyLayout(r), ValueLayout(r), ValuePlace(r, node.kind),
                  SwapForTree(r, node.kind, SwapKeyAndPointer(r, node.kind)))
               : r \in {node.records[i] : i \in DOMAIN node.records} }

\* Swap, the macro that goes by the size of its argument, compares bytes with
\* bits unless the compiler is clang, and then swaps nothing.  The two extent
\* records begin at 134 and 150.
SwapMasterBlock ==
  IF build = "gcc"
  THEN {}
  ELSE Swap(0, HFSMasterDirectoryBlock, swap_HFSMasterDirectoryBlock, "node")
         \cup { << <<134 + p[1], p[2]>>, "drXTExtRec" >> : p \in swap_HFSExtentRecord }
         \cup { << <<150 + p[1], p[2]>>, "drCTExtRec" >> : p \in swap_HFSExtentRecord }

SwapBlock(b) ==
  CASE b = "header"  -> { Whole(HFSPlusVolumeHeader, swap_HFSPlusVolumeHeader) }
    [] b = "journal" -> { Whole(JournalInfoBlock, swap_JournalInfoBlock) }
    [] b = "tree"    -> { Whole(BTNodeDescriptor, swap_BTNodeDescriptor),
                          Whole(BTHeaderRec, swap_BTHeaderRec) }
    [] OTHER -> { Part(HFSMasterDirectoryBlock, Fields(1, <<>>), 0, SwapMasterBlock) }

-----------------------------------------------------------------------------

RecordsInit ==
  /\ Init
  /\ tree \in DOMAIN Contents
  /\ build \in {"clang", "gcc"}
  /\ handed = {}

\* hfsplus_load_header, hfsplus_get_JournalInfoBlock, hfs_load_mbd, btree_init.
LoadBlock(b) ==
  /\ pc = "idle"
  /\ handed = {}
  /\ handed' \in {SwapBlock(b)}
  /\ UNCHANGED vars

\* A call of the tree's getNode.  The caller reads the records of one node
\* and frees it before it asks for the next.
CallForRecords(n) ==
  /\ CallBeyondTree(n) \/ Call(n)
  /\ handed' = {}

GetNode ==
  /\ FetchNode
  /\ handed' \in { IF outcome'.rc = "ok" THEN SwapNode(Contents[tree][request]) ELSE {} }

LoadBitmap ==
  /\ LoadHeaderFails \/ LoadHeader \/ LoadMapFails \/ LoadMap \/ Check
  /\ UNCHANGED handed

RecordsNext ==
  /\ \/ \E b \in Blocks : LoadBlock(b)
     \/ \E n \in Wanted : CallForRecords(n)
     \/ GetNode
     \/ LoadBitmap
  /\ UNCHANGED <<tree, build>>

RecordsSpec == RecordsInit /\ [][RecordsNext]_<<vars, recordVars>>

-----------------------------------------------------------------------------
(***************************************************************************)
(* Properties                                                              *)
(***************************************************************************)

\* Fields no one reads: reserved words, and the Finder's flags of a folder,
\* which the code passes over.
Spared(s) ==
  { f \in s.fields :
      \/ f[1] \in {"reserved", "reserved0", "reserved1", "userInfo.frFlags"}
      \/ s = BTHeaderRec /\ f[2] >= s.size - 64 }

Places(base, fields) == {<<base + f[2], f[3]>> : f \in {f \in fields : f[3] > 1}}

\* The master directory block comes out right where the program reads it, in
\* the build whose macro works.
ReadOfMasterBlock ==
  { f \in HFSMasterDirectoryBlock.fields :
      f[1] \in {"drSigWord", "drAlBlkSiz", "drAlBlSt", "drEmbedSigWord",
                "drEmbedExtent.startBlock"} }

\* Every number of every record that a getNode function hands out has been
\* swapped exactly once, at its place and in its width, and nothing else has
\* been touched: key length, key, then a value whose place, size and type were
\* read from what had been swapped before (swap_BTreeNode, the three get_node
\* functions, hfs_endian.c).  The same goes for the blocks at fixed places.
\* Exempt are the records of a hot files tree, the value behind a bad extents
\* key, and of the master directory block what the program does not read.
SwappedOnce ==
  \A p \in handed :
    LET numbers == Places(0, p.key.fields) \cup Places(p.at, p.value.fields)
        spared  == Places(0, Spared(p.key)) \cup Places(p.at, Spared(p.value))
        once    == {place \in numbers : Cardinality(SwapsOf(place, p.swapped)) = 1}
    IN CASE p.key = HFSMasterDirectoryBlock ->
              build = "clang" => Places(0, ReadOfMasterBlock) \subseteq once
         [] tree = "hotfiles" /\ p.at > 0 -> TRUE
         [] tree = "extents" /\ p.value = Fields(4, <<"recordType">>) ->
              Places(0, p.key.fields) \subseteq once
         [] OTHER ->
              /\ numbers \ spared \subseteq once
              /\ {d[1] : d \in p.swapped} \subseteq once
=============================================================================
