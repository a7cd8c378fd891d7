------------------------------ MODULE Layouts ------------------------------
(***************************************************************************)
(* The structures of the disk (Apple/hfs_format.h) and the functions that  *)
(* bring them from the order of the disk to that of the host               *)
(* (hfs_endian.c, btree_endian.c).                                         *)
(*                                                                         *)
(* A structure is its size and its fields, each <<name, offset, bytes>>,   *)
(* those of the structures inside it written out; a field of one byte      *)
(* stands for characters or bytes, which have no order.  A swap function   *)
(* is the set of the <<name, bytes>> it swaps.                             *)
(***************************************************************************)
EXTENDS Naturals, Sequences, TLC

\* Consecutive numbers of one width.
Fields(bytes, names) ==
  [size |-> bytes * Len(names),
   fields |-> {<<names[i], bytes * (i - 1), bytes>> : i \in DOMAIN names}]

s ++ t ==
  [size |-> s.size + t.size,
   fields |-> s.fields \cup {<<f[1], s.size + f[2], f[3]>> : f \in t.fields}]

Within(name, s) ==
  [s EXCEPT !.fields = {<<name \o "." \o f[1], f[2], f[3]>> : f \in @}]

Times(n, s) ==
  [size |-> n * s.size,
   fields |-> {<<ToString(i) \o "." \o f[1], (i - 1) * s.size + f[2], f[3]>> :
                 i \in 1..n, f \in s.fields}]

Swaps(bytes, names) == {<<n, bytes>> : n \in names}

Of(name, swaps) == {<<name \o "." \o f[1], f[2]>> : f \in swaps}

OfEach(n, swaps) == UNION {Of(ToString(i), swaps) : i \in 1..n}

-----------------------------------------------------------------------------
(* Forks and extents *)

HFSPlusExtentDescriptor == Fields(4, <<"startBlock", "blockCount">>)

HFSPlusExtentRecord == Times(8, HFSPlusExtentDescriptor)

HFSPlusForkData ==
  Fields(8, <<"logicalSize">>) ++ Fields(4, <<"clumpSize", "totalBlocks">>)
    ++ Within("extents", HFSPlusExtentRecord)

swap_HFSPlusExtentDescriptor == Swaps(4, {"startBlock", "blockCount"})

swap_HFSPlusExtentRecord == OfEach(8, swap_HFSPlusExtentDescriptor)

swap_HFSPlusForkData ==
  Swaps(8, {"logicalSize"}) \cup Swaps(4, {"totalBlocks", "clumpSize"})
    \cup Of("extents", swap_HFSPlusExtentRecord)

-----------------------------------------------------------------------------
(* The records of the catalog *)

HFSPlusBSDInfo ==
  Fields(4, <<"ownerID", "groupID">>) ++ Fields(1, <<"adminFlags", "ownerFlags">>)
    ++ Fields(2, <<"fileMode">>) ++ Fields(4, <<"special">>)

FndrFileInfo ==
  Fields(4, <<"fdType", "fdCreator">>)
    ++ Fields(2, <<"fdFlags", "fdLocation.v", "fdLocation.h", "opaque">>)

FndrDirInfo ==
  Fields(2, <<"frRect.top", "frRect.left", "frRect.bottom", "frRect.right",
              "frFlags", "frLocation.v", "frLocation.h", "opaque">>)

FndrOpaqueInfo == Times(16, Fields(1, <<"opaque">>))

Dates ==
  Fields(4, <<"createDate", "contentModDate", "attributeModDate", "accessDate",
              "backupDate">>)

HFSPlusCatalogFolder ==
  Fields(2, <<"recordType", "flags">>) ++ Fields(4, <<"valence", "folderID">>)
    ++ Dates ++ Within("bsdInfo", HFSPlusBSDInfo) ++ Within("userInfo", FndrDirInfo)
    ++ Within("finderInfo", FndrOpaqueInfo)
    ++ Fields(4, <<"textEncoding", "folderCount">>)

HFSPlusCatalogFile ==
  Fields(2, <<"recordType", "flags">>) ++ Fields(4, <<"reserved1", "fileID">>)
    ++ Dates ++ Within("bsdInfo", HFSPlusBSDInfo) ++ Within("userInfo", FndrFileInfo)
    ++ Within("finderInfo", FndrOpaqueInfo)
    ++ Fields(4, <<"textEncoding", "reserved2">>)
    ++ Within("dataFork", HFSPlusForkData) ++ Within("resourceFork", HFSPlusForkData)

HFSUniStr255(length) ==
  Fields(2, <<"length">>) ++ Times(length, Fields(2, <<"unicode">>))

HFSPlusCatalogThread(length) ==
  Fields(2, <<"recordType", "reserved">>) ++ Fields(4, <<"parentID">>)
    ++ Within("nodeName", HFSUniStr255(length))

HFSPlusCatalogKey(length) ==
  Fields(2, <<"keyLength">>) ++ Fields(4, <<"parentID">>)
    ++ Within("nodeName", HFSUniStr255(length))

swap_HFSPlusBSDInfo ==
  Swaps(4, {"ownerID", "groupID"}) \cup Swaps(2, {"fileMode"}) \cup Swaps(4, {"special"})

swap_FndrFileInfo ==
  Swaps(4, {"fdType", "fdCreator"})
    \cup Swaps(2, {"fdFlags", "fdLocation.v", "fdLocation.h", "opaque"})

swap_FndrDirInfo ==
  Swaps(2, {"frRect.top", "frRect.left", "frRect.bottom", "frRect.right",
            "frLocation.v", "frLocation.h", "opaque"})

SwapsOfDates ==
  Swaps(4, {"createDate", "contentModDate", "attributeModDate", "accessDate",
            "backupDate"})

swap_HFSPlusCatalogFolder ==
  Swaps(2, {"flags"}) \cup Swaps(4, {"valence", "folderID"}) \cup SwapsOfDates
    \cup Of("bsdInfo", swap_HFSPlusBSDInfo) \cup Of("userInfo", swap_FndrDirInfo)
    \cup Swaps(4, {"textEncoding", "folderCount"})

swap_HFSPlusCatalogFile ==
  Swaps(2, {"flags"}) \cup Swaps(4, {"reserved1", "fileID"}) \cup SwapsOfDates
    \cup Of("bsdInfo", swap_HFSPlusBSDInfo) \cup Of("userInfo", swap_FndrFileInfo)
    \cup Swaps(4, {"textEncoding", "reserved2"})
    \cup Of("dataFork", swap_HFSPlusForkData) \cup Of("resourceFork", swap_HFSPlusForkData)

\* The loop goes by the length, which is swapped before it.
swap_HFSUniStr255(length) ==
  Swaps(2, {"length"}) \cup OfEach(length, Swaps(2, {"unicode"}))

swap_HFSPlusCatalogThread(length) ==
  Swaps(2, {"reserved"}) \cup Swaps(4, {"parentID"})
    \cup Of("nodeName", swap_HFSUniStr255(length))

swap_HFSPlusCatalogKey(length) ==
  Swaps(4, {"parentID"}) \cup Of("nodeName", swap_HFSUniStr255(length))

-----------------------------------------------------------------------------
(* The records of the extents and the attributes *)

HFSPlusExtentKey ==
  Fields(2, <<"keyLength">>) ++ Fields(1, <<"forkType", "pad">>)
    ++ Fields(4, <<"fileID", "startBlock">>)

HFSPlusAttrKey(length) ==
  Fields(2, <<"keyLength", "pad">>) ++ Fields(4, <<"fileID", "startBlock">>)
    ++ Fields(2, <<"attrNameLen">>) ++ Times(length, Fields(2, <<"attrName">>))

HFSPlusAttrData ==
  Fields(4, <<"recordType", "reserved0", "reserved1", "attrSize">>)
    ++ Fields(1, <<"attrData0", "attrData1">>)

HFSPlusAttrForkData ==
  Fields(4, <<"recordType", "reserved">>) ++ Within("theFork", HFSPlusForkData)

HFSPlusAttrExtents ==
  Fields(4, <<"recordType", "reserved">>) ++ Within("extents", HFSPlusExtentRecord)

swap_HFSPlusExtentKey == Swaps(4, {"fileID", "startBlock"})

swap_HFSPlusAttrKey(length) ==
  Swaps(2, {"pad", "attrNameLen"}) \cup Swaps(4, {"fileID", "startBlock"})
    \cup OfEach(length, Swaps(2, {"attrName"}))

swap_HFSPlusAttrData == Swaps(4, {"attrSize"})

swap_HFSPlusAttrForkData == Of("theFork", swap_HFSPlusForkData)

swap_HFSPlusAttrExtents == Of("extents", swap_HFSPlusExtentRecord)

-----------------------------------------------------------------------------
(* Nodes *)

BTNodeDescriptor ==
  Fields(4, <<"fLink", "bLink">>) ++ Fields(1, <<"kind", "height">>)
    ++ Fields(2, <<"numRecords", "reserved">>)

BTHeaderRec ==
  Fields(2, <<"treeDepth">>)
    ++ Fields(4, <<"rootNode", "leafRecords", "firstLeafNode", "lastLeafNode">>)
    ++ Fields(2, <<"nodeSize", "maxKeyLength">>) ++ Fields(4, <<"totalNodes", "freeNodes">>)
    ++ Fields(2, <<"reserved1">>) ++ Fields(4, <<"clumpSize">>)
    ++ Fields(1, <<"btreeType", "keyCompareType">>) ++ Fields(4, <<"attributes">>)
    ++ Times(16, Fields(4, <<"reserved3">>))

swap_BTNodeDescriptor == Swaps(4, {"fLink", "bLink"}) \cup Swaps(2, {"numRecords"})

swap_BTHeaderRec ==
  Swaps(2, {"treeDepth", "nodeSize", "maxKeyLength"})
    \cup Swaps(4, {"rootNode", "leafRecords", "firstLeafNode", "lastLeafNode",
                   "totalNodes", "freeNodes", "clumpSize", "attributes"})

-----------------------------------------------------------------------------
(* The blocks at fixed places *)

HFSPlusVolumeHeader ==
  Fields(2, <<"signature", "version">>)
    ++ Fields(4, <<"attributes", "lastMountedVersion", "journalInfoBlock", "createDate",
                   "modifyDate", "backupDate", "checkedDate", "fileCount", "folderCount",
                   "blockSize", "totalBlocks", "freeBlocks", "nextAllocation",
                   "rsrcClumpSize", "dataClumpSize", "nextCatalogID", "writeCount">>)
    ++ Fields(8, <<"encodingsBitmap">>)
    ++ Fields(4, <<"bootDirID", "bootParentID", "openWindowDirID", "os9DirID", "reserved",
                   "osXDirID">>)
    ++ Fields(8, <<"volID">>)
    ++ Within("allocationFile", HFSPlusForkData) ++ Within("extentsFile", HFSPlusForkData)
    ++ Within("catalogFile", HFSPlusForkData) ++ Within("attributesFile", HFSPlusForkData)
    ++ Within("startupFile", HFSPlusForkData)

JournalInfoBlock ==
  Fields(4, <<"flags">>) ++ Times(8, Fields(4, <<"device_signature">>))
    ++ Fields(8, <<"offset", "size">>)
    ++ Fields(1, <<"ext_jnl_uuid", "machine_serial_num", "rest">>)

HFSExtentDescriptor == Fields(2, <<"startBlock", "blockCount">>)

HFSMasterDirectoryBlock ==
  Fields(2, <<"drSigWord">>) ++ Fields(4, <<"drCrDate", "drLsMod">>)
    ++ Fields(2, <<"drAtrb", "drNmFls", "drVBMSt", "drAllocPtr", "drNmAlBlks">>)
    ++ Fields(4, <<"drAlBlkSiz", "drClpSiz">>) ++ Fields(2, <<"drAlBlSt">>)
    ++ Fields(4, <<"drNxtCNID">>) ++ Fields(2, <<"drFreeBks">>)
    ++ Times(28, Fields(1, <<"drVN">>))
    ++ Fields(4, <<"drVolBkUp">>) ++ Fields(2, <<"drVSeqNum">>)
    ++ Fields(4, <<"drWrCnt", "drXTClpSiz", "drCTClpSiz">>) ++ Fields(2, <<"drNmRtDirs">>)
    ++ Fields(4, <<"drFilCnt", "drDirCnt">>) ++ Times(8, Fields(4, <<"drFndrInfo">>))
    ++ Fields(2, <<"drEmbedSigWord">>) ++ Within("drEmbedExtent", HFSExtentDescriptor)
    ++ Fields(4, <<"drXTFlSize">>) ++ Within("drXTExtRec", Times(3, HFSExtentDescriptor))
    ++ Fields(4, <<"drCTFlSize">>) ++ Within("drCTExtRec", Times(3, HFSExtentDescriptor))

swap_HFSPlusVolumeHeader ==
  Swaps(2, {"signature", "version"})
    \cup Swaps(4, {"attributes", "lastMountedVersion", "journalInfoBlock", "createDate",
                   "modifyDate", "backupDate", "checkedDate", "fileCount", "folderCount",
                   "blockSize", "totalBlocks", "freeBlocks", "nextAllocation",
                   "rsrcClumpSize", "dataClumpSize", "nextCatalogID", "writeCount"})
    \cup Swaps(8, {"encodingsBitmap", "volID"})
    \cup Swaps(4, {"bootDirID", "bootParentID", "openWindowDirID", "os9DirID", "osXDirID"})
    \cup UNION {Of(f, swap_HFSPlusForkData) : f \in
           {"allocationFile", "extentsFile", "catalogFile", "attributesFile", "startupFile"}}

swap_JournalInfoBlock ==
  Swaps(4, {"flags"}) \cup OfEach(8, Swaps(4, {"device_signature"}))
    \cup Swaps(8, {"offset", "size"})

swap_HFSExtentDescriptor == Swaps(2, {"startBlock", "blockCount"})

\* The fields of the block by themselves; its two extent records are below.
swap_HFSMasterDirectoryBlock ==
  Swaps(2, {"drSigWord", "drAtrb", "drNmFls", "drVBMSt", "drAllocPtr", "drNmAlBlks",
            "drAlBlSt", "drFreeBks", "drVSeqNum", "drNmRtDirs", "drEmbedSigWord"})
    \cup Swaps(4, {"drCrDate", "drLsMod", "drAlBlkSiz", "drClpSiz", "drNxtCNID",
                   "drVolBkUp", "drWrCnt", "drXTClpSiz", "drCTClpSiz", "drFilCnt",
                   "drDirCnt", "drXTFlSize", "drCTFlSize"})
    \cup Of("drEmbedExtent", swap_HFSExtentDescriptor)

\* The index counts whole records of three extents, not extents: the places,
\* from the start of the extent record, that the three turns swap.
swap_HFSExtentRecord ==
  { <<i * Times(3, HFSExtentDescriptor).size + f[2], f[3]>> :
      i \in 0..2, f \in HFSExtentDescriptor.fields }
=============================================================================
