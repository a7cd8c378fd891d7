--------------------------- MODULE MCPartitionTree ---------------------------
(***************************************************************************)
(* Disks of 48 units.  A map of each scheme at the start of the device,    *)
(* with entries that lead to data and to nested maps at 8, 16 and 24, of   *)
(* which some contain themselves or the device, and file systems at every  *)
(* choice of the places.                                                   *)
(***************************************************************************)
EXTENDS PartitionTree

Entry(type, first, count) == [type |-> type, first |-> first, count |-> count]
None == Entry("none", 0, 0)
Boot(es) == [kind |-> "boot", entries |-> es]
GptEntry(type, first, last) == [type |-> type, first |-> first, last |-> last]
GptHeader(ok, es) == [kind |-> "gpt", valid |-> ok, entries |-> es]
Apm(count, start) == [kind |-> "apm", count |-> count, start |-> start, length |-> 4]
Fs(type) == [kind |-> "fs", type |-> type]
EndOfDisk == 47 :> Blank

\* An MBR with any entries that lead to data or to maps.
Entries4 == {None, Entry("data", 8, 8), Entry("map", 16, 8), Entry("map", 24, 8)}
Boots == {Boot(es) : es \in [1..4 -> Entries4]}

\* What the nested maps hold: data at 32 and 40, the device again, or nothing.
Nested == {Boot(<<Entry("data", 32, 8), None, None, None>>),
           Boot(<<Entry("map", 0, 8), Entry("data", 40, 8), None, None>>),
           Boot(<<None, Entry("data", 40, 0), None, None>>)}

\* File systems in the volumes that begin at these places.
FileSystems ==
  {[p \in {q + 2 : q \in places} |-> Fs(IF p = 18 THEN "hfs" ELSE "hfs+")] :
     places \in {{}, {8}, {16, 32}, {40}, {24, 40}, {0, 16}}}

MbrDisks ==
  {(0 :> b) @@ (16 :> n) @@ (24 :> Boot(<<Entry("data", 40, 8), None, None, None>>)) @@ fs @@ EndOfDisk :
     b \in Boots, n \in Nested, fs \in FileSystems}

\* GPT headers at each sector size, valid or not, with a protective MBR or none.
Protective == {Boot(<<Entry("protective", 1, 47), None, None, None>>), Blank}

GptTables(s) ==
  { <<GptEntry("data", 8 \div s, 15 \div s), GptEntry("map", 16 \div s, 24 \div s), GptEntry("data", 40 \div s, 47 \div s)>>,
    <<GptEntry("map", 16 \div s, 24 \div s), GptEntry("data", 0, 0), GptEntry("data", 40 \div s, 47 \div s)>>,
    <<GptEntry("map", 0, 40 \div s), GptEntry("data", 8 \div s, 15 \div s)>> }

GptDisks ==
  {(0 :> b) @@ (s :> GptHeader(ok, es)) @@ fs @@ (16 :> n) @@ EndOfDisk :
     b \in Protective, ok \in BOOLEAN, s \in {1, 2, 8}, es \in GptTables(1) \cup GptTables(8), n \in Nested, fs \in FileSystems}

\* Apple maps of up to four entries, at each sector size, and one whose entries
\* do not agree on how many they are.
ApmDisks ==
  {(0 :> b) @@ [p \in {s * i : i \in 1..n} |-> Apm(n, (8 * (p \div s)) \div s)] @@ fs @@ EndOfDisk :
     b \in {Blank, Boot(<<Entry("data", 8, 8), None, None, None>>), [kind |-> "cs"]},
     s \in {1, 2, 4}, n \in 1..4, fs \in FileSystems}
  \cup {(1 :> Apm(4, 8)) @@ (2 :> Apm(2, 16)) @@ (3 :> Apm(4, 40)) @@ fs @@ EndOfDisk : fs \in FileSystems}

CsDisks == {(0 :> [kind |-> "cs"]) @@ fs @@ EndOfDisk : fs \in FileSystems}

MCDisks == MbrDisks \cup GptDisks \cup ApmDisks \cup CsDisks
=============================================================================
