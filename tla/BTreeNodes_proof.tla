-------------------------- MODULE BTreeNodes_proof --------------------------
(* The nodes that btree_get_node hands out, for trees of any size with any   *)
(* chain of map nodes, sound or not, and wherever reads fail: which bitmap    *)
(* answers come from, what the cache holds, and which nodes are refused.     *)
EXTENDS NodeRecords, SequenceTheorems, WellFoundedInduction, TLAPS

LEMMA LeastNat ==
  ASSUME NEW T, T \subseteq Nat, T # {}
  PROVE  \E x \in T : \A y \in T : x <= y
<1> DEFINE R == OpToRel(<, Nat)
<1>1. IsWellFoundedOn(R, Nat)
  BY NatLessThanWellFounded, Zenon
<1>2. \A x, y \in Nat : <<y, x>> \in R <=> y < x
  BY DEF OpToRel
<1> HIDE DEF R
<1>3. PICK x \in T : \A y \in T : ~ (<<y, x>> \in R)
  BY <1>1, WFMin, Zenon
<1>4. \A y \in T : ~ (y < x)
  BY <1>2, <1>3, Zenon
<1>5. \A y \in T : x <= y
  BY <1>4
<1> QED
  BY <1>5

-----------------------------------------------------------------------------
(***************************************************************************)
(* The bitmap of the first map records.                                    *)
(***************************************************************************)

BitSeq == Seq({0, 1})

Parts == [i \in DOMAIN MapRecords |-> MapRecords[i].bits]

LastLink == Len(MapRecords)

\* What has been loaded behind each record: Bits is what it is behind the last.
Loads(f, n) ==
  f = [i \in 1..n |-> IF i = 1 THEN Parts[i] ELSE f[i-1] \o Parts[i]]

LEMMA PartsAre ==
  /\ LastLink \in Nat /\ LastLink >= 1 /\ DOMAIN MapRecords = 1..LastLink
  /\ Parts \in Seq(BitSeq) /\ Len(Parts) = LastLink
  /\ \A i \in 1..LastLink :
       /\ Parts[i] = MapRecords[i].bits /\ Parts[i] \in BitSeq
       /\ MapRecords[i].node \in Nat /\ Len(Parts[i]) % BitsPerByte = 0
<1> DEFINE Record == [node : Nat, bits : BitSeq]
<1>1. MapRecords \in Seq(Record) /\ LastLink >= 1
  BY BTreeAssumption DEF BitSeq, LastLink
<1>2. /\ LastLink \in Nat /\ DOMAIN MapRecords = 1..LastLink
      /\ \A i \in 1..LastLink : MapRecords[i].node \in Nat /\ MapRecords[i].bits \in BitSeq
  <2> HIDE DEF Record
  <2>1. LastLink \in Nat /\ DOMAIN MapRecords = 1..LastLink
    BY <1>1 DEF LastLink
  <2>2. \A i \in 1..LastLink : MapRecords[i] \in Record
    BY <1>1, <2>1, ElementOfSeq DEF LastLink
  <2> QED
    BY <2>1, <2>2 DEF Record
<1>3. /\ Parts \in [1..LastLink -> BitSeq] /\ \A i \in 1..LastLink : Parts[i] = MapRecords[i].bits
  BY <1>2 DEF Parts
<1>4. Parts \in Seq(BitSeq) /\ Len(Parts) = LastLink
  BY <1>2, <1>3
<1>5. \A i \in 1..LastLink : Len(MapRecords[i].bits) % BitsPerByte = 0
  BY <1>2, BTreeAssumption
<1> QED
  BY <1>1, <1>2, <1>3, <1>4, <1>5

LEMMA LoadsExist ==
  \E f \in [1..LastLink -> BitSeq] : Loads(f, LastLink)
<1> DEFINE Fails == {n \in 1..LastLink : ~ \E f \in [1..n -> BitSeq] : Loads(f, n)}
<1>1. LastLink \in Nat /\ LastLink >= 1 /\ \A i \in 1..LastLink : Parts[i] \in BitSeq
  BY PartsAre
<1>2. CASE Fails = {}
  <2>1. LastLink \in 1..LastLink
    BY <1>1
  <2> QED
    BY <1>2, <2>1
<1>3. CASE Fails # {}
  <2>1. PICK n \in Fails : \A m \in Fails : n <= m
    <3>1. Fails \subseteq Nat
      BY <1>1
    <3> HIDE DEF Fails
    <3> QED
      BY <1>3, <3>1, LeastNat
  <2>2. n \in 1..LastLink /\ ~ \E f \in [1..n -> BitSeq] : Loads(f, n)
    BY <2>1
  <2>3. CASE n = 1
    <3> DEFINE f == [i \in 1..1 |-> Parts[i]]
    <3>1. f \in [1..n -> BitSeq]
      BY <1>1, <2>3
    <3>2. Loads(f, n)
      BY <2>3 DEF Loads
    <3> QED
      BY <2>2, <3>1, <3>2
  <2>4. CASE n # 1
    <3>1. n - 1 \in 1..LastLink /\ ~(n <= n - 1)
      BY <1>1, <2>2, <2>4
    <3>2. PICK f \in [1..(n - 1) -> BitSeq] : Loads(f, n - 1)
      BY <2>1, <3>1
    <3> DEFINE more == f[n - 1] \o Parts[n]
               g == [i \in 1..n |-> IF i = n THEN more ELSE f[i]]
    <3>3. f[n - 1] \in BitSeq /\ Parts[n] \in BitSeq
      BY <1>1, <2>2, <2>4, <3>2
    <3>4. more \in BitSeq
      BY <3>3, ConcatProperties DEF BitSeq
    <3> HIDE DEF more
    <3>5. g \in [1..n -> BitSeq]
      BY <2>2, <3>2, <3>4
    <3>6. \A i \in 1..n : g[i] = IF i = 1 THEN Parts[i] ELSE g[i-1] \o Parts[i]
      <4> TAKE i \in 1..n
      <4>1. CASE i = n
        <5>1. i - 1 \in 1..n /\ i - 1 # n
          BY <2>2, <2>4, <4>1
        <5>2. g[i] = more /\ g[i - 1] = f[i - 1]
          BY <4>1, <5>1
        <5> QED
          BY <2>4, <4>1, <5>2 DEF more
      <4>2. CASE i # n /\ i = 1
        <5>1. i \in 1..(n - 1)
          BY <2>2, <4>2
        <5> QED
          BY <3>2, <4>2, <5>1 DEF Loads
      <4>3. CASE i # n /\ i # 1
        <5>1. i \in 1..(n - 1) /\ i - 1 \in 1..n /\ i - 1 # n
          BY <2>2, <4>3
        <5>2. g[i] = f[i] /\ g[i - 1] = f[i - 1]
          BY <4>3, <5>1
        <5>3. f[i] = f[i - 1] \o Parts[i]
          BY <3>2, <4>3, <5>1 DEF Loads
        <5> QED
          BY <4>3, <5>2, <5>3
      <4> QED
        BY <4>1, <4>2, <4>3
    <3>7. Loads(g, n)
      <4> DEFINE e(i) == IF i = 1 THEN Parts[i] ELSE g[i-1] \o Parts[i]
      <4>1. \A i \in 1..n : g[i] = e(i)
        BY <3>6
      <4>2. DOMAIN g = 1..n
        OBVIOUS
      <4>3. g = [i \in DOMAIN g |-> g[i]]
        OBVIOUS
      <4> HIDE DEF g, e
      <4>4. g = [i \in 1..n |-> e(i)]
        BY <4>1, <4>2, <4>3
      <4> QED
        BY <4>4 DEF Loads, e
    <3> QED
      BY <2>2, <3>5, <3>7
  <2> QED
    BY <2>3, <2>4
<1> QED
  BY <1>2, <1>3

Loaded == CHOOSE f : Loads(f, Len(Parts))

LEMMA LoadedIs ==
  /\ Loaded[1] = Parts[1]
  /\ \A i \in 2..LastLink : Loaded[i] = Loaded[i-1] \o Parts[i]
  /\ Bits = Loaded[LastLink]
<1>1. /\ LastLink \in Nat /\ LastLink >= 1 /\ Len(Parts) = LastLink
  BY PartsAre
<1>2. PICK f : Loads(f, Len(Parts))
  BY <1>1, LoadsExist
<1>3. Loads(Loaded, Len(Parts))
  BY <1>2, Zenon DEF Loaded
<1>4. Loaded = [i \in 1..LastLink |-> IF i = 1 THEN Parts[i] ELSE Loaded[i-1] \o Parts[i]]
  BY <1>1, <1>3 DEF Loads
<1> DEFINE e(i) == IF i = 1 THEN Parts[i] ELSE Loaded[i-1] \o Parts[i]
<1>5. \A i \in 1..LastLink : Loaded[i] = e(i)
  BY <1>4
<1>6. Loaded[1] = Parts[1]
  BY <1>1, <1>5
<1>7. ASSUME NEW i \in 2..LastLink PROVE Loaded[i] = Loaded[i-1] \o Parts[i]
  <2>1. i \in 1..LastLink /\ i # 1
    BY <1>1
  <2>2. Loaded[i] = e(i)
    BY <1>5, <2>1
  <2> QED
    BY <2>1, <2>2
<1>8. Bits = Loaded[LastLink]
  <2>1. Bits = FlattenSeq(Parts)
    BY DEF Bits, Parts
  <2>2. Len(Parts) # 0
    BY <1>1
  <2>3. FlattenSeq(Parts) = Loaded[Len(Parts)]
    BY <2>2, Zenon DEF FlattenSeq, Loaded, Loads
  <2> QED
    BY <1>1, <2>1, <2>3, Zenon
<1> QED
  BY <1>6, <1>7, <1>8

\* Two multiples add up to one.
LEMMA Multiples ==
  ASSUME NEW q \in Nat, NEW b \in Nat \ {0}
  PROVE  (q * b) % b = 0
OBVIOUS

LEMMA Quotient ==
  ASSUME NEW a \in Nat, NEW b \in Nat \ {0}, a % b = 0
  PROVE  a \div b \in Nat /\ a = (a \div b) * b
OBVIOUS

LEMMA Distributes ==
  ASSUME NEW a \in Int, NEW c \in Int, NEW b \in Int
  PROVE  a * b + c * b = (a + c) * b
OBVIOUS

LEMMA SumOfMultiples ==
  ASSUME NEW a \in Nat, NEW c \in Nat, NEW b \in Nat \ {0}, a % b = 0, c % b = 0
  PROVE  (a + c) % b = 0
<1> DEFINE d == a \div b
           e == c \div b
<1>1. d \in Nat /\ a = d * b /\ e \in Nat /\ c = e * b /\ b \in Nat
  BY Quotient
<1> HIDE DEF d, e
<1>2. d * b + e * b = (d + e) * b /\ d + e \in Nat
  BY <1>1, Distributes
<1>3. ((d + e) * b) % b = 0
  BY <1>2, Multiples
<1> QED
  BY <1>1, <1>2, <1>3, Zenon

\* The bits behind every record are whole bytes.
LEMMA LoadedAre ==
  \A i \in 1..LastLink : Loaded[i] \in BitSeq /\ Len(Loaded[i]) % BitsPerByte = 0
<1> DEFINE InBytes(s) == s \in BitSeq /\ Len(s) % BitsPerByte = 0
           Fails == {i \in 1..LastLink : ~ InBytes(Loaded[i])}
<1>1. /\ LastLink \in Nat /\ LastLink >= 1 /\ BitsPerByte \in Nat \ {0}
      /\ \A i \in 1..LastLink : InBytes(Parts[i])
  BY PartsAre, BTreeAssumption
<1>2. ASSUME NEW s, NEW t, InBytes(s), InBytes(t)
      PROVE  InBytes(s \o t)
  <2>1. s \in Seq({0, 1}) /\ t \in Seq({0, 1})
    BY <1>2 DEF BitSeq
  <2>2. s \o t \in Seq({0, 1}) /\ Len(s \o t) = Len(s) + Len(t)
    BY <2>1, ConcatProperties
  <2>3. Len(s) \in Nat /\ Len(t) \in Nat
    BY <2>1
  <2>4. (Len(s) + Len(t)) % BitsPerByte = 0
    BY <1>1, <1>2, <2>3, SumOfMultiples
  <2> QED
    BY <2>2, <2>4 DEF BitSeq
<1>3. CASE Fails # {}
  <2>1. PICK n \in Fails : \A m \in Fails : n <= m
    <3> HIDE DEF InBytes
    <3>1. Fails \subseteq Nat
      BY <1>1
    <3> HIDE DEF Fails
    <3> QED
      BY <1>3, <3>1, LeastNat
  <2>2. n \in 1..LastLink /\ ~ InBytes(Loaded[n])
    BY <2>1
  <2>3. n # 1
    BY <1>1, <2>2, LoadedIs
  <2>4. n \in 2..LastLink /\ n - 1 \in 1..LastLink /\ ~(n <= n - 1)
    BY <1>1, <2>2, <2>3
  <2>5. InBytes(Loaded[n - 1])
    BY <2>1, <2>4
  <2>6. InBytes(Parts[n])
    BY <1>1, <2>2
  <2>7. Loaded[n] = Loaded[n - 1] \o Parts[n]
    BY <2>4, LoadedIs
  <2> HIDE DEF InBytes
  <2> QED
    BY <1>2, <2>2, <2>5, <2>6, <2>7
<1> QED
  BY <1>3

\* What has been loaded stays as it is when more follows.
LEMMA LoadedIsPrefix ==
  ASSUME NEW k \in 1..LastLink, NEW n \in 1..Len(Loaded[k])
  PROVE  n \in 1..Len(Bits) /\ Bits[n] = Loaded[k][n]
<1> DEFINE Has(i) == n \in 1..Len(Loaded[i]) /\ Loaded[i][n] = Loaded[k][n]
           Fails == {i \in k..LastLink : ~ Has(i)}
<1>1. LastLink \in Nat /\ LastLink >= 1
  BY PartsAre
<1>2. CASE Fails # {}
  <2>1. PICK m \in Fails : \A i \in Fails : m <= i
    <3> HIDE DEF Has
    <3>1. Fails \subseteq Nat
      BY <1>1
    <3> HIDE DEF Fails
    <3> QED
      BY <1>2, <3>1, LeastNat
  <2>2. m \in k..LastLink /\ ~ Has(m)
    BY <2>1
  <2>3. m # k
    BY <2>2
  <2>4. m \in 2..LastLink /\ m \in 1..LastLink /\ m - 1 \in k..LastLink /\ m - 1 \in 1..LastLink
        /\ ~(m <= m - 1)
    BY <1>1, <2>2, <2>3
  <2>5. Has(m - 1)
    BY <2>1, <2>4
  <2>6. Loaded[m] = Loaded[m - 1] \o Parts[m]
    BY <2>4, LoadedIs
  <2>7. Loaded[m - 1] \in Seq({0, 1}) /\ Parts[m] \in Seq({0, 1})
    BY <2>4, LoadedAre, PartsAre DEF BitSeq
  <2>8. Has(m)
    <3> DEFINE s == Loaded[m - 1]
               t == Parts[m]
    <3>1. s \in Seq({0, 1}) /\ t \in Seq({0, 1}) /\ n \in 1..Len(s)
      BY <2>5, <2>7
    <3> HIDE DEF s, t
    <3>2. n \in 1..Len(s \o t) /\ (s \o t)[n] = s[n]
      BY <3>1
    <3> QED
      BY <2>5, <2>6, <3>2 DEF s, t
  <2> QED
    BY <2>2, <2>8
<1>3. CASE Fails = {}
  <2>1. LastLink \in k..LastLink
    BY <1>1
  <2>2. Has(LastLink)
    BY <1>3, <2>1
  <2> QED
    BY <2>2, LoadedIs
<1> QED
  BY <1>2, <1>3

-----------------------------------------------------------------------------
(***************************************************************************)
(* The cache and the bitmap.                                               *)
(***************************************************************************)

\* An entry that holds a whole node.
Entry == [node : Nat, data : {"full"}]

Answers == {"none", "range", "unused", "loaded", "aborted", "ok", "invalid", "unread"}

Types ==
  /\ readable \in BOOLEAN /\ loadingBitmap \in BOOLEAN
  /\ nodeBitmap \in BitSeq \cup {NULL}
  /\ request \in Nat /\ link \in Nat
  /\ cached \in Seq(Entry)
  /\ outcome \in [node : Nat, rc : Answers]
  /\ pc \in {"idle", "header", "map", "check", "node", "aborted"}

\* While the load is under way the flag is set and the bitmap is that of the
\* records met; apart from that, the flag is set when there is no bitmap.
Bitmap ==
  /\ pc = "header" => nodeBitmap = NULL /\ loadingBitmap
  /\ pc = "map" => loadingBitmap /\ link \in 2..LastLink /\ nodeBitmap = Loaded[link - 1]
  /\ pc = "check" => ~loadingBitmap /\ nodeBitmap # NULL
  /\ nodeBitmap # NULL /\ ~loadingBitmap => nodeBitmap = Bits
  /\ nodeBitmap # NULL /\ loadingBitmap => pc \in {"map", "aborted"}

LEMMA NullIs ==
  ASSUME NEW s \in BitSeq
  PROVE  s # NULL
BY BTreeAssumption DEF BitSeq

LEMMA BitsAre ==
  /\ Bits \in BitSeq /\ Bits # NULL /\ Len(Bits) \in Nat /\ Len(Bits) % BitsPerByte = 0
  /\ DOMAIN Bits = 1..Len(Bits)
<1>1. LastLink \in 1..LastLink
  BY PartsAre
<1>2. Bits \in BitSeq /\ Len(Bits) % BitsPerByte = 0
  BY <1>1, LoadedAre, LoadedIs
<1> QED
  BY <1>2, NullIs DEF BitSeq

\* Whatever is fetched, the cache holds whole nodes only; what comes of a node
\* that can be read depends on its bytes.
LEMMA FetchesAre ==
  ASSUME Types, NEW n \in Nat, NEW f \in Fetches(n)
  PROVE  /\ f.cached \in Seq(Entry) /\ f.rc \in {"ok", "invalid", "unread"}
         /\ f.rc = "ok" => n \in Healthy
         /\ readable => f.rc = IF n \in Healthy THEN "ok" ELSE "invalid"
<1>1. CASE n \in Held
  <2>1. f \in Hits(n)
    BY <1>1 DEF Fetches
  <2> DEFINE p == Place(n)
  <2>2. p \in DOMAIN cached
    <3>1. \E i \in DOMAIN cached : cached[i].node = n
      BY <1>1 DEF Held
    <3> QED
      BY <3>1, Zenon DEF Place
  <2>3. /\ f.rc = Swapped(n, cached[p].data)
        /\ f.cached = <<cached[p]>> \o RemoveAt(cached, p)
    BY <2>1 DEF Hits
  <2> HIDE DEF p
  <2>4. cached \in Seq(Entry) /\ p \in 1..Len(cached) /\ Len(cached) \in Nat
    BY <2>2 DEF Types
  <2>5. cached[p] \in Entry
    BY <2>4, ElementOfSeq
  <2>6. cached[p].data = "full"
    BY <2>5 DEF Entry
  <2>7. <<cached[p]>> \o RemoveAt(cached, p) \in Seq(Entry)
    <3>1. SubSeq(cached, 1, p - 1) \in Seq(Entry) /\ SubSeq(cached, p + 1, Len(cached)) \in Seq(Entry)
      <4>1. \A i \in 1..(p - 1) : cached[i] \in Entry
        BY <2>4, ElementOfSeq
      <4>2. \A i \in (p + 1)..Len(cached) : cached[i] \in Entry
        BY <2>4, ElementOfSeq
      <4> QED
        BY <2>4, <4>1, <4>2
    <3>2. RemoveAt(cached, p) \in Seq(Entry)
      BY <3>1, ConcatProperties DEF RemoveAt
    <3>3. <<cached[p]>> \in Seq(Entry)
      BY <2>5
    <3> QED
      BY <3>2, <3>3, ConcatProperties
  <2> QED
    BY <2>3, <2>6, <2>7 DEF Swapped
<1>2. CASE n \notin Held
  <2>1. f \in Misses(n)
    BY <1>2 DEF Fetches
  <2>2. Stored(n, "full") \in Seq(Entry)
    <3> DEFINE e == [node |-> n, data |-> "full"]
               s == <<e>> \o cached
    <3>1. e \in Entry
      BY DEF Entry
    <3> HIDE DEF e
    <3>2. <<e>> \in Seq(Entry) /\ cached \in Seq(Entry)
      BY <3>1 DEF Types
    <3>3. s \in Seq(Entry) /\ Len(s) \in Nat
      BY <3>2, ConcatProperties
    <3> HIDE DEF s
    <3> DEFINE most == IF Len(s) < CacheSlots THEN Len(s) ELSE CacheSlots
    <3>4. most \in Nat /\ most <= Len(s)
      BY <3>3, BTreeAssumption
    <3>5. \A i \in 1..most : s[i] \in Entry
      BY <3>3, <3>4, ElementOfSeq
    <3> HIDE DEF most
    <3>6. SubSeq(s, 1, most) \in Seq(Entry)
      BY <3>3, <3>4, <3>5
    <3> QED
      BY <3>6 DEF Stored, Newest, s, e, most
  <2>3. \/ f = [rc |-> Swapped(n, "full"), cached |-> Stored(n, "full")]
        \/ ~readable /\ f = [rc |-> "unread", cached |-> cached]
        \/ ~readable /\ f = [rc |-> Swapped(n, "short"), cached |-> cached]
    BY <2>1 DEF Misses
  <2> QED
    BY <2>2, <2>3 DEF Swapped, Types
<1> QED
  BY <1>1, <1>2

-----------------------------------------------------------------------------
(***************************************************************************)
(* Every step keeps the cache whole and the bitmap that of the disk.       *)
(***************************************************************************)

LEMMA InitIs == Init => Types /\ Bitmap
<1> SUFFICES ASSUME Init PROVE Types /\ Bitmap
  OBVIOUS
<1>3. cached \in Seq(Entry) /\ outcome \in [node : Nat, rc : Answers]
  BY DEF Init, Answers
<1>1. Types
  BY <1>3 DEF Init, Types
<1>2. Bitmap
  BY DEF Init, Bitmap
<1> QED
  BY <1>1, <1>2

LEMMA WholeBitmaps ==
  ASSUME Types, Bitmap
  PROVE  /\ pc = "map" => nodeBitmap \in BitSeq /\ nodeBitmap # NULL
         /\ nodeBitmap = NULL => nodeBitmapSize = 0
         /\ pc = "check" => nodeBitmap = Bits
<1>1. ASSUME pc = "map" PROVE nodeBitmap \in BitSeq
  <2>1. link - 1 \in 1..LastLink /\ nodeBitmap = Loaded[link - 1]
    BY <1>1, PartsAre DEF Bitmap
  <2> QED
    BY <2>1, LoadedAre
<1> QED
  BY <1>1, NullIs DEF Bitmap, nodeBitmapSize

LEMMA CallKeeps ==
  ASSUME Types, Bitmap, NEW n \in Wanted, Call(n)
  PROVE  Types' /\ Bitmap'
<1>1. n \in Nat
  BY BTreeAssumption
<1>2. pc = "idle" /\ request' = n
      /\ readable' = readable /\ nodeBitmap' = nodeBitmap /\ cached' = cached
      /\ link' = link /\ outcome' = outcome
  BY DEF Call
<1>3. \/ pc' = "node" /\ loadingBitmap' = loadingBitmap
      \/ pc' = "header" /\ loadingBitmap' = TRUE /\ nodeBitmap = NULL
      \/ pc' = "check" /\ loadingBitmap' = loadingBitmap /\ nodeBitmap # NULL
  BY DEF Call
<1>4. nodeBitmap # NULL => ~loadingBitmap
  BY <1>2 DEF Bitmap
<1>5. Types'
  BY <1>1, <1>2, <1>3 DEF Types
<1>6. Bitmap'
  BY <1>2, <1>3, <1>4 DEF Bitmap
<1> QED
  BY <1>5, <1>6

LEMMA LoadHeaderKeeps ==
  ASSUME Types, Bitmap, LoadHeader
  PROVE  Types' /\ Bitmap'
<1>1. LastLink \in Nat /\ LastLink >= 1 /\ 1 \in 1..LastLink /\ loadingBitmap
  BY PartsAre DEF LoadHeader, Bitmap
<1>2. PICK f \in Fetches(0) : cached' = f.cached
  BY DEF LoadHeader
<1>3. cached' \in Seq(Entry)
  BY <1>2, FetchesAre
<1>4. /\ pc = "header" /\ nodeBitmap' = MapRecords[1].bits /\ link' = 2
      /\ readable' = readable /\ request' = request /\ outcome' = outcome
  BY DEF LoadHeader
<1>flag. \/ LastLink > 1 /\ pc' = "map" /\ loadingBitmap'
         \/ ~(LastLink > 1) /\ pc' = "check" /\ loadingBitmap' = FALSE
  <2>1. \/ LastLink > 1 /\ pc' = "map" /\ loadingBitmap' = loadingBitmap
        \/ ~(LastLink > 1) /\ pc' = "check" /\ loadingBitmap' = FALSE
    BY DEF LoadHeader, LastLink
  <2> QED
    BY <1>1, <2>1, Zenon
<1>range. pc' \in {"map", "check"} /\ loadingBitmap' \in BOOLEAN
  BY <1>flag, Zenon
<1>5. nodeBitmap' = Loaded[1] /\ nodeBitmap' \in BitSeq /\ nodeBitmap' # NULL
  BY <1>1, <1>4, PartsAre, LoadedIs, NullIs
<1>6. Types'
  BY <1>1, <1>3, <1>4, <1>5, <1>range DEF Types
<1>7. CASE LastLink > 1
  <2>1. link' \in 2..LastLink /\ link' - 1 = 1
    BY <1>1, <1>4, <1>7
  <2>3. pc' = "map" /\ loadingBitmap'
    BY <1>flag, <1>7, Zenon
  <2>2. Bitmap'
    BY <1>5, <2>1, <2>3 DEF Bitmap
  <2> QED
    BY <1>6, <2>2
<1>8. CASE ~(LastLink > 1)
  <2>1. LastLink = 1
    BY <1>1, <1>8
  <2>4. pc' = "check" /\ ~loadingBitmap'
    BY <1>flag, <1>8, Zenon
  <2>2. nodeBitmap' = Bits
    BY <1>5, <2>1, LoadedIs
  <2>3. Bitmap'
    BY <1>5, <2>2, <2>4 DEF Bitmap
  <2> QED
    BY <1>6, <2>3
<1> QED
  BY <1>7, <1>8

LEMMA LoadMapKeeps ==
  ASSUME Types, Bitmap, LoadMap
  PROVE  Types' /\ Bitmap'
<1>1. LastLink \in Nat /\ link \in 2..LastLink /\ link \in 1..LastLink
      /\ nodeBitmap = Loaded[link - 1] /\ loadingBitmap
  BY PartsAre DEF LoadMap, Bitmap
<1>2. MapRecords[link].node \in Nat
  BY <1>1, PartsAre
<1>3. PICK f \in Fetches(MapRecords[link].node) : cached' = f.cached
  BY DEF LoadMap
<1>4. cached' \in Seq(Entry)
  BY <1>2, <1>3, FetchesAre
<1>5. /\ nodeBitmap' = nodeBitmap \o MapRecords[link].bits /\ link' = link + 1
      /\ readable' = readable /\ request' = request /\ outcome' = outcome
  BY DEF LoadMap
<1>flag. \/ link < LastLink /\ pc' = "map" /\ loadingBitmap'
         \/ ~(link < LastLink) /\ pc' = "check" /\ loadingBitmap' = FALSE
  <2>1. \/ link < LastLink /\ pc' = "map" /\ loadingBitmap' = loadingBitmap
        \/ ~(link < LastLink) /\ pc' = "check" /\ loadingBitmap' = FALSE
    BY DEF LoadMap, LastLink
  <2> QED
    BY <1>1, <2>1, Zenon
<1>range. pc' \in {"map", "check"} /\ loadingBitmap' \in BOOLEAN
  BY <1>flag, Zenon
<1>6. nodeBitmap' = Loaded[link]
  BY <1>1, <1>5, PartsAre, LoadedIs
<1>7. nodeBitmap' \in BitSeq /\ nodeBitmap' # NULL
  BY <1>1, <1>6, LoadedAre, NullIs
<1>8. Types'
  <2>1. link' \in Nat
    BY <1>1, <1>5
  <2>2. readable' = readable /\ request' = request /\ outcome' = outcome
    BY <1>5
  <2> QED
    BY <1>4, <1>7, <1>range, <2>1, <2>2 DEF Types
<1>9. CASE link < LastLink
  <2>1. link' \in 2..LastLink /\ link' - 1 = link
    BY <1>1, <1>5, <1>9
  <2>3. pc' = "map" /\ loadingBitmap'
    BY <1>flag, <1>9, Zenon
  <2>2. Bitmap'
    BY <1>6, <1>7, <2>1, <2>3 DEF Bitmap
  <2> QED
    BY <1>8, <2>2
<1>10. CASE ~(link < LastLink)
  <2>1. link = LastLink
    BY <1>1, <1>10
  <2>4. pc' = "check" /\ ~loadingBitmap'
    BY <1>flag, <1>10, Zenon
  <2>2. nodeBitmap' = Bits
    BY <1>6, <2>1, LoadedIs
  <2>3. Bitmap'
    BY <1>7, <2>2, <2>4 DEF Bitmap
  <2> QED
    BY <1>8, <2>3
<1> QED
  BY <1>9, <1>10

LEMMA LoadMapFailsKeeps ==
  ASSUME Types, Bitmap, LoadMapFails
  PROVE  Types' /\ Bitmap'
<1>1. LastLink \in Nat /\ link \in 1..LastLink /\ pc = "map"
  BY PartsAre DEF LoadMapFails, Bitmap
<1>2. MapRecords[link].node \in Nat
  BY <1>1, PartsAre
<1>3. \/ cached' = cached
      \/ \E f \in Fetches(MapRecords[link].node) : cached' = f.cached
  BY DEF LoadMapFails
<1>4. cached' \in Seq(Entry)
  BY <1>2, <1>3, FetchesAre DEF Types
<1>5. /\ pc' = "aborted" /\ outcome' = [node |-> request, rc |-> "aborted"]
      /\ readable' = readable /\ nodeBitmap' = nodeBitmap
      /\ loadingBitmap' = loadingBitmap /\ request' = request /\ link' = link
  BY DEF LoadMapFails, Ended
<1>6. outcome' \in [node : Nat, rc : Answers]
  BY <1>5 DEF Types, Answers
<1>7. Types'
  BY <1>4, <1>5, <1>6 DEF Types
<1>8. Bitmap'
  BY <1>1, <1>5 DEF Bitmap
<1> QED
  BY <1>7, <1>8

LEMMA StepKeeps ==
  ASSUME Types, Bitmap, [Next]_vars
  PROVE  Types' /\ Bitmap'
<1>1. ASSUME NEW n \in Wanted, CallBeyondTree(n) PROVE Types' /\ Bitmap'
  <2>1. n \in Nat
    BY BTreeAssumption
  <2>2. outcome' \in [node : Nat, rc : Answers]
    BY <1>1, <2>1 DEF CallBeyondTree, Answers
  <2>4. Types'
    BY <1>1, <2>1, <2>2 DEF CallBeyondTree, Types
  <2>3. Bitmap'
    BY <1>1 DEF CallBeyondTree, Bitmap
  <2> QED
    BY <2>3, <2>4
<1>2. ASSUME NEW n \in Wanted, Call(n) PROVE Types' /\ Bitmap'
  BY <1>2, CallKeeps
<1>3. ASSUME LoadHeaderFails PROVE Types' /\ Bitmap'
  <2>1. PICK f \in Fetches(0) : cached' = f.cached
    BY <1>3 DEF LoadHeaderFails
  <2>2. cached' \in Seq(Entry)
    BY <2>1, FetchesAre
  <2>5. outcome' \in [node : Nat, rc : Answers]
    BY <1>3 DEF LoadHeaderFails, Ended, Answers, Types
  <2>3. Types'
    BY <1>3, <2>2, <2>5 DEF LoadHeaderFails, Types
  <2>4. Bitmap'
    BY <1>3 DEF LoadHeaderFails, Bitmap
  <2> QED
    BY <2>3, <2>4
<1>4. ASSUME Check PROVE Types' /\ Bitmap'
  <2>1. /\ pc = "check" /\ pc' \in {"idle", "node"}
        /\ \/ outcome' = outcome
           \/ outcome' = [node |-> request, rc |-> "loaded"]
           \/ outcome' = [node |-> request, rc |-> "unused"]
        /\ readable' = readable /\ nodeBitmap' = nodeBitmap /\ cached' = cached
        /\ loadingBitmap' = loadingBitmap /\ request' = request /\ link' = link
    BY <1>4 DEF Check, Ended
  <2>4. outcome' \in [node : Nat, rc : Answers]
    BY <2>1 DEF Types, Answers
  <2>2. Types'
    BY <2>1, <2>4 DEF Types
  <2>3. Bitmap'
    BY <2>1 DEF Bitmap
  <2> QED
    BY <2>2, <2>3
<1>5. ASSUME FetchNode PROVE Types' /\ Bitmap'
  <2>1. PICK f \in Fetches(request) : cached' = f.cached /\ outcome' = Ended(f.rc)
    BY <1>5 DEF FetchNode
  <2>2. cached' \in Seq(Entry) /\ outcome' \in [node : Nat, rc : Answers]
    <3>1. request \in Nat
      BY DEF Types
    <3>2. f.cached \in Seq(Entry) /\ f.rc \in {"ok", "invalid", "unread"}
      BY <3>1, FetchesAre
    <3> QED
      BY <2>1, <3>1, <3>2 DEF Ended, Answers
  <2>3. Types'
    BY <1>5, <2>2 DEF FetchNode, Types
  <2>4. Bitmap'
    BY <1>5 DEF FetchNode, Bitmap
  <2> QED
    BY <2>3, <2>4
<1>6. ASSUME UNCHANGED vars PROVE Types' /\ Bitmap'
  <2>1. Types'
    BY <1>6 DEF vars, Types
  <2>2. Bitmap'
    BY <1>6 DEF vars, Bitmap
  <2> QED
    BY <2>1, <2>2
<1> QED
  BY <1>1, <1>2, <1>3, <1>4, <1>5, <1>6, LoadHeaderKeeps, LoadMapKeeps, LoadMapFailsKeeps
     DEF Next
-----------------------------------------------------------------------------
(***************************************************************************)
(* The bit of a node.                                                      *)
(***************************************************************************)

LEMMA Bound ==
  ASSUME NEW a \in Nat, NEW c \in Nat, NEW b \in Nat \ {0}, a <= c
  PROVE  a * b <= c * b
OBVIOUS

LEMMA Division ==
  ASSUME NEW n \in Nat, NEW b \in Nat \ {0}
  PROVE  /\ n \div b \in Nat /\ n % b \in 0..(b - 1)
         /\ n = (n \div b) * b + (n % b)
OBVIOUS

\* A node has its bit among whole bytes if it has its byte there.
LEMMA ByteOfBit ==
  ASSUME NEW n \in Nat, NEW a \in Nat, NEW b \in Nat \ {0}, a % b = 0
  PROVE  n \div b < a \div b <=> n < a
<1> DEFINE q == n \div b
           r == n % b
           d == a \div b
<1>1. q \in Nat /\ r \in 0..(b - 1) /\ n = q * b + r
  BY Division
<1>2. d \in Nat /\ a = d * b
  BY Quotient
<1> HIDE DEF q, r, d
<1>3. q * b \in Nat /\ d * b \in Nat /\ 1 * b = b
  BY <1>1, <1>2
<1>4. ASSUME q < d PROVE n < a
  <2>1. q + 1 \in Nat /\ q + 1 <= d
    BY <1>1, <1>2, <1>4
  <2>2. (q + 1) * b <= d * b
    BY <1>2, <2>1, Bound
  <2>3. q * b + 1 * b = (q + 1) * b
    BY <1>1, Distributes
  <2> HIDE DEF q
  <2>4. q * b + b <= a
    BY <1>2, <1>3, <2>2, <2>3
  <2> QED
    BY <1>1, <1>3, <2>4
<1>5. ASSUME ~ (q < d) PROVE ~ (n < a)
  <2>1. d <= q
    BY <1>1, <1>2, <1>5
  <2>2. d * b <= q * b
    BY <1>1, <1>2, <2>1, Bound
  <2> QED
    BY <1>1, <1>2, <1>3, <2>2
<1> QED
  BY <1>4, <1>5 DEF q, d

\* What BTIsBlockUsed answers with all the bits of some records.
LEMMA AnswersAre ==
  ASSUME NEW n \in Nat, nodeBitmap \in BitSeq, nodeBitmap # NULL,
         Len(nodeBitmap) % BitsPerByte = 0
  PROVE  n < Len(nodeBitmap) => BTIsBlockUsed(n) = {nodeBitmap[n + 1] = 1}
<1>1. Len(nodeBitmap) \in Nat /\ BitsPerByte \in Nat \ {0}
  BY BTreeAssumption DEF BitSeq
<1>2. nodeBitmapSize = Len(nodeBitmap) \div BitsPerByte
  BY DEF nodeBitmapSize
<1>3. n \div BitsPerByte < nodeBitmapSize <=> n < Len(nodeBitmap)
  BY <1>1, <1>2, ByteOfBit
<1>4. n \div BitsPerByte \in Nat /\ nodeBitmapSize \in Nat
  BY <1>1, <1>2, Division, Quotient
<1> HIDE DEF nodeBitmapSize
<1> DEFINE idx == n \div BitsPerByte
<1>5. ASSUME n < Len(nodeBitmap) PROVE BTIsBlockUsed(n) = {nodeBitmap[n + 1] = 1}
  <2>1. ~(idx > nodeBitmapSize) /\ idx # nodeBitmapSize
    BY <1>3, <1>4, <1>5
  <2> QED
    BY <2>1 DEF BTIsBlockUsed
<1> QED
  BY <1>5

\* Behind the bits there is no bit of the node.
LEMMA BitOf ==
  ASSUME NEW n \in Nat
  PROVE  n + 1 \in DOMAIN Bits <=> n < Len(Bits)
BY BitsAre

LEMMA BitIsZeroOrOne ==
  ASSUME NEW n \in Nat, n + 1 \in DOMAIN Bits
  PROVE  Bits[n + 1] \in {0, 1}
BY BitsAre, ElementOfSeq DEF BitSeq

-----------------------------------------------------------------------------
(***************************************************************************)
(* A node marked unused is only fetched when there is no bitmap.           *)
(***************************************************************************)

Unused(n) == n # 0 /\ n + 1 \in DOMAIN Bits /\ Bits[n + 1] = 0

Answered ==
  /\ pc = "node" /\ Unused(request) => Blind
  /\ outcome.rc = "ok" /\ Unused(outcome.node) => Blind /\ pc # "header"

LEMMA AnsweredKept ==
  ASSUME Types, Bitmap, Answered, [Next]_vars
  PROVE  Answered'
<1>1. ASSUME NEW n \in Wanted, CallBeyondTree(n) PROVE Answered'
  <2>1. pc = "idle" /\ pc' = pc /\ outcome'.rc = "range"
    BY <1>1 DEF CallBeyondTree
  <2> QED
    BY <2>1 DEF Answered
<1>2. ASSUME NEW n \in Wanted, Call(n) PROVE Answered'
  <2>1. pc = "idle" /\ request' = n /\ nodeBitmap' = nodeBitmap /\ outcome' = outcome
    BY <1>2 DEF Call
  <2>2. n \in Nat
    BY BTreeAssumption
  <2>3. ASSUME nodeBitmap = NULL, loadingBitmap, n # 0 PROVE BlindYes(n)
    <3>1. nodeBitmapSize = 0
      BY <2>3 DEF nodeBitmapSize
    <3> QED
      BY <2>2, <2>3, <3>1 DEF BlindYes
  <2>4. nodeBitmap # NULL => ~loadingBitmap
    BY <2>1 DEF Bitmap
  <2>5. CASE n = 0 \/ BlindYes(n)
    <3>1. pc' = "node" /\ loadingBitmap' = loadingBitmap
      BY <1>2, <2>5 DEF Call
    <3>2. n # 0 => Blind
      BY <2>4, <2>5 DEF BlindYes, Blind
    <3>3. Blind' = Blind
      BY <2>1, <3>1 DEF Blind
    <3> QED
      BY <2>1, <3>1, <3>2, <3>3 DEF Answered, Unused
  <2>6. CASE ~(n = 0 \/ BlindYes(n))
    <3>1. pc' \in {"header", "check"}
      BY <1>2, <2>6 DEF Call
    <3>2. ~Blind
      BY <2>3, <2>6 DEF Blind
    <3> QED
      BY <2>1, <3>1, <3>2 DEF Answered, Unused
  <2> QED
    BY <2>5, <2>6
<1>3. ASSUME LoadHeaderFails PROVE Answered'
  <2>1. pc = "header" /\ pc' = "idle" /\ outcome'.rc = "unused"
    BY <1>3 DEF LoadHeaderFails, Ended
  <2> QED
    BY <2>1 DEF Answered
<1>4. ASSUME LoadHeader PROVE Answered'
  <2>1. pc = "header" /\ outcome' = outcome /\ pc' \in {"map", "check"}
    BY <1>4 DEF LoadHeader
  <2> QED
    BY <2>1 DEF Answered, Unused
<1>5. ASSUME LoadMapFails PROVE Answered'
  <2>1. pc' = "aborted" /\ outcome'.rc = "aborted"
    BY <1>5 DEF LoadMapFails, Ended
  <2> QED
    BY <2>1 DEF Answered
<1>6. ASSUME LoadMap PROVE Answered'
  <2>1. pc = "map" /\ outcome' = outcome /\ pc' \in {"map", "check"}
    BY <1>6 DEF LoadMap
  <2>2. ~Blind
    BY <2>1, WholeBitmaps DEF Blind
  <2> QED
    BY <2>1, <2>2 DEF Answered, Unused
<1>7. ASSUME Check PROVE Answered'
  <2>1. /\ pc = "check" /\ request' = request /\ nodeBitmap = Bits /\ ~Blind
        /\ request \in Nat /\ nodeBitmap # NULL
    BY <1>7, WholeBitmaps DEF Check, Bitmap, Blind, Types
  <2>2. PICK used \in BTIsBlockUsed(request) :
          IF request = 0
          THEN pc' = "idle" /\ outcome' = Ended("loaded")
          ELSE IF used
          THEN pc' = "node" /\ outcome' = outcome
          ELSE pc' = "idle" /\ outcome' = Ended("unused")
    BY <1>7 DEF Check
  <2>3. CASE pc' = "idle"
    <3>1. outcome'.rc \in {"loaded", "unused"}
      BY <2>2, <2>3 DEF Ended
    <3> QED
      BY <2>3, <3>1 DEF Answered
  <2>4. CASE pc' # "idle"
    <3>1. pc' = "node" /\ outcome' = outcome /\ used
      BY <2>2, <2>4
    <3>2. ~Unused(request)
      <4> SUFFICES ASSUME request + 1 \in DOMAIN Bits PROVE Bits[request + 1] # 0
        BY DEF Unused
      <4>1. request < Len(Bits)
        BY <2>1, BitOf
      <4>2. BTIsBlockUsed(request) = {Bits[request + 1] = 1}
        BY <2>1, <4>1, BitsAre, AnswersAre
      <4>3. Bits[request + 1] = 1
        BY <2>2, <3>1, <4>2
      <4> QED
        BY <4>3
    <3> QED
      BY <2>1, <3>1, <3>2 DEF Answered, Unused
  <2> QED
    BY <2>3, <2>4
<1>8. ASSUME FetchNode PROVE Answered'
  <2>1. pc = "node" /\ pc' = "idle" /\ outcome'.node = request
    BY <1>8 DEF FetchNode, Ended
  <2>2. Blind' = Blind
    BY <1>8 DEF FetchNode, Blind
  <2> QED
    BY <2>1, <2>2 DEF Answered, Unused
<1>9. ASSUME UNCHANGED vars PROVE Answered'
  BY <1>9 DEF vars, Answered, Unused, Blind
<1> QED
  BY <1>1, <1>2, <1>3, <1>4, <1>5, <1>6, <1>7, <1>8, <1>9 DEF Next
-----------------------------------------------------------------------------
(***************************************************************************)
(* With a readable fork and a sound map nothing in use is refused.         *)
(***************************************************************************)

Sound ==
  readable /\ SoundMap =>
    /\ pc # "aborted"
    /\ loadingBitmap => pc \in {"header", "map"}
    /\ pc \in {"header", "map", "check", "node"} => request < TotalNodes
    /\ outcome.rc = "unused" => outcome.node = 0 \/ Bits[outcome.node + 1] = 0
    /\ outcome.rc = "invalid" => outcome.node \notin Healthy

\* The load finds every map node in use: its bit is among those loaded or lies
\* beyond all of them.
LEMMA MapNodesLoad ==
  ASSUME Types, Bitmap, readable, SoundMap, pc = "map"
  PROVE  ~ LoadMapFails
<1> DEFINE n == MapRecords[link].node
<1>1. LastLink \in Nat /\ link \in 2..LastLink /\ nodeBitmap = Loaded[link - 1]
      /\ link - 1 \in 1..LastLink /\ link \in DOMAIN MapRecords /\ loadingBitmap
  BY PartsAre DEF Bitmap
<1>2. n \in Healthy /\ n > 0 /\ Bits[n + 1] = 1
  BY <1>1 DEF SoundMap
<1> HIDE DEF n
<1>3. n \in Nat /\ n < TotalNodes
  <2>1. n \in 0..(TotalNodes - 1)
    BY <1>2, BTreeAssumption
  <2> QED
    BY <2>1, BTreeAssumption
<1>4. MapNodeUsed(n) = {TRUE}
  <2>1. CASE BlindYes(n)
    BY <2>1 DEF MapNodeUsed
  <2>2. CASE ~BlindYes(n)
    <3>1. nodeBitmap \in BitSeq /\ nodeBitmap # NULL /\ Len(nodeBitmap) % BitsPerByte = 0
      BY <1>1, LoadedAre, NullIs
    <3>2. Len(nodeBitmap) \in Nat /\ BitsPerByte \in Nat \ {0, 1}
      BY <3>1, BTreeAssumption DEF BitSeq
    <3>3. n <= Len(nodeBitmap) \div BitsPerByte
      <4>1. nodeBitmapSize = Len(nodeBitmap) \div BitsPerByte /\ nodeBitmapSize \in Nat
        BY <3>1, <3>2, Quotient DEF nodeBitmapSize
      <4> HIDE DEF nodeBitmapSize
      <4>2. ~(n > nodeBitmapSize)
        BY <1>1, <2>2 DEF BlindYes
      <4> QED
        BY <1>3, <4>1, <4>2
    <3>4. n < Len(nodeBitmap)
      <4> DEFINE d == Len(nodeBitmap) \div BitsPerByte
      <4>1. d \in Nat /\ Len(nodeBitmap) = d * BitsPerByte
        BY <3>1, <3>2, Quotient
      <4>2. n <= d
        BY <3>3
      <4> HIDE DEF d
      <4>3. 2 * d <= BitsPerByte * d /\ BitsPerByte * d = d * BitsPerByte
        BY <3>2, <4>1, Bound
      <4> QED
        BY <1>2, <1>3, <4>1, <4>2, <4>3
    <3>5. BTIsBlockUsed(n) = {nodeBitmap[n + 1] = 1}
      BY <1>3, <3>1, <3>4, AnswersAre
    <3>6. nodeBitmap[n + 1] = 1
      <4>1. n + 1 \in 1..Len(Loaded[link - 1])
        BY <1>1, <1>3, <3>2, <3>4
      <4>2. Bits[n + 1] = Loaded[link - 1][n + 1]
        BY <1>1, <4>1, LoadedIsPrefix
      <4> QED
        BY <1>1, <1>2, <4>2
    <3> QED
      BY <2>2, <3>5, <3>6 DEF MapNodeUsed
  <2> QED
    BY <2>1, <2>2
<1>5. \A f \in Fetches(n) : f.rc = "ok"
  BY <1>2, <1>3, FetchesAre
<1>6. ASSUME LoadMapFails PROVE FALSE
  <2>1. \/ n >= TotalNodes
        \/ FALSE \in MapNodeUsed(n)
        \/ \E f \in Fetches(n) : f.rc # "ok"
    BY <1>6 DEF LoadMapFails, n
  <2>2. FALSE \notin MapNodeUsed(n)
    BY <1>4
  <2>3. ~(n >= TotalNodes)
    BY <1>3, BTreeAssumption
  <2> QED
    BY <1>5, <2>1, <2>2, <2>3, Zenon
<1> QED
  BY <1>6

LEMMA SoundKept ==
  ASSUME Types, Bitmap, Sound, [Next]_vars
  PROVE  Sound'
<1>1. SoundMap' = SoundMap /\ readable' = readable
  BY DEF SoundMap, Bits, Next, CallBeyondTree, Call, LoadHeaderFails, LoadHeader,
         LoadMapFails, LoadMap, Check, FetchNode, vars
<1> SUFFICES ASSUME readable, SoundMap
             PROVE  Sound'
  BY <1>1 DEF Sound
<1>2. /\ pc # "aborted"
      /\ loadingBitmap => pc \in {"header", "map"}
      /\ pc \in {"header", "map", "check", "node"} => request < TotalNodes
      /\ outcome.rc = "unused" => outcome.node = 0 \/ Bits[outcome.node + 1] = 0
      /\ outcome.rc = "invalid" => outcome.node \notin Healthy
  BY DEF Sound
<1>3. ASSUME NEW n \in Wanted, CallBeyondTree(n) PROVE Sound'
  <2>1. pc = "idle" /\ pc' = pc /\ loadingBitmap' = loadingBitmap /\ outcome'.rc = "range"
    BY <1>3 DEF CallBeyondTree
  <2> QED
    BY <1>2, <2>1 DEF Sound
<1>4. ASSUME NEW n \in Wanted, Call(n) PROVE Sound'
  <2>1. pc = "idle" /\ n < TotalNodes /\ request' = n /\ outcome' = outcome
    BY <1>4 DEF Call
  <2>2. \/ pc' \in {"node", "check"} /\ loadingBitmap' = loadingBitmap
        \/ pc' = "header"
    BY <1>4 DEF Call
  <2> QED
    BY <1>2, <2>1, <2>2 DEF Sound
<1>5. ~ LoadHeaderFails
  <2>1. 1 \in DOMAIN MapRecords /\ MapRecords[1].node = 0
    BY BTreeAssumption, PartsAre
  <2>2. 0 \in Healthy
    BY <2>1 DEF SoundMap
  <2>3. \A f \in Fetches(0) : f.rc = "ok"
    BY <2>2, FetchesAre
  <2> QED
    BY <2>3 DEF LoadHeaderFails
<1>6. ASSUME LoadHeader PROVE Sound'
  <2>1. /\ pc = "header" /\ outcome' = outcome /\ request' = request
        /\ \/ pc' = "map"
           \/ pc' = "check" /\ loadingBitmap' = FALSE
    BY <1>6 DEF LoadHeader
  <2> QED
    BY <1>2, <2>1 DEF Sound
<1>7. ~ LoadMapFails
  BY MapNodesLoad DEF LoadMapFails
<1>8. ASSUME LoadMap PROVE Sound'
  <2>1. /\ pc = "map" /\ outcome' = outcome /\ request' = request
        /\ \/ pc' = "map"
           \/ pc' = "check" /\ loadingBitmap' = FALSE
    BY <1>8 DEF LoadMap
  <2> QED
    BY <1>2, <2>1 DEF Sound
<1>9. ASSUME Check PROVE Sound'
  <2>1. /\ pc = "check" /\ request' = request /\ nodeBitmap = Bits /\ nodeBitmap # NULL
        /\ ~loadingBitmap /\ loadingBitmap' = loadingBitmap
        /\ request \in Nat /\ request < TotalNodes
    BY <1>2, <1>9, WholeBitmaps DEF Check, Bitmap, Types
  <2>2. request < Len(Bits)
    BY <2>1, BitsAre, BTreeAssumption DEF SoundMap
  <2>3. BTIsBlockUsed(request) = {Bits[request + 1] = 1}
    BY <2>1, <2>2, BitsAre, AnswersAre
  <2>4. PICK used \in BTIsBlockUsed(request) :
          IF request = 0
          THEN pc' = "idle" /\ outcome' = Ended("loaded")
          ELSE IF used
          THEN pc' = "node" /\ outcome' = outcome
          ELSE pc' = "idle" /\ outcome' = Ended("unused")
    BY <1>9 DEF Check
  <2>5. CASE request = 0
    <3>1. pc' = "idle" /\ outcome'.rc = "loaded"
      BY <2>4, <2>5 DEF Ended
    <3> QED
      BY <2>1, <3>1 DEF Sound
  <2>6. CASE request # 0 /\ used
    <3>1. pc' = "node" /\ outcome' = outcome
      BY <2>4, <2>6
    <3> QED
      BY <1>2, <2>1, <3>1 DEF Sound
  <2>7. CASE request # 0 /\ ~used
    <3>1. pc' = "idle" /\ outcome'.rc = "unused" /\ outcome'.node = request
      BY <2>4, <2>7 DEF Ended
    <3>2. Bits[request + 1] # 1
      BY <2>3, <2>7
    <3>3. Bits[request + 1] = 0
      BY <2>1, <2>2, <3>2, BitOf, BitIsZeroOrOne
    <3> QED
      BY <2>1, <3>1, <3>3 DEF Sound
  <2> QED
    BY <2>5, <2>6, <2>7
<1>10. ASSUME FetchNode PROVE Sound'
  <2>1. PICK f \in Fetches(request) : outcome' = Ended(f.rc)
    BY <1>10 DEF FetchNode
  <2>2. pc = "node" /\ pc' = "idle" /\ loadingBitmap' = loadingBitmap
    BY <1>10 DEF FetchNode
  <2>3. f.rc = IF request \in Healthy THEN "ok" ELSE "invalid"
    BY FetchesAre DEF Types
  <2>4. outcome'.node = request /\ outcome'.rc = f.rc
    BY <2>1 DEF Ended
  <2> QED
    BY <1>2, <2>2, <2>3, <2>4 DEF Sound
<1>11. ASSUME UNCHANGED vars PROVE Sound'
  BY <1>2, <1>11 DEF vars, Sound
<1> QED
  BY <1>3, <1>4, <1>5, <1>6, <1>7, <1>8, <1>9, <1>10, <1>11 DEF Next

-----------------------------------------------------------------------------
(***************************************************************************)
(* The specification of the records takes no other steps on the tree.      *)
(***************************************************************************)

LEMMA RecordsAreNodes == RecordsSpec => Spec
<1>1. RecordsInit => Init
  BY DEF RecordsInit
<1>2. [RecordsNext]_<<vars, recordVars>> => [Next]_vars
  BY DEF RecordsNext, LoadBlock, CallForRecords, GetNode, LoadBitmap, Next
<1> QED
  BY <1>1, <1>2, PTL DEF RecordsSpec, Spec

Inductive == Types /\ Bitmap /\ Answered /\ Sound

LEMMA InductiveHolds == Spec => []Inductive
<1>1. Init => Inductive
  <2> SUFFICES ASSUME Init PROVE Inductive
    OBVIOUS
  <2>1. Types /\ Bitmap
    BY InitIs
  <2>2. Answered
    BY DEF Init, Answered
  <2>3. Sound
    BY BTreeAssumption DEF Init, Sound
  <2> QED
    BY <2>1, <2>2, <2>3 DEF Inductive
<1>2. Inductive /\ [Next]_vars => Inductive'
  BY StepKeeps, AnsweredKept, SoundKept DEF Inductive
<1> QED
  BY <1>1, <1>2, PTL DEF Spec

\* The cache that getNode reads through only ever holds whole nodes, however
\* many reads of the fork fall short (btree_get_node, cache_set).
THEOREM CacheHoldsWholeNodesHolds == RecordsSpec => []CacheHoldsWholeNodes
<1>1. Inductive => CacheHoldsWholeNodes
  <2> SUFFICES ASSUME Inductive, NEW i \in DOMAIN cached
               PROVE  cached[i].data = "full"
    BY DEF CacheHoldsWholeNodes
  <2>1. cached \in Seq(Entry)
    BY DEF Inductive, Types
  <2>2. cached[i] \in Entry
    BY <2>1, ElementOfSeq
  <2> QED
    BY <2>2 DEF Entry
<1> QED
  BY <1>1, RecordsAreNodes, InductiveHolds, PTL

\* Whatever the chain of map nodes, an answer of BTIsNodeUsed outside the load
\* comes from the bits of all of them (BTIsNodeUsed, btree_get_node).
THEOREM BitmapCompleteHolds == RecordsSpec => []BitmapComplete
<1>1. Inductive => BitmapComplete
  BY DEF Inductive, Bitmap, BitmapComplete
<1> QED
  BY <1>1, RecordsAreNodes, InductiveHolds, PTL

\* A node marked unused is handed out only after the header node failed to load
\* and left the flag set (BTIsNodeUsed).
THEOREM UnusedOnlyWhenBlindHolds == RecordsSpec => []UnusedOnlyWhenBlind
<1>1. Inductive => UnusedOnlyWhenBlind
  BY DEF Inductive, Answered, Unused, UnusedOnlyWhenBlind
<1> QED
  BY <1>1, RecordsAreNodes, InductiveHolds, PTL

\* A readable fork with a sound map never stops the program and gives every
\* node in use, for a chain of map nodes of any length (btree_get_node,
\* BTIsNodeUsed).
THEOREM UsedNodesLoadHolds == RecordsSpec => []UsedNodesLoad
<1>1. Inductive => UsedNodesLoad
  BY DEF Inductive, Sound, UsedNodesLoad
<1> QED
  BY <1>1, RecordsAreNodes, InductiveHolds, PTL
=============================================================================
