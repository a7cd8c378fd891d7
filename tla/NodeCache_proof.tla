-------------------------- MODULE NodeCache_proof --------------------------
(* The three views of the node cache agree, and its pointers implement the  *)
(* least-recently-used map of LruCache, for any keys, any limit and any     *)
(* number of addresses, after any sequence of calls.                        *)
EXTENDS NodeCache, SequenceTheorems, TLAPS

USE NullAssumption, FreeAssumption, MaxRecordsAssumption

Injective(s) == \A m, n \in DOMAIN s : s[m] = s[n] => m = n
Elements(s) == {s[m] : m \in DOMAIN s}

\* A cache in order, before, between and after the calls of cache_set, which
\* removes up to two records and adds one: list, tree, heap and counter say the
\* same.  For the cache of a state this is ViewsAgree and CountExact with the
\* types.
InOrder(c) ==
  /\ c.heap \in [Addresses -> Records \cup {Free}]
  /\ c.list \in Seq(Addresses)
  /\ c.index \in [Keys -> Addresses \cup {NULL}]
  /\ c.count = Len(c.list)
  /\ Injective(c.list)
  /\ \A a \in Addresses : c.heap[a] # Free <=> a \in Elements(c.list)
  /\ \A k \in Keys, a \in Addresses :
       c.index[k] = a <=> c.heap[a] # Free /\ c.heap[a].key = k

Inductive == Open => InOrder(Current)

\* What stands at a place of two sequences put together.
LEMMA Joined ==
  ASSUME NEW S, NEW s \in Seq(S), NEW t \in Seq(S)
  PROVE  /\ s \o t \in Seq(S) /\ Len(s \o t) = Len(s) + Len(t)
         /\ \A m \in 1..(Len(s) + Len(t)) :
              (s \o t)[m] = IF m <= Len(s) THEN s[m] ELSE t[m - Len(s)]
OBVIOUS

\* What is behind the place n moves up by one.
LEMMA RemoveAtMoves ==
  ASSUME NEW S, NEW s \in Seq(S), NEW n \in DOMAIN s
  PROVE  /\ RemoveAt(s, n) \in Seq(S)
         /\ Len(RemoveAt(s, n)) = Len(s) - 1
         /\ \A m \in 1..Len(s) - 1 : RemoveAt(s, n)[m] = IF m < n THEN s[m] ELSE s[m + 1]
<1> DEFINE before == SubSeq(s, 1, n - 1)
           after == SubSeq(s, n + 1, Len(s))
           u == before \o after
<1>1. n \in 1..Len(s) /\ Len(s) \in Nat
  OBVIOUS
<1>2. /\ before \in Seq(S) /\ Len(before) = n - 1
      /\ \A m \in 1..n - 1 : before[m] = s[m]
  BY <1>1
<1>3. /\ after \in Seq(S) /\ Len(after) = Len(s) - n
      /\ \A m \in 1..Len(s) - n : after[m] = s[m + n]
  BY <1>1
<1>4. RemoveAt(s, n) = u
  BY DEF RemoveAt
<1> HIDE DEF before, after
<1>5. /\ u \in Seq(S) /\ Len(u) = Len(before) + Len(after)
      /\ \A m \in 1..(Len(before) + Len(after)) :
           u[m] = IF m <= Len(before) THEN before[m] ELSE after[m - Len(before)]
  BY <1>2, <1>3, Joined, Zenon
<1> HIDE DEF u
<1>6. Len(u) = Len(s) - 1
  BY <1>1, <1>2, <1>3, <1>5
<1>7. ASSUME NEW m \in 1..Len(s) - 1
      PROVE  u[m] = IF m < n THEN s[m] ELSE s[m + 1]
  <2>1. u[m] = IF m <= n - 1 THEN before[m] ELSE after[m - (n - 1)]
    <3>1. Len(before) = n - 1 /\ Len(before) + Len(after) = Len(s) - 1
      BY <1>1, <1>2, <1>3
    <3>2. \A l \in 1..Len(s) - 1 :
            u[l] = IF l <= n - 1 THEN before[l] ELSE after[l - (n - 1)]
      BY <1>5, <3>1, Zenon
    <3> QED
      BY <3>2, Zenon
  <2>2. m <= n - 1 => m \in 1..n - 1 /\ m < n
    BY <1>1
  <2>3. ~(m <= n - 1) =>
          m - (n - 1) \in 1..Len(s) - n /\ (m - (n - 1)) + n = m + 1 /\ ~(m < n)
    BY <1>1
  <2> QED
    BY <2>1, <2>2, <2>3, <1>2, <1>3, Zenon
<1> QED
  BY <1>4, <1>5, <1>6, <1>7, Zenon

\* Unlinking the record at place n.
LEMMA UnlinkIs ==
  ASSUME NEW S, NEW s \in Seq(S), Injective(s), NEW n \in DOMAIN s
  PROVE  Unlink(s, s[n]) = RemoveAt(s, n)
<1>1. (CHOOSE i \in DOMAIN s : s[i] = s[n]) = n
  BY DEF Injective
<1> QED
  BY <1>1 DEF Unlink

\* What is unlinked is gone, and everything else is still there once.
LEMMA UnlinkKeepsOthers ==
  ASSUME NEW S, NEW s \in Seq(S), Injective(s), NEW n \in DOMAIN s
  PROVE  /\ Unlink(s, s[n]) \in Seq(S)
         /\ Len(Unlink(s, s[n])) = Len(s) - 1
         /\ Injective(Unlink(s, s[n]))
         /\ Elements(Unlink(s, s[n])) = Elements(s) \ {s[n]}
<1> DEFINE u == Unlink(s, s[n])
<1>1. /\ u \in Seq(S) /\ Len(u) = Len(s) - 1
      /\ \A m \in 1..Len(s) - 1 : u[m] = IF m < n THEN s[m] ELSE s[m + 1]
  BY UnlinkIs, RemoveAtMoves
<1>2. n \in 1..Len(s) /\ Len(s) \in Nat /\ DOMAIN s = 1..Len(s) /\ DOMAIN u = 1..Len(s) - 1
  BY <1>1
<1> HIDE DEF u
<1>3. Injective(u)
  BY <1>1, <1>2 DEF Injective
<1>4. ASSUME NEW m \in DOMAIN u PROVE u[m] # s[n] /\ \E l \in DOMAIN s : s[l] = u[m]
  BY <1>1, <1>2 DEF Injective
<1>5. ASSUME NEW m \in DOMAIN s, s[m] # s[n] PROVE \E l \in DOMAIN u : u[l] = s[m]
  <2>1. CASE m < n
    BY <2>1, <1>1, <1>2
  <2>2. CASE m > n
    <3>1. m - 1 \in DOMAIN u /\ u[m - 1] = s[m]
      BY <2>2, <1>1, <1>2
    <3> QED
      BY <3>1
  <2> QED
    BY <2>1, <2>2, <1>2, <1>5
<1>6. Elements(u) = Elements(s) \ {s[n]}
  BY <1>4, <1>5 DEF Elements
<1> QED
  BY <1>1, <1>3, <1>6 DEF u

\* cache_record_remove_ leaves a cache in order, without the record.
LEMMA RemovedInOrder ==
  ASSUME NEW c, InOrder(c), NEW r \in Addresses, c.heap[r] # Free
  PROVE  /\ InOrder(Removed(c, r))
         /\ Removed(c, r).heap = [c.heap EXCEPT ![r] = Free]
         /\ Removed(c, r).index = [c.index EXCEPT ![c.heap[r].key] = NULL]
<1> DEFINE d == Removed(c, r)
<1>1. /\ d.heap = [c.heap EXCEPT ![r] = Free]
      /\ d.list = Unlink(c.list, r)
      /\ d.index = [c.index EXCEPT ![c.heap[r].key] = NULL]
      /\ d.count = IF c.count > 0 THEN c.count - 1 ELSE 0
  BY DEF Removed
<1>2. PICK n \in DOMAIN c.list : c.list[n] = r
  BY DEF InOrder, Elements
<1>3. c.list \in Seq(Addresses) /\ Injective(c.list)
  BY DEF InOrder
<1> HIDE DEF d
<1>4. /\ d.list \in Seq(Addresses) /\ Len(d.list) = Len(c.list) - 1 /\ Injective(d.list)
      /\ Elements(d.list) = Elements(c.list) \ {r}
  <2> DEFINE s == c.list
  <2>1. s \in Seq(Addresses) /\ Injective(s) /\ n \in DOMAIN s /\ s[n] = r
    BY <1>2, <1>3
  <2>2. d.list = Unlink(s, s[n])
    BY <2>1, <1>1
  <2> HIDE DEF s
  <2>3. /\ d.list \in Seq(Addresses) /\ Len(d.list) = Len(s) - 1 /\ Injective(d.list)
        /\ Elements(d.list) = Elements(s) \ {s[n]}
    <3>1. /\ Unlink(s, s[n]) \in Seq(Addresses)
          /\ Len(Unlink(s, s[n])) = Len(s) - 1
          /\ Injective(Unlink(s, s[n]))
          /\ Elements(Unlink(s, s[n])) = Elements(s) \ {s[n]}
      BY <2>1, UnlinkKeepsOthers, Zenon
    <3> QED
      BY <2>2, <3>1
  <2> QED
    BY <2>1, <2>3 DEF s
<1>5. Len(c.list) \in Nat /\ Len(c.list) > 0 /\ c.count = Len(c.list)
  BY <1>2, <1>3 DEF InOrder
<1>6. c.heap[r] \in Records /\ c.heap[r].key \in Keys
  BY DEF InOrder, Records
<1>7. /\ d.heap \in [Addresses -> Records \cup {Free}]
      /\ d.index \in [Keys -> Addresses \cup {NULL}]
  BY <1>1, <1>6 DEF InOrder
<1>8. d.count = Len(d.list)
  BY <1>1, <1>4, <1>5
<1>9. \A a \in Addresses : d.heap[a] # Free <=> a \in Elements(d.list)
  <2>1. \A a \in Addresses : d.heap[a] # Free <=> a # r /\ c.heap[a] # Free
    BY <1>1 DEF InOrder
  <2>2. \A a \in Addresses : c.heap[a] # Free <=> a \in Elements(c.list)
    BY DEF InOrder
  <2> QED
    BY <2>1, <2>2, <1>4
<1>10. ASSUME NEW k \in Keys, NEW a \in Addresses
       PROVE  d.index[k] = a <=> d.heap[a] # Free /\ d.heap[a].key = k
  BY <1>1, <1>6 DEF InOrder
<1>11. InOrder(d)
  BY <1>4, <1>7, <1>8, <1>9, <1>10 DEF InOrder
<1> QED
  BY <1>1, <1>11 DEF d

\* A record put in front of the others, which do not hold it.
LEMMA InFront ==
  ASSUME NEW S, NEW s \in Seq(S), Injective(s), NEW r \in S, r \notin Elements(s)
  PROVE  /\ <<r>> \o s \in Seq(S) /\ Len(<<r>> \o s) = Len(s) + 1
         /\ Injective(<<r>> \o s) /\ Elements(<<r>> \o s) = {r} \cup Elements(s)
<1> DEFINE u == <<r>> \o s
<1>1. /\ u \in Seq(S) /\ Len(u) = Len(s) + 1 /\ Len(s) \in Nat
      /\ u[1] = r /\ \A m \in 1..Len(s) : u[m + 1] = s[m]
  OBVIOUS
<1> HIDE DEF u
<1>2. DOMAIN s = 1..Len(s) /\ DOMAIN u = 1..Len(s) + 1
  BY <1>1
<1>3. \A m \in DOMAIN u : m = 1 \/ (m - 1 \in DOMAIN s /\ u[m] = s[m - 1])
  BY <1>1, <1>2
<1>4. Injective(u)
  <2> SUFFICES ASSUME NEW m \in DOMAIN u, NEW n \in DOMAIN u, u[m] = u[n] PROVE m = n
    BY DEF Injective
  <2> QED
    BY <1>1, <1>2, <1>3 DEF Injective, Elements
<1>5. ASSUME NEW m \in DOMAIN u PROVE u[m] = r \/ \E l \in DOMAIN s : s[l] = u[m]
  BY <1>1, <1>3
<1>6. ASSUME NEW m \in DOMAIN s PROVE \E l \in DOMAIN u : u[l] = s[m]
  <2>1. m + 1 \in DOMAIN u /\ u[m + 1] = s[m]
    BY <1>1, <1>2
  <2> QED
    BY <2>1
<1>7. 1 \in DOMAIN u
  BY <1>1, <1>2
<1>8. ASSUME NEW x PROVE x \in Elements(u) <=> x = r \/ x \in Elements(s)
  <2>1. x \in Elements(u) <=> \E m \in DOMAIN u : u[m] = x
    BY DEF Elements
  <2>2. x \in Elements(s) <=> \E m \in DOMAIN s : s[m] = x
    BY DEF Elements
  <2>3. u[1] = r
    BY <1>1
  <2> QED
    BY <2>1, <2>2, <2>3, <1>5, <1>6, <1>7, Zenon
<1>9. Elements(u) = {r} \cup Elements(s)
  BY <1>8, Zenon
<1> QED
  BY <1>1, <1>4, <1>9 DEF u

\* cache_rem leaves no record with the key.
LEMMA WithoutInOrder ==
  ASSUME NEW c, InOrder(c), NEW k \in Keys
  PROVE  InOrder(Without(c, k)) /\ Without(c, k).index[k] = NULL
<1>1. CASE c.index[k] = NULL
  BY <1>1 DEF Without
<1>2. CASE c.index[k] # NULL
  <2> DEFINE r == c.index[k]
  <2>1. r \in Addresses /\ c.heap[r] # Free /\ c.heap[r].key = k
    BY <1>2 DEF InOrder
  <2>2. Without(c, k) = Removed(c, r)
    BY <1>2 DEF Without
  <2>3. /\ InOrder(Removed(c, r))
        /\ Removed(c, r).index = [c.index EXCEPT ![c.heap[r].key] = NULL]
    BY <2>1, RemovedInOrder
  <2>4. [c.index EXCEPT ![k] = NULL][k] = NULL
    BY DEF InOrder
  <2> QED
    BY <2>1, <2>2, <2>3, <2>4
<1> QED
  BY <1>1, <1>2

\* The eviction of cache_record_new_ keeps the cache in order, frees an address
\* at most, and brings no key back.
LEMMA WithRoomInOrder ==
  ASSUME NEW c, InOrder(c), NEW k \in Keys, c.index[k] = NULL,
         NEW r \in Addresses, c.heap[r] = Free
  PROVE  InOrder(WithRoom(c)) /\ WithRoom(c).index[k] = NULL /\ WithRoom(c).heap[r] = Free
<1>1. CASE ~(c.count > MaxRecords)
  BY <1>1 DEF WithRoom
<1>2. CASE c.count > MaxRecords
  <2> DEFINE last == Last(c.list)
  <2>1. c.list \in Seq(Addresses) /\ Len(c.list) \in Nat /\ Len(c.list) > 0
    BY <1>2 DEF InOrder
  <2>2. Len(c.list) \in DOMAIN c.list /\ last = c.list[Len(c.list)] /\ last \in Addresses
    BY <2>1 DEF Last
  <2>3. c.heap[last] # Free
    BY <2>2 DEF InOrder, Elements
  <2>4. WithRoom(c) = Removed(c, last)
    BY <1>2 DEF WithRoom
  <2>5. /\ InOrder(Removed(c, last))
        /\ Removed(c, last).heap = [c.heap EXCEPT ![last] = Free]
        /\ Removed(c, last).index = [c.index EXCEPT ![c.heap[last].key] = NULL]
    BY <2>2, <2>3, RemovedInOrder
  <2>6. /\ [c.heap EXCEPT ![last] = Free][r] = Free
        /\ [c.index EXCEPT ![c.heap[last].key] = NULL][k] = NULL
    BY DEF InOrder
  <2> QED
    BY <2>4, <2>5, <2>6
<1> QED
  BY <1>1, <1>2

\* The insertion of cache_set, with the eviction in it.
LEMMA InsertedInOrder ==
  ASSUME NEW c, InOrder(c), NEW k \in Keys, c.index[k] = NULL, NEW b \in Buffers,
         NEW r \in Addresses, c.heap[r] = Free
  PROVE  InOrder(Inserted(c, k, b, r))
<1> DEFINE room == WithRoom(c)
           d == Inserted(c, k, b, r)
           entry == [key |-> k, data |-> b]
<1>1. InOrder(room) /\ room.index[k] = NULL /\ room.heap[r] = Free
  BY WithRoomInOrder
<1>2. /\ d.heap = [room.heap EXCEPT ![r] = entry]
      /\ d.list = <<r>> \o room.list
      /\ d.index = [room.index EXCEPT ![k] = r]
      /\ d.count = room.count + 1
  BY DEF Inserted
<1>3. entry \in Records /\ entry # Free /\ entry.key = k
  BY DEF Records
<1> HIDE DEF room, d, entry
<1>4. room.list \in Seq(Addresses) /\ Injective(room.list) /\ r \notin Elements(room.list)
  BY <1>1 DEF InOrder
<1>5. /\ d.list \in Seq(Addresses) /\ Len(d.list) = Len(room.list) + 1 /\ Injective(d.list)
      /\ Elements(d.list) = {r} \cup Elements(room.list)
  BY <1>2, <1>4, InFront
<1>6. /\ d.heap \in [Addresses -> Records \cup {Free}]
      /\ d.index \in [Keys -> Addresses \cup {NULL}]
  BY <1>1, <1>2, <1>3 DEF InOrder
<1>7. d.count = Len(d.list)
  BY <1>1, <1>2, <1>5 DEF InOrder
<1>8. \A a \in Addresses : d.heap[a] # Free <=> a \in Elements(d.list)
  <2>1. \A a \in Addresses : d.heap[a] # Free <=> a = r \/ room.heap[a] # Free
    BY <1>1, <1>2, <1>3 DEF InOrder
  <2>2. \A a \in Addresses : room.heap[a] # Free <=> a \in Elements(room.list)
    BY <1>1 DEF InOrder
  <2> QED
    BY <2>1, <2>2, <1>5
<1>9. ASSUME NEW l \in Keys, NEW a \in Addresses
      PROVE  d.index[l] = a <=> d.heap[a] # Free /\ d.heap[a].key = l
  BY <1>1, <1>2, <1>3 DEF InOrder
<1> QED
  BY <1>5, <1>6, <1>7, <1>8, <1>9 DEF InOrder, d

\* cache_init makes an empty cache.
LEMMA InitInductive == Init => Inductive
<1> SUFFICES ASSUME Init PROVE InOrder(Current)
  BY DEF Inductive
<1>1. /\ Current.heap = [a \in Addresses |-> Free] /\ Current.list = <<>>
      /\ Current.index = [k \in Keys |-> NULL] /\ Current.count = 0
  BY DEF Init, Current
<1> QED
  BY <1>1 DEF InOrder, Injective, Elements

\* The record that cache_get found goes to the front.
LEMMA GetHitInductive ==
  ASSUME Inductive, NEW k \in Keys, GetHit(k)
  PROVE  Inductive'
<1> DEFINE r == index[k]
           u == Unlink(list, r)
<1>1. Open /\ InOrder(Current)
  BY DEF GetHit, Inductive
<1>2. /\ Current.heap = heap /\ Current.list = list
      /\ Current.index = index /\ Current.count = recordCount
  BY DEF Current
<1>3. /\ heap' = heap /\ index' = index /\ recordCount' = recordCount
      /\ list' = <<r>> \o u /\ r # NULL
  BY DEF GetHit
<1>4. r \in Addresses /\ heap[r] # Free
  BY <1>1, <1>2, <1>3 DEF InOrder
<1>5. list \in Seq(Addresses) /\ Injective(list) /\ recordCount = Len(list)
  BY <1>1, <1>2 DEF InOrder
<1>6. PICK n \in DOMAIN list : list[n] = r
  BY <1>1, <1>2, <1>4 DEF InOrder, Elements
<1>7. /\ u \in Seq(Addresses) /\ Len(u) = Len(list) - 1 /\ Injective(u)
      /\ Elements(u) = Elements(list) \ {r} /\ r \in Elements(list)
  <2>1. u = Unlink(list, list[n])
    BY <1>6
  <2>2. /\ Unlink(list, list[n]) \in Seq(Addresses)
        /\ Len(Unlink(list, list[n])) = Len(list) - 1
        /\ Injective(Unlink(list, list[n]))
        /\ Elements(Unlink(list, list[n])) = Elements(list) \ {list[n]}
    BY <1>5, UnlinkKeepsOthers, Zenon
  <2> QED
    BY <2>1, <2>2, <1>6 DEF Elements
<1> HIDE DEF r, u
<1>8. r \notin Elements(u)
  BY <1>7
<1>9. /\ list' \in Seq(Addresses) /\ Len(list') = Len(u) + 1 /\ Injective(list')
      /\ Elements(list') = {r} \cup Elements(u)
  BY <1>3, <1>4, <1>7, <1>8, InFront
<1>10. Elements(list') = Elements(list)
  BY <1>7, <1>9
<1>11. Len(list') = Len(list)
  BY <1>5, <1>7, <1>9
<1>12. /\ Current'.heap = heap /\ Current'.list = list'
       /\ Current'.index = index /\ Current'.count = recordCount
  BY <1>3 DEF Current
<1>13. InOrder(Current')
  <2>1. /\ heap \in [Addresses -> Records \cup {Free}]
        /\ index \in [Keys -> Addresses \cup {NULL}]
        /\ \A a \in Addresses : heap[a] # Free <=> a \in Elements(list)
        /\ \A l \in Keys, a \in Addresses : index[l] = a <=> heap[a] # Free /\ heap[a].key = l
    BY <1>1, <1>2 DEF InOrder
  <2> QED
    BY <2>1, <1>5, <1>9, <1>10, <1>11, <1>12 DEF InOrder
<1> QED
  BY <1>13 DEF Inductive

\* cache_set removes the old record of the key, makes room, and adds the new.
LEMMA SetInductive ==
  ASSUME Inductive, NEW k \in Keys, NEW b \in Buffers, Set(k, b)
  PROVE  Inductive'
<1> DEFINE c == Without(Current, k)
<1>1. InOrder(Current)
  BY DEF Set, Inductive
<1>2. InOrder(c) /\ c.index[k] = NULL
  BY <1>1, WithoutInOrder
<1>3. PICK r \in Addresses : c.heap[r] = Free /\ Become(Inserted(c, k, b, r))
  BY DEF Set
<1>4. InOrder(Inserted(c, k, b, r))
  BY <1>2, <1>3, InsertedInOrder
<1> DEFINE d == Inserted(c, k, b, r)
<1> HIDE DEF d
<1>5. /\ Current'.heap = d.heap /\ Current'.list = d.list
      /\ Current'.index = d.index /\ Current'.count = d.count
  BY <1>3 DEF Become, Current, d
<1>6. InOrder(d)
  BY <1>4 DEF d
<1> QED
  BY <1>5, <1>6 DEF Inductive, InOrder

LEMMA RemInductive ==
  ASSUME Inductive, NEW k \in Keys, Rem(k)
  PROVE  Inductive'
<1> DEFINE c == Without(Current, k)
<1>1. InOrder(Current)
  BY DEF Rem, Inductive
<1>2. InOrder(c)
  BY <1>1, WithoutInOrder
<1> HIDE DEF c
<1>3. /\ Current'.heap = c.heap /\ Current'.list = c.list
      /\ Current'.index = c.index /\ Current'.count = c.count
  BY DEF Rem, Become, Current, c
<1> QED
  BY <1>2, <1>3 DEF Inductive, InOrder

\* Inductive holds through every sequence of calls of cache.c.
THEOREM InductiveHolds == Spec => []Inductive
<1>1. Inductive /\ [Next]_vars => Inductive'
  <2> SUFFICES ASSUME Inductive, [Next]_vars PROVE Inductive'
    OBVIOUS
  <2>1. ASSUME NEW k \in Keys, GetHit(k) PROVE Inductive'
    BY <2>1, GetHitInductive
  <2>2. ASSUME NEW k \in Keys, GetMiss(k) PROVE Inductive'
    BY <2>2 DEF GetMiss, Inductive, Current, Open
  <2>3. ASSUME NEW k \in Keys, Rem(k) PROVE Inductive'
    BY <2>3, RemInductive
  <2>4. ASSUME NEW k \in Keys, NEW b \in Buffers, Set(k, b) PROVE Inductive'
    BY <2>4, SetInductive
  <2>5. CASE Destroy
    BY <2>5 DEF Destroy, Inductive, Open
  <2>6. CASE UNCHANGED vars
    BY <2>6 DEF vars, Inductive, Current, Open
  <2> QED
    BY <2>1, <2>2, <2>3, <2>4, <2>5, <2>6 DEF Next
<1> QED
  BY InitInductive, <1>1, PTL DEF Spec

\* The list, the search tree and the heap of cache.c hold the same records,
\* through every sequence of gets, sets, removals and evictions.
THEOREM ViewsAgreeHolds == Spec => []ViewsAgree
<1>1. Inductive => ViewsAgree
  <2> SUFFICES ASSUME Inductive, Open
      PROVE  /\ Linked = {a \in Addresses : heap[a] # Free}
             /\ \A i, j \in DOMAIN list : list[i] = list[j] => i = j
             /\ \A k \in Keys, a \in Addresses : index[k] = a <=> heap[a] # Free /\ heap[a].key = k
    BY DEF ViewsAgree
  <2>1. /\ Current.heap = heap /\ Current.list = list /\ Current.index = index
        /\ InOrder(Current)
    BY DEF Current, Inductive
  <2>2. /\ list \in Seq(Addresses) /\ Injective(list)
        /\ \A a \in Addresses : heap[a] # Free <=> a \in Elements(list)
        /\ \A k \in Keys, a \in Addresses : index[k] = a <=> heap[a] # Free /\ heap[a].key = k
    BY <2>1 DEF InOrder
  <2>3. Linked = {a \in Addresses : heap[a] # Free}
    BY <2>2 DEF Linked, Elements
  <2> QED
    BY <2>2, <2>3 DEF Injective
<1> QED
  BY InductiveHolds, <1>1, PTL

\* record_count, by which cache_record_new_ decides about evictions, is always
\* the number of records on the list.
THEOREM CountExactHolds == Spec => []CountExact
<1>1. Inductive => CountExact
  BY DEF Inductive, InOrder, CountExact, Current
<1> QED
  BY InductiveHolds, <1>1, PTL

-----------------------------------------------------------------------------
(***************************************************************************)
(* The refinement of LruCache.                                             *)
(***************************************************************************)

Entry == Records \cup {Free}

\* The entries that a cache stands for.
EntriesOf(c) == [m \in DOMAIN c.list |-> c.heap[c.list[m]]]

\* LruCache!Others, of any sequence of entries.
OthersOf(s, k) ==
  IF k \in {s[m].key : m \in DOMAIN s}
  THEN RemoveAt(s, CHOOSE m \in DOMAIN s : s[m].key = k)
  ELSE s

\* LruCache!Newest.
NewestOf(s) == SubSeq(s, 1, IF Len(s) < MaxRecords + 1 THEN Len(s) ELSE MaxRecords + 1)

\* The list is never longer than one above the limit, where the eviction of one
\* record suffices.
Bounded == Open => recordCount <= MaxRecords + 1

LEMMA EntriesAreASequence ==
  ASSUME NEW c, InOrder(c)
  PROVE  /\ EntriesOf(c) \in Seq(Entry) /\ Len(EntriesOf(c)) = Len(c.list)
         /\ DOMAIN EntriesOf(c) = DOMAIN c.list
         /\ \A m \in DOMAIN c.list : EntriesOf(c)[m] = c.heap[c.list[m]]
<1>1. /\ c.list \in Seq(Addresses) /\ c.heap \in [Addresses -> Entry]
      /\ DOMAIN c.list = 1..Len(c.list) /\ Len(c.list) \in Nat
  BY DEF InOrder, Entry
<1> DEFINE s == EntriesOf(c)
<1>2. s = [m \in 1..Len(c.list) |-> c.heap[c.list[m]]]
  BY <1>1 DEF EntriesOf
<1>3. \A m \in 1..Len(c.list) : c.heap[c.list[m]] \in Entry
  BY <1>1
<1>4. s \in [1..Len(c.list) -> Entry]
  BY <1>2, <1>3
<1> HIDE DEF s
<1>5. s \in Seq(Entry) /\ Len(s) = Len(c.list)
  BY <1>1, <1>4
<1> QED
  BY <1>1, <1>2, <1>5 DEF s

\* The place of a record on the list is the place of its key among the entries.
LEMMA PlaceOfKey ==
  ASSUME NEW c, InOrder(c), NEW k \in Keys
  PROVE  /\ k \in {EntriesOf(c)[m].key : m \in DOMAIN EntriesOf(c)} <=> c.index[k] # NULL
         /\ \A n \in DOMAIN c.list : c.list[n] = c.index[k] =>
              (CHOOSE m \in DOMAIN EntriesOf(c) : EntriesOf(c)[m].key = k) = n
<1> DEFINE s == EntriesOf(c)
<1>1. /\ DOMAIN s = DOMAIN c.list
      /\ \A m \in DOMAIN c.list : s[m] = c.heap[c.list[m]]
  BY EntriesAreASequence
<1> HIDE DEF s
<1>2. ASSUME NEW m \in DOMAIN c.list
      PROVE  s[m].key = k <=> c.index[k] = c.list[m]
  <2>1. c.list[m] \in Addresses /\ c.heap[c.list[m]] # Free
    BY DEF InOrder, Elements
  <2> QED
    BY <1>1, <2>1 DEF InOrder
<1>3. c.index[k] # NULL => \E m \in DOMAIN c.list : c.list[m] = c.index[k]
  <2> SUFFICES ASSUME c.index[k] # NULL PROVE \E m \in DOMAIN c.list : c.list[m] = c.index[k]
    OBVIOUS
  <2>1. c.index[k] \in Addresses /\ c.heap[c.index[k]] # Free
    BY DEF InOrder
  <2> QED
    BY <2>1 DEF InOrder, Elements
<1>4. \A m \in DOMAIN c.list : c.list[m] # NULL
  <2>1. c.list \in Seq(Addresses)
    BY DEF InOrder
  <2> QED
    BY <2>1
<1>5. k \in {s[m].key : m \in DOMAIN s} <=> c.index[k] # NULL
  BY <1>1, <1>2, <1>3, <1>4
<1>6. ASSUME NEW n \in DOMAIN c.list, c.list[n] = c.index[k]
      PROVE  (CHOOSE m \in DOMAIN s : s[m].key = k) = n
  <2>1. \A m \in DOMAIN s : s[m].key = k <=> m = n
    BY <1>1, <1>2, <1>6 DEF InOrder, Injective
  <2> QED
    BY <1>1, <2>1
<1> QED
  BY <1>5, <1>6 DEF s

\* A record that is removed leaves the entries of the others as they are.
LEMMA EntriesOfRemoved ==
  ASSUME NEW c, InOrder(c), NEW n \in DOMAIN c.list
  PROVE  EntriesOf(Removed(c, c.list[n])) = RemoveAt(EntriesOf(c), n)
<1> DEFINE r == c.list[n]
           d == Removed(c, r)
           s == EntriesOf(c)
           t == EntriesOf(d)
<1>1. c.list \in Seq(Addresses) /\ Injective(c.list) /\ r \in Addresses /\ c.heap[r] # Free
  BY DEF InOrder, Elements
<1>2. InOrder(d) /\ d.heap = [c.heap EXCEPT ![r] = Free]
  BY <1>1, RemovedInOrder
<1>3. d.list = RemoveAt(c.list, n)
  BY <1>1, UnlinkIs DEF Removed
<1>4. /\ Len(d.list) = Len(c.list) - 1 /\ Len(c.list) \in Nat /\ DOMAIN c.list = 1..Len(c.list)
      /\ DOMAIN d.list = 1..Len(c.list) - 1
      /\ \A m \in 1..Len(c.list) - 1 : d.list[m] = IF m < n THEN c.list[m] ELSE c.list[m + 1]
  BY <1>1, <1>3, RemoveAtMoves
<1>5. /\ s \in Seq(Entry) /\ Len(s) = Len(c.list) /\ DOMAIN s = DOMAIN c.list
      /\ \A m \in DOMAIN c.list : s[m] = c.heap[c.list[m]]
  BY EntriesAreASequence
<1>6. /\ t \in Seq(Entry) /\ Len(t) = Len(d.list)
      /\ \A m \in DOMAIN d.list : t[m] = d.heap[d.list[m]]
  BY <1>2, EntriesAreASequence
<1> HIDE DEF d, s, t
<1>7. /\ RemoveAt(s, n) \in Seq(Entry) /\ Len(RemoveAt(s, n)) = Len(s) - 1
      /\ \A m \in 1..Len(s) - 1 : RemoveAt(s, n)[m] = IF m < n THEN s[m] ELSE s[m + 1]
  BY <1>5, RemoveAtMoves
<1>8. ASSUME NEW m \in 1..Len(t) PROVE t[m] = RemoveAt(s, n)[m]
  <2>1. PICK l \in DOMAIN c.list : l # n /\ l = (IF m < n THEN m ELSE m + 1)
    BY <1>4, <1>6, <1>8
  <2>2. m \in 1..Len(c.list) - 1 /\ m \in 1..Len(s) - 1 /\ m \in DOMAIN d.list
    BY <1>4, <1>5, <1>6
  <2>3. d.list[m] = c.list[l]
    BY <1>4, <2>1, <2>2
  <2>4. c.list[l] \in Addresses /\ c.list[l] # r
    BY <1>1, <2>1 DEF Injective
  <2>5. t[m] = c.heap[c.list[l]]
    BY <1>2, <1>6, <2>2, <2>3, <2>4 DEF InOrder
  <2>6. RemoveAt(s, n)[m] = s[l]
    BY <1>7, <2>1, <2>2
  <2> QED
    BY <1>5, <2>1, <2>5, <2>6
<1>9. t = RemoveAt(s, n)
  BY <1>4, <1>5, <1>6, <1>7, <1>8, SeqEqual
<1> QED
  BY <1>9 DEF t, s, d
\* cache_rem forgets the entry of the key.
LEMMA EntriesOfWithout ==
  ASSUME NEW c, InOrder(c), NEW k \in Keys
  PROVE  EntriesOf(Without(c, k)) = OthersOf(EntriesOf(c), k)
<1>1. CASE c.index[k] = NULL
  <2>1. k \notin {EntriesOf(c)[m].key : m \in DOMAIN EntriesOf(c)}
    BY <1>1, PlaceOfKey
  <2> QED
    BY <1>1, <2>1 DEF Without, OthersOf
<1>2. CASE c.index[k] # NULL
  <2>1. k \in {EntriesOf(c)[m].key : m \in DOMAIN EntriesOf(c)}
    BY <1>2, PlaceOfKey
  <2>2. c.index[k] \in Addresses /\ c.heap[c.index[k]] # Free
    BY <1>2 DEF InOrder
  <2>3. PICK n \in DOMAIN c.list : c.list[n] = c.index[k]
    BY <2>2 DEF InOrder, Elements
  <2>4. (CHOOSE m \in DOMAIN EntriesOf(c) : EntriesOf(c)[m].key = k) = n
    BY <2>3, PlaceOfKey
  <2>5. Without(c, k) = Removed(c, c.list[n])
    BY <1>2, <2>3 DEF Without
  <2>6. EntriesOf(Without(c, k)) = RemoveAt(EntriesOf(c), n)
    BY <2>5, EntriesOfRemoved
  <2> QED
    BY <2>1, <2>4, <2>6 DEF OthersOf
<1> QED
  BY <1>1, <1>2

\* What is left of the entries when a new one is to come in front of them.
LEMMA EntriesOfWithRoom ==
  ASSUME NEW c, InOrder(c), c.count <= MaxRecords + 1
  PROVE  LET s == EntriesOf(c)
             t == EntriesOf(WithRoom(c))
         IN  /\ t \in Seq(Entry)
             /\ Len(t) = IF Len(s) < MaxRecords + 1 THEN Len(s) ELSE MaxRecords
             /\ \A m \in 1..Len(t) : t[m] = s[m]
<1> DEFINE s == EntriesOf(c)
           t == EntriesOf(WithRoom(c))
<1>1. s \in Seq(Entry) /\ Len(s) = Len(c.list) /\ Len(c.list) \in Nat /\ c.count = Len(c.list)
      /\ DOMAIN c.list = 1..Len(c.list)
  BY EntriesAreASequence DEF InOrder
<1>2. CASE ~(c.count > MaxRecords)
  <2>1. t = s
    BY <1>2 DEF WithRoom
  <2> HIDE DEF s, t
  <2>2. Len(s) < MaxRecords + 1
    BY <1>1, <1>2
  <2> QED
    BY <1>1, <2>1, <2>2 DEF s, t
<1>3. CASE c.count > MaxRecords
  <2> DEFINE n == Len(c.list)
  <2>1. n \in DOMAIN c.list /\ n = MaxRecords + 1
    BY <1>1, <1>3
  <2>2. t = RemoveAt(s, n)
    BY <1>3, <2>1, EntriesOfRemoved DEF WithRoom, Last
  <2> HIDE DEF s, t
  <2>3. n \in DOMAIN s /\ Len(s) = n
    BY <1>1, <2>1
  <2>4. /\ t \in Seq(Entry) /\ Len(t) = Len(s) - 1
        /\ \A m \in 1..Len(s) - 1 : t[m] = IF m < n THEN s[m] ELSE s[m + 1]
    BY <1>1, <2>2, <2>3, RemoveAtMoves
  <2>5. \A m \in 1..Len(t) : t[m] = s[m]
    BY <2>1, <2>3, <2>4
  <2>6. Len(t) = IF Len(s) < MaxRecords + 1 THEN Len(s) ELSE MaxRecords
    BY <2>1, <2>3, <2>4
  <2> QED
    BY <2>4, <2>5, <2>6 DEF s, t
<1> QED
  BY <1>2, <1>3

\* cache_set puts the new entry in front, and forgets the last one if there is no
\* room for both.
LEMMA EntriesOfInserted ==
  ASSUME NEW c, InOrder(c), c.count <= MaxRecords + 1,
         NEW k \in Keys, c.index[k] = NULL, NEW b \in Buffers,
         NEW r \in Addresses, c.heap[r] = Free
  PROVE  EntriesOf(Inserted(c, k, b, r)) = NewestOf(<<[key |-> k, data |-> b]>> \o EntriesOf(c))
<1> DEFINE e == [key |-> k, data |-> b]
           room == WithRoom(c)
           d == Inserted(c, k, b, r)
           s == EntriesOf(c)
           t == EntriesOf(room)
           u == EntriesOf(d)
           whole == <<e>> \o s
<1>1. InOrder(room) /\ room.heap[r] = Free /\ InOrder(d)
  BY WithRoomInOrder, InsertedInOrder
<1>2. /\ d.heap = [room.heap EXCEPT ![r] = e]
      /\ d.list = <<r>> \o room.list
  BY DEF Inserted
<1>3. /\ t \in Seq(Entry) /\ Len(t) = IF Len(s) < MaxRecords + 1 THEN Len(s) ELSE MaxRecords
      /\ \A m \in 1..Len(t) : t[m] = s[m]
  BY EntriesOfWithRoom
<1>4. s \in Seq(Entry)
  BY EntriesAreASequence
<1>5. /\ Len(t) = Len(room.list) /\ DOMAIN room.list = 1..Len(room.list)
      /\ \A m \in DOMAIN room.list : t[m] = room.heap[room.list[m]]
  BY <1>1, EntriesAreASequence DEF InOrder
<1>6. /\ u \in Seq(Entry) /\ Len(u) = Len(d.list)
      /\ \A m \in DOMAIN d.list : u[m] = d.heap[d.list[m]]
  BY <1>1, EntriesAreASequence
<1>7. e \in Entry
  BY DEF Entry, Records
<1>8. room.list \in Seq(Addresses) /\ r \notin Elements(room.list)
  BY <1>1 DEF InOrder
<1>9. room.heap \in [Addresses -> Entry]
  BY <1>1 DEF InOrder, Entry
<1> HIDE DEF e, room, d, s, t, u
<1>10. /\ Len(d.list) = Len(t) + 1 /\ d.list[1] = r /\ DOMAIN d.list = 1..Len(t) + 1
       /\ \A m \in 1..Len(t) : d.list[m + 1] = room.list[m]
  BY <1>2, <1>5, <1>8
<1>11. u[1] = e
  BY <1>2, <1>3, <1>6, <1>9, <1>10
<1>12. ASSUME NEW m \in 1..Len(t) PROVE u[m + 1] = s[m]
  <2>1. room.list[m] \in Addresses /\ room.list[m] # r /\ m \in DOMAIN room.list
    BY <1>5, <1>8 DEF Elements
  <2>2. m + 1 \in DOMAIN d.list
    BY <1>3, <1>10
  <2>3. u[m + 1] = d.heap[room.list[m]]
    BY <1>6, <1>10, <2>2
  <2>4. d.heap[room.list[m]] = room.heap[room.list[m]]
    BY <1>2, <1>9, <2>1
  <2> QED
    BY <1>3, <1>5, <2>1, <2>3, <2>4
<1>13. /\ whole \in Seq(Entry) /\ Len(whole) = Len(s) + 1 /\ whole[1] = e
       /\ \A m \in 1..Len(s) : whole[m + 1] = s[m]
  BY <1>4, <1>7
<1> HIDE DEF whole
<1> DEFINE kept == IF Len(whole) < MaxRecords + 1 THEN Len(whole) ELSE MaxRecords + 1
           newest == SubSeq(whole, 1, kept)
<1>14. kept = Len(t) + 1 /\ kept \in 1..Len(whole) /\ Len(s) \in Nat /\ Len(t) \in Nat
  BY <1>3, <1>4, <1>13
<1> HIDE DEF kept
<1>15. /\ newest \in Seq(Entry) /\ Len(newest) = Len(t) + 1
       /\ \A m \in 1..Len(t) + 1 : newest[m] = whole[m]
  BY <1>13, <1>14
<1> HIDE DEF newest
<1>16. ASSUME NEW m \in 1..Len(u) PROVE u[m] = newest[m]
  <2>1. m \in 1..Len(t) + 1
    BY <1>6, <1>10
  <2>2. CASE m = 1
    BY <1>11, <1>13, <1>15, <2>1, <2>2
  <2>3. CASE m # 1
    <3>1. PICK l \in 1..Len(t) : m = l + 1
      BY <1>14, <2>1, <2>3
    <3>2. l \in 1..Len(s)
      BY <1>13, <1>14
    <3> QED
      BY <1>12, <1>13, <1>15, <2>1, <3>1, <3>2
  <2> QED
    BY <2>2, <2>3
<1>17. u = newest
  BY <1>6, <1>10, <1>14, <1>15, <1>16, SeqEqual
<1> QED
  BY <1>17 DEF u, d, newest, kept, whole, s, e, NewestOf

\* The counters of the two halves of cache_set.
LEMMA CountsBounded ==
  ASSUME NEW c, InOrder(c), NEW k \in Keys
  PROVE  Without(c, k).count <= c.count /\ Without(c, k).count \in Nat /\ c.count \in Nat
<1>1. c.count \in Nat
  BY DEF InOrder
<1> QED
  BY <1>1 DEF Without, Removed

THEOREM BoundedHolds == Spec => []Bounded
<1>1. Init => Bounded
  BY DEF Init, Bounded
<1>2. Inductive /\ Bounded /\ [Next]_vars => Bounded'
  <2> SUFFICES ASSUME Inductive, Bounded, [Next]_vars PROVE Bounded'
    OBVIOUS
  <2>1. ASSUME NEW k \in Keys, GetHit(k) \/ GetMiss(k) PROVE Bounded'
    BY <2>1 DEF GetHit, GetMiss, Bounded, Open
  <2>2. ASSUME NEW k \in Keys, Rem(k) PROVE Bounded'
    <3>1. InOrder(Current) /\ Current.count <= MaxRecords + 1
      BY <2>2 DEF Rem, Inductive, Bounded, Current
    <3>2. recordCount' = Without(Current, k).count
      BY <2>2 DEF Rem, Become
    <3> QED
      BY <3>1, <3>2, CountsBounded DEF Bounded
  <2>3. ASSUME NEW k \in Keys, NEW b \in Buffers, Set(k, b) PROVE Bounded'
    <3> DEFINE c == Without(Current, k)
    <3>1. InOrder(Current) /\ Current.count <= MaxRecords + 1
      BY <2>3 DEF Set, Inductive, Bounded, Current
    <3>2. PICK r \in Addresses : Become(Inserted(c, k, b, r))
      BY <2>3 DEF Set
    <3>3. c.count <= MaxRecords + 1 /\ c.count \in Nat
      BY <3>1, CountsBounded
    <3> HIDE DEF c
    <3>4. recordCount' = WithRoom(c).count + 1
      BY <3>2 DEF Become, Inserted
    <3>5. WithRoom(c).count \in Nat /\ WithRoom(c).count <= MaxRecords
      BY <3>3 DEF WithRoom, Removed
    <3> QED
      BY <3>4, <3>5 DEF Bounded
  <2>4. CASE Destroy
    BY <2>4 DEF Destroy, Bounded, Open
  <2>5. CASE UNCHANGED vars
    BY <2>5 DEF vars, Bounded, Open
  <2> QED
    BY <2>1, <2>2, <2>3, <2>4, <2>5 DEF Next
<1> QED
  BY <1>1, <1>2, InductiveHolds, PTL DEF Spec

View == IF Open THEN [i \in DOMAIN list |-> heap[list[i]]] ELSE <<>>

LEMMA ViewIsEntries == Open => View = EntriesOf(Current)
BY DEF View, EntriesOf, Current

\* What LruCache says of its entries, in the words of the lemmas above.
LEMMA LruSays ==
  ASSUME NEW k
  PROVE  /\ Lru!Others(k) = OthersOf(View, k)
         /\ k \in Lru!Held <=> k \in {View[m].key : m \in DOMAIN View}
         /\ Lru!DataOf(k) = View[CHOOSE m \in DOMAIN View : View[m].key = k].data
BY DEF Lru!Others, Lru!Held, Lru!DataOf, Lru!Place, OthersOf, View, Lru!RemoveAt, RemoveAt

LEMMA HitStep ==
  ASSUME Inductive, NEW k \in Keys, GetHit(k)
  PROVE  Lru!Hit(k)
<1> DEFINE r == index[k]
           s == View
           e == [key |-> k, data |-> heap[r].data]
           u == Unlink(list, r)
<1>1. /\ Open /\ InOrder(Current) /\ Current.heap = heap /\ Current.list = list
      /\ Current.index = index /\ s = EntriesOf(Current) /\ r # NULL
  BY ViewIsEntries DEF GetHit, Inductive, Current
<1>2. r \in Addresses /\ heap[r] # Free /\ heap[r].key = k
  BY <1>1 DEF InOrder
<1>3. PICK n \in DOMAIN list : list[n] = r
  BY <1>1, <1>2 DEF InOrder, Elements
<1>4. /\ s \in Seq(Entry) /\ Len(s) = Len(list) /\ DOMAIN s = DOMAIN list
      /\ \A m \in DOMAIN list : s[m] = heap[list[m]]
  BY <1>1, EntriesAreASequence
<1>5. /\ k \in {s[m].key : m \in DOMAIN s}
      /\ (CHOOSE m \in DOMAIN s : s[m].key = k) = n
  BY <1>1, <1>3, PlaceOfKey
<1>6. heap[r] = e
  BY <1>1, <1>2 DEF InOrder, Records
<1>7. Lru!Others(k) = RemoveAt(s, n) /\ k \in Lru!Held /\ Lru!DataOf(k) = heap[r].data
  <2>1. Lru!Others(k) = OthersOf(s, k) /\ k \in Lru!Held
    BY <1>5, LruSays
  <2>2. OthersOf(s, k) = RemoveAt(s, n)
    BY <1>5 DEF OthersOf
  <2>3. Lru!DataOf(k) = s[n].data
    BY <1>5, LruSays
  <2> QED
    BY <1>3, <1>4, <2>1, <2>2, <2>3
<1>8. View' = <<e>> \o RemoveAt(s, n)
  <2>1. list \in Seq(Addresses) /\ Injective(list) /\ heap \in [Addresses -> Entry]
    BY <1>1 DEF InOrder, Entry
  <2>2. u = RemoveAt(list, n)
    BY <1>3, <2>1, UnlinkIs
  <2>3. /\ u \in Seq(Addresses) /\ Len(u) = Len(list) - 1 /\ Len(list) \in Nat
        /\ \A m \in 1..Len(list) - 1 : u[m] = IF m < n THEN list[m] ELSE list[m + 1]
    <3> HIDE DEF u
    <3>1. /\ RemoveAt(list, n) \in Seq(Addresses) /\ Len(RemoveAt(list, n)) = Len(list) - 1
          /\ \A m \in 1..Len(list) - 1 :
               RemoveAt(list, n)[m] = IF m < n THEN list[m] ELSE list[m + 1]
      BY <2>1, RemoveAtMoves, Zenon
    <3> QED
      BY <2>1, <2>2, <3>1
  <2>4. /\ RemoveAt(s, n) \in Seq(Entry) /\ Len(RemoveAt(s, n)) = Len(s) - 1
        /\ \A m \in 1..Len(s) - 1 : RemoveAt(s, n)[m] = IF m < n THEN s[m] ELSE s[m + 1]
    <3> HIDE DEF s
    <3>1. s \in Seq(Entry) /\ n \in DOMAIN s
      BY <1>3, <1>4
    <3> QED
      BY <3>1, RemoveAtMoves, Zenon
  <2>5. list' = <<r>> \o u /\ heap' = heap /\ Open'
    BY DEF GetHit, Open
  <2>6. View' = [m \in DOMAIN list' |-> heap[list'[m]]]
    BY <2>5 DEF View
  <2>7. e \in Entry
    BY <1>2, <1>6, <2>1
  <2> DEFINE rest == RemoveAt(s, n)
             front == <<e>> \o rest
             v == View'
  <2> HIDE DEF u, rest, e, s, r
  <2>8. /\ DOMAIN list' = 1..Len(list) /\ list'[1] = r
        /\ \A m \in 1..Len(list) - 1 : list'[m + 1] = u[m]
    BY <2>3, <2>5
  <2>9. /\ front \in Seq(Entry) /\ Len(front) = Len(list) /\ front[1] = e
        /\ \A m \in 1..Len(list) - 1 : front[m + 1] = rest[m]
    <3>1. rest \in Seq(Entry) /\ Len(rest) = Len(list) - 1 /\ Len(list) \in Nat
      BY <1>4, <2>3, <2>4 DEF rest
    <3> QED
      BY <2>7, <3>1
  <2>10. ASSUME NEW m \in 1..Len(list) - 1 PROVE heap[u[m]] = rest[m]
    <3>1. PICK l \in DOMAIN list : l = (IF m < n THEN m ELSE m + 1)
      BY <2>1, <2>3
    <3>2. u[m] = list[l] /\ rest[m] = s[l]
      BY <1>4, <2>3, <2>4, <3>1 DEF rest
    <3> QED
      BY <1>4, <3>1, <3>2
  <2> HIDE DEF front, v
  <2>11. /\ v \in [1..Len(list) -> Entry]
         /\ \A m \in 1..Len(list) : v[m] = heap[list'[m]]
    <3>1. list' \in Seq(Addresses)
      BY <1>2, <2>3, <2>5 DEF r
    <3>2. \A m \in 1..Len(list) : heap[list'[m]] \in Entry
      BY <2>1, <2>8, <3>1
    <3> QED
      BY <2>6, <2>8, <3>2 DEF v
  <2>12. v \in Seq(Entry) /\ Len(v) = Len(list)
    BY <2>3, <2>11
  <2>13. ASSUME NEW m \in 1..Len(v) PROVE v[m] = front[m]
    <3>1. CASE m = 1
      BY <1>6, <2>8, <2>9, <2>11, <2>12, <2>13, <3>1
    <3>2. CASE m # 1
      <4>1. PICK l \in 1..Len(list) - 1 : m = l + 1
        BY <2>3, <2>12, <3>2
      <4> QED
        BY <2>8, <2>9, <2>10, <2>11, <2>12, <4>1
    <3> QED
      BY <3>1, <3>2
  <2> QED
    BY <2>9, <2>12, <2>13, SeqEqual DEF v, front, rest
<1> QED
  BY <1>7, <1>8 DEF GetHit, Lru!Hit, View

LEMMA MissStep ==
  ASSUME Inductive, NEW k \in Keys, GetMiss(k)
  PROVE  Lru!Miss(k)
<1>1. /\ Open /\ InOrder(Current) /\ index[k] = NULL /\ View = EntriesOf(Current)
      /\ Current.index = index /\ View' = View
  BY ViewIsEntries DEF GetMiss, Inductive, Current, View, Open
<1>2. k \notin Lru!Held
  BY <1>1, PlaceOfKey, LruSays
<1> QED
  BY <1>1, <1>2 DEF GetMiss, Lru!Miss, View

LEMMA RemStep ==
  ASSUME Inductive, NEW k \in Keys, Rem(k)
  PROVE  Lru!Forget(k)
<1>1. Open /\ Open' /\ InOrder(Current) /\ View = EntriesOf(Current)
  BY ViewIsEntries DEF Rem, Inductive, Open
<1>2. View' = EntriesOf(Without(Current, k))
  BY <1>1 DEF Rem, Become, View, EntriesOf
<1>3. View' = Lru!Others(k)
  BY <1>1, <1>2, EntriesOfWithout, LruSays
<1> QED
  BY <1>3 DEF Rem, Lru!Forget, View

LEMMA SetStep ==
  ASSUME Inductive, Bounded, NEW k \in Keys, NEW b \in Buffers, Set(k, b)
  PROVE  Lru!Store(k, b)
<1> DEFINE c == Without(Current, k)
<1>1. Open /\ Open' /\ InOrder(Current) /\ View = EntriesOf(Current) /\ Current.count <= MaxRecords + 1
  BY ViewIsEntries DEF Set, Inductive, Open, Bounded, Current
<1>2. PICK r \in Addresses : c.heap[r] = Free /\ Become(Inserted(c, k, b, r))
  BY DEF Set
<1>3. InOrder(c) /\ c.index[k] = NULL /\ c.count <= MaxRecords + 1
  BY <1>1, WithoutInOrder, CountsBounded
<1>4. EntriesOf(c) = Lru!Others(k)
  BY <1>1, EntriesOfWithout, LruSays
<1> HIDE DEF c
<1>5. View' = EntriesOf(Inserted(c, k, b, r))
  BY <1>1, <1>2 DEF Become, View, EntriesOf
<1>6. View' = NewestOf(<<[key |-> k, data |-> b]>> \o Lru!Others(k))
  BY <1>2, <1>3, <1>4, <1>5, EntriesOfInserted
<1> QED
  BY <1>6 DEF Set, Lru!Store, Lru!Newest, NewestOf, View

\* The pointer structure implements the least-recently-used map.
THEOREM ImplementsLruHolds == Spec => ImplementsLru
<1>1. Init => Lru!Init
  BY DEF Init, Lru!Init, Open
<1>2. Inductive /\ Bounded /\ [Next]_vars => [Lru!Next]_(Lru!vars)
  <2> SUFFICES ASSUME Inductive, Bounded, [Next]_vars PROVE [Lru!Next]_(Lru!vars)
    OBVIOUS
  <2>1. ASSUME NEW k \in Keys, GetHit(k) PROVE Lru!Next
    BY <2>1, HitStep DEF Lru!Next
  <2>2. ASSUME NEW k \in Keys, GetMiss(k) PROVE Lru!Next
    BY <2>2, MissStep DEF Lru!Next
  <2>3. ASSUME NEW k \in Keys, Rem(k) PROVE Lru!Next
    BY <2>3, RemStep DEF Lru!Next
  <2>4. ASSUME NEW k \in Keys, NEW b \in Buffers, Set(k, b) PROVE Lru!Next
    BY <2>4, SetStep DEF Lru!Next
  <2>5. CASE Destroy
    <3>1. ~Open' /\ answer' = [call |-> "destroy"]
      BY <2>5 DEF Destroy, Open
    <3> QED
      BY <3>1 DEF Lru!Next, Lru!Close
  <2>6. CASE UNCHANGED vars
    BY <2>6 DEF vars, Lru!vars, Open
  <2> QED
    BY <2>1, <2>2, <2>3, <2>4, <2>5, <2>6 DEF Next
<1> QED
  BY <1>1, <1>2, InductiveHolds, BoundedHolds, PTL DEF Spec, ImplementsLru, Lru!Spec
=============================================================================
