------------------------------ MODULE LruCache ------------------------------
(***************************************************************************)
(* What cache.h promises its callers: a map from keys to buffers that      *)
(* keeps the most recently used Capacity entries and forgets the others.   *)
(* No pointers, no tree, no counter: only the entries, most recent first.  *)
(***************************************************************************)
EXTENDS Naturals, Sequences, SequencesExt

CONSTANTS
  Keys,      \* node numbers
  Buffers,   \* contents a caller can store
  Capacity   \* how many entries survive

VARIABLES
  entries,   \* sequence of [key, data], most recently used first
  answer     \* what the last call returned

vars == <<entries, answer>>

Held == {entries[i].key : i \in DOMAIN entries}

Place(k) == CHOOSE i \in DOMAIN entries : entries[i].key = k

\* No key is stored twice.
Others(k) == IF k \in Held THEN RemoveAt(entries, Place(k)) ELSE entries

DataOf(k) == entries[Place(k)].data

Newest(s) == SubSeq(s, 1, IF Len(s) < Capacity THEN Len(s) ELSE Capacity)

-----------------------------------------------------------------------------

Init ==
  /\ entries = <<>>
  /\ answer = [call |-> "init"]

\* A hit returns the stored buffer and makes the entry the most recent one.
Hit(k) ==
  /\ k \in Held
  /\ entries' = <<[key |-> k, data |-> DataOf(k)]>> \o Others(k)
  /\ answer' = [call |-> "get", key |-> k, found |-> TRUE, data |-> DataOf(k)]

Miss(k) ==
  /\ k \notin Held
  /\ answer' = [call |-> "get", key |-> k, found |-> FALSE]
  /\ UNCHANGED entries

\* Storing replaces the old entry of the key and forgets the least recent
\* entries when there is no room for them.
Store(k, b) ==
  /\ entries' = Newest(<<[key |-> k, data |-> b]>> \o Others(k))
  /\ answer' = [call |-> "set", key |-> k]

Forget(k) ==
  /\ entries' = Others(k)
  /\ answer' = [call |-> "rem", key |-> k]

\* The end of the cache.
Close ==
  /\ entries' = <<>>
  /\ answer' = [call |-> "destroy"]

Next ==
  \/ Close
  \/ \E k \in Keys :
       \/ Hit(k)
       \/ Miss(k)
       \/ \E b \in Buffers : Store(k, b)
       \/ Forget(k)

Spec == Init /\ [][Next]_vars
=============================================================================
