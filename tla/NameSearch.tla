----------------------------- MODULE NameSearch -----------------------------
(***************************************************************************)
(* A name as the user types it, converted to the form of the catalog       *)
(* (str_to_hfsuc, hfs/unicode.c) and then searched for among the names of  *)
(* a node with btree_search_node.  One step of the conversion is one turn  *)
(* of the loop of utf8_decodestr, the search is that of SearchNode.        *)
(***************************************************************************)
EXTENDS SearchNode, Names, SequencesExt

CONSTANTS
  DiskNodes,   \* sets of names that are the names of a node
  TypedNames,  \* what the user may type, besides what is shown
  BufUnits     \* units in the buffer: 128, for it has 256 bytes

ASSUME BufUnits \in Nat

VARIABLES
  names,        \* the names of the node's records, in order
  binary,       \* whether the tree compares names by their units
  given,        \* the string typed
  utf8p,        \* what is left of it
  ucs,          \* the units so far
  combcharcnt,  \* combining characters at the end of ucs
  outcome       \* "none" for a search by number, "decoding", "whole", "toolong", "illegal"

decoder == <<utf8p, ucs, combcharcnt, outcome>>
typing == <<names, binary, given>>
search == <<keys, numRecords, searchKey, low, high, recNum, result, found, pc>>
nameVars == <<vars, typing, decoder>>

Compare(a, b) == IF binary THEN CompareBinary(a, b) ELSE FastUnicodeCompare(a, b)

NoName ==
  /\ names = <<>> /\ binary = FALSE /\ given = <<>>
  /\ utf8p = <<>> /\ ucs = <<>> /\ combcharcnt = 0 /\ outcome = "none"

\* A node of names in strict order, and a string that is typed for the first
\* time or copied from what the program shows of a record.
NamesInit ==
  \E S \in DiskNodes :
    /\ binary \in BOOLEAN
    /\ \A a, b \in S : a # b => Compare(a, b) # 0
    /\ names = SetToSortSeq(S, LAMBDA a, b : Compare(a, b) < 0)
    /\ given \in TypedNames \cup {utf8_encodestr(a) : a \in S}
    /\ utf8p = given /\ ucs = <<>> /\ combcharcnt = 0 /\ outcome = "decoding"
    /\ numRecords = Len(names)
    /\ keys = [r \in 0..(numRecords - 1) |-> 2 * (r + 1)]
    /\ searchKey = 1
    /\ low = 0 /\ high = numRecords - 1
    /\ recNum = 0 /\ result = 0 /\ found = 0 /\ pc = "loop"

NameInit == (Init /\ NoName) \/ NamesInit

-----------------------------------------------------------------------------

\* The place of a name among those of the node: the number of its record, or a
\* number between those of its neighbours.
Place(name) ==
  LET less == Cardinality({k \in DOMAIN names : Compare(names[k], name) < 0})
      same == \E k \in DOMAIN names : Compare(names[k], name) = 0
  IN 2 * less + IF same THEN 2 ELSE 1

\* The conversion is over, for whatever reason, and its units are searched for:
\* its errors are positive, and the callers look for negative ones.
Decoded(units, reason) ==
  /\ \E u \in {units} : ucs' = u /\ searchKey' = Place(u)
  /\ outcome' = reason
  /\ UNCHANGED <<typing, utf8p, combcharcnt, keys, numRecords, low, high, recNum, result, found, pc>>

Character == Head(utf8p)

\* The units one turn of the loop has written, and whether the string goes on.
Written(units, count) ==
  /\ ucs' \in {units}
  /\ combcharcnt' = count
  /\ utf8p' = Tail(utf8p)
  /\ UNCHANGED <<typing, outcome, search>>

Turn == outcome = "decoding" /\ utf8p # <<>> /\ Len(ucs) < BufUnits

Full == outcome = "decoding" /\ utf8p # <<>> /\ Len(ucs) >= BufUnits /\ Decoded(ucs, "toolong")

Escape == Turn /\ Refused(Character) /\ Decoded(ucs, "illegal")

\* A pair leaves the count of combining characters as it was.
Pair ==
  /\ Turn /\ Character \in Pairs
  /\ LET units == ucs \o SurrogatePair(Character) IN
       IF Len(ucs) + 1 >= BufUnits
       THEN Decoded(Append(ucs, Head(SurrogatePair(Character))), "toolong")
       ELSE Written(units, combcharcnt)

MutantDecomposeKeepsRun ==
  /\ Turn /\ unicode_decomposeable(Character)
  /\ LET units == ucs \o unicode_decompose(Character) IN
       IF Len(units) >= BufUnits
       THEN Decoded(SubSeq(units, 1, BufUnits), "toolong")
       ELSE Written(units, 0)

\* A character that is decomposed: the marks before it are put in order, and
\* its own marks begin the next run.
Decompose ==
  /\ Turn /\ unicode_decomposeable(Character)
  /\ LET parts == unicode_decompose(Character)
         units == LastSorted(ucs, combcharcnt) \o parts
     IN IF Len(units) >= BufUnits
        THEN Decoded(SubSeq(units, 1, BufUnits), "toolong")
        ELSE Written(units, Len(parts) - 1)

MutantUnit(c) == c

\* The replacement of NUL becomes one again.
Unit(c) == IF c = UCS_ALT_NULL THEN NUL ELSE c

\* Any other character: a mark joins the run, anything else ends it.
Plain ==
  /\ Turn /\ ~Refused(Character) /\ Character \notin Pairs /\ ~unicode_decomposeable(Character)
  /\ LET unit == Unit(Character) IN
       IF unicode_combinable(unit)
       THEN Written(Append(ucs, unit), combcharcnt + 1)
       ELSE Written(Append(LastSorted(ucs, combcharcnt), unit), 0)

End == outcome = "decoding" /\ utf8p = <<>> /\ Decoded(LastSorted(ucs, combcharcnt), "whole")

Decoding == Full \/ Escape \/ Pair \/ Decompose \/ Plain \/ End

Searching == outcome # "decoding" /\ Next /\ UNCHANGED <<typing, decoder>>

NameNext == Decoding \/ Searching

NameSpec == NameInit /\ [][NameNext]_nameVars /\ WF_nameVars(NameNext)

-----------------------------------------------------------------------------
(***************************************************************************)
(* Properties                                                              *)
(***************************************************************************)

\* What Unicode says of a string: every character decomposed as far as it goes,
\* and the marks after each base in the order of their classes.
Decomposed(s) ==
  FoldLeft(LAMBDA units, c :
             units \o IF c \in Pairs THEN SurrogatePair(c)
                      ELSE IF unicode_decomposeable(c) THEN unicode_decompose(c)
                      ELSE <<IF c = UCS_ALT_NULL THEN NUL ELSE c>>,
           <<>>, s)

Canonical(s) == priortysort(Decomposed(s))

\* Three kinds of strings utf8_decodestr orders otherwise: a mark that is itself
\* decomposed, a mark it does not know for one, and marks before a pair.
Odd(s) ==
  \E k \in DOMAIN s :
    \/ unicode_decomposeable(s[k]) /\ unicode_combinable(s[k])
    \/ get_combining_class(s[k]) # 0 /\ ~unicode_combinable(s[k])
    \/ s[k] \in Pairs /\ k > 1 /\ get_combining_class(Canonical(s)[k - 1]) # 0

Legal(s) == \A k \in DOMAIN s : ~Refused(s[k])

Searched == outcome # "none" /\ pc = "done"

\* Whoever types a name finds its file however the name is spelled: letters with
\* their marks in one character or in several, marks in any order, and in either
\* case and with ignored characters when the volume compares so; and finds no
\* file of another name.  The name has to fit the buffer, which is half the size
\* of what the name of a file may be.  On the way there, what the search takes a
\* comparison with a record to be is what comparing the names says.
SpellingsAgree ==
  /\ Searched =>
       \A k \in DOMAIN names : keyCompare(searchKey, keys[k - 1]) = Compare(ucs, names[k])
  /\ Searched /\ Legal(given) /\ ~Odd(given) /\ Len(Canonical(given)) < BufUnits =>
       /\ found = 1 <=> \E k \in DOMAIN names : Compare(names[k], Canonical(given)) = 0
       /\ found = 1 => Compare(names[recNum + 1], Canonical(given)) = 0

\* A name of the catalog that can be typed: in canonical form, and without the
\* units that are shown as others.
Typeable(name) ==
  /\ LET shown == utf8_encodestr(name) IN Legal(shown) /\ ~Odd(shown) /\ Canonical(shown) = name
  /\ Len(name) < BufUnits

\* What the program shows of a record, typed back, leads to that record: the two
\* conversions undo each other, NUL and pairs included.
ShownNameFound ==
  Searched =>
    \A k \in DOMAIN names :
      given = utf8_encodestr(names[k]) /\ Typeable(names[k]) => found = 1 /\ recNum = k - 1
=============================================================================
