-------------------------------- MODULE Names --------------------------------
(***************************************************************************)
(* The names of files: what a typed name becomes before it is looked up,   *)
(* what a name of the catalog is shown as, and the two orders of names     *)
(* (hfs/unicode.c, hfs/Apple/utfconv.c, hfs/Apple/hfs_unicode.c,           *)
(* hfs/catalog.c).                                                         *)
(*                                                                         *)
(* A name of the catalog is a sequence of UTF-16 units.  A UTF-8 string is *)
(* the sequence of its code points; Illegal stands for bytes that are none, *)
(* and the surrogates and the two non-characters are refused like them.    *)
(* The tables are Unicode's; their entries here are those of a handful of  *)
(* characters of each kind, with the values the code has for them.         *)
(***************************************************************************)
EXTENDS Integers, Sequences, FiniteSets, FiniteSetsExt, TLC

Illegal == -1
NUL == 0
UCS_ALT_NULL == \h2400

-----------------------------------------------------------------------------
(***************************************************************************)
(* The tables                                                              *)
(***************************************************************************)

\* Marks that follow a base character; the last one is a vowel of Hangul.
CombiningBitmap == {\h300, \h301, \h304, \h307, \h308, \h323, \h327, \h340, \h344, \h1161, \h11A8}

\* A later mark has a class without being a combining character here.
CombiningProperty ==
  [c \in {\h300, \h301, \h304, \h307, \h308, \h323, \h327, \h340, \h344, \h350} |->
     CASE c = \h323 -> 220 [] c = \h327 -> 202 [] OTHER -> 230]

\* Characters that stand for one other, and for a sequence of others.
DecompositionTable == [c \in {\h340, \h387} |-> IF c = \h340 THEN <<\h300>> ELSE <<\hB7>>]

MultipleDecompositionTable ==
  [c \in {\hC4, \hE4, \h1DE, \h1DF, \h344, \h1E62, \h1E68} |->
     CASE c = \hC4   -> <<\h41, \h308>>
       [] c = \hE4   -> <<\h61, \h308>>
       [] c = \h1DE  -> <<\hC4, \h304>>
       [] c = \h1DF  -> <<\hE4, \h304>>
       [] c = \h344  -> <<\h308, \h301>>
       [] c = \h1E62 -> <<\h53, \h323>>
       [] c = \h1E68 -> <<\h1E62, \h307>>]

Hangul == \hAC00..\hD7A3

DecomposableBitmap == DOMAIN DecompositionTable \cup DOMAIN MultipleDecompositionTable \cup Hangul

\* Case folding of the units below 256; only NUL has the value 16r FFFF.
gLatinCaseFold(c) ==
  IF c = NUL THEN \hFFFF
  ELSE IF c \in \h41..\h5A \cup {\hC6, \hD0, \hD8, \hDE} THEN c + 32 ELSE c

\* Units that are left out of a comparison.
Ignored == \h200C..\h200F \cup \h202A..\h202E \cup \h206A..\h206F \cup {\hFEFF}

\* Case folding of the others; pairs of letters that lie next to each other,
\* and letters whose cases are far apart, are left out of the model.
gLowerCaseTable(c) ==
  CASE c \in Ignored -> 0
    [] c \in \h391..\h3A9 \cup \h410..\h42F \cup \hFF21..\hFF3A -> c + 32
    [] c \in \h531..\h556 \cup \h10A0..\h10C5 -> c + 48
    [] c \in \h2160..\h216F -> c + 16
    [] OTHER -> c

-----------------------------------------------------------------------------
(***************************************************************************)
(* UTF-8 to the form of the catalog                                        *)
(***************************************************************************)

unicode_combinable(c) == c >= \h300 /\ c \in CombiningBitmap

unicode_decomposeable(c) == c >= \hC0 /\ c \in DecomposableBitmap

get_combining_class(c) == IF c \in DOMAIN CombiningProperty THEN CombiningProperty[c] ELSE 0

\* What a character of the tables maps to.
getmappedvalue(c) ==
  IF c \in DOMAIN DecompositionTable THEN DecompositionTable[c]
  ELSE MultipleDecompositionTable[c]

\* A decomposed character may begin with one that can be decomposed in turn.
unicode_recursive_decompose[c \in DOMAIN DecompositionTable \cup DOMAIN MultipleDecompositionTable] ==
  LET value == getmappedvalue(c)
      first == Head(value)
  IN IF first \in DOMAIN DecompositionTable \cup DOMAIN MultipleDecompositionTable
     THEN unicode_recursive_decompose[first] \o Tail(value) ELSE value

\* A syllable of Hangul is two or three letters, by arithmetic.
unicode_decompose(c) ==
  LET s == c - \hAC00
      letters == << \h1100 + s \div 588, \h1161 + (s % 588) \div 28, \h11A7 + (s % 28) >>
  IN IF c \in Hangul THEN SubSeq(letters, 1, IF s % 28 = 0 THEN 2 ELSE 3)
     ELSE unicode_recursive_decompose[c]

\* Neighbours change places as long as the later one has the smaller class, and
\* a character of class 0 stays where it is: what that comes to is that the marks
\* after each of those are put in the order of their classes, equal ones kept.
priortysort(s) ==
  LET Start(k) == Cardinality({j \in 1..k : get_combining_class(s[j]) = 0})
      Before(j, k) ==
        \/ Start(j) < Start(k)
        \/ /\ Start(j) = Start(k)
           /\ get_combining_class(s[j]) < get_combining_class(s[k])
        \/ /\ Start(j) = Start(k)
           /\ get_combining_class(s[j]) = get_combining_class(s[k])
           /\ j < k
      order == SortSeq([k \in DOMAIN s |-> k], Before)
  IN [k \in DOMAIN s |-> s[order[k]]]

\* The last n units are put in order.
LastSorted(s, n) ==
  IF n > 1 THEN SubSeq(s, 1, Len(s) - n) \o priortysort(SubSeq(s, Len(s) - n + 1, Len(s)))
  ELSE s

Pairs == \h10000..\h10FFFF
High == \hD800..\hDBFF
Low == \hDC00..\hDFFF
NonCharacters == {\hFFFE, \hFFFF}

\* The units of a character outside of the first plane.
SurrogatePair(c) ==
  << \hD800 + (c - \h10000) \div \h400, \hDC00 + ((c - \h10000) % \h400) >>

\* Byte sequences utf8_decodestr refuses.
Refused(c) == c = Illegal \/ c \in High \cup Low \cup NonCharacters

-----------------------------------------------------------------------------
(***************************************************************************)
(* The form of the catalog to UTF-8                                        *)
(***************************************************************************)

\* utf8_encodestr, with the buffer of hfsuc_to_str, which holds every name: a
\* pair becomes one code point, a half of one is encoded alone, a NUL by its
\* replacement, and a non-character ends the string.
RECURSIVE utf8_encodestr(_)
utf8_encodestr(ucs) ==
  IF ucs = <<>> \/ Head(ucs) \in NonCharacters THEN <<>>
  ELSE IF Head(ucs) \in High /\ Len(ucs) > 1 /\ ucs[2] \in Low
  THEN <<(Head(ucs) - \hD800) * \h400 + (ucs[2] - \hDC00) + \h10000>>
         \o utf8_encodestr(SubSeq(ucs, 3, Len(ucs)))
  ELSE <<IF Head(ucs) = NUL THEN UCS_ALT_NULL ELSE Head(ucs)>> \o utf8_encodestr(Tail(ucs))

-----------------------------------------------------------------------------
(***************************************************************************)
(* The orders of names                                                     *)
(***************************************************************************)

cmp(a, b) == IF a < b THEN -1 ELSE IF a > b THEN 1 ELSE 0

Fold(c) == IF c < \h100 THEN gLatinCaseFold(c) ELSE gLowerCaseTable(c)

\* The units FastUnicodeCompare looks at.
Folded(name) == SelectSeq([k \in DOMAIN name |-> Fold(name[k])], LAMBDA c : c # 0)

\* The first difference decides; a prefix is less, by a unit that is there
\* against the 0 of the name that has ended.
Lexicographic(a, b) ==
  LET At(s, k) == IF k \in DOMAIN s THEN s[k] ELSE -1
      differing == {k \in 1..Max({Len(a), Len(b)}) : At(a, k) # At(b, k)}
  IN IF differing = {} THEN 0 ELSE cmp(At(a, Min(differing)), At(b, Min(differing)))

FastUnicodeCompare(a, b) == Lexicographic(Folded(a), Folded(b))

\* Of an HFSX volume with the binary order: units, then length.
CompareBinary(a, b) == Lexicographic(a, b)
=============================================================================
