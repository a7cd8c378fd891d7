---------------------------- MODULE MCSearchNode ----------------------------
(***************************************************************************)
(* Every node of up to four records over seven keys, in order or not; and  *)
(* nodes of up to three of these names, with strings of up to five         *)
(* characters typed: letters in both cases, with one mark, with two, with  *)
(* marks of two classes, a letter with marks in one character, an ignored  *)
(* character, a pair, a syllable, the replacement of NUL, illegal bytes.   *)
(***************************************************************************)
EXTENDS NameSearch

MCDiskNodes ==
  { {<<\h61>>},
    {<<\h41, \h308>>, <<\h61, \h323, \h308>>, <<\h3B1>>},
    {<<\h53, \h323, \h307>>, <<NUL, \h3B1>>, <<\h61, \h61>>},
    {<<\hD801, \hDC00>>, <<\h1100, \h1161, \h11A8>>, <<\h61, \h1100, \h1161, \h11A8>>} }

Alphabet ==
  { \h61, \hE4, \h308, \h323, \h344, \h350, \h1E68, \h200D, \h10400, \hAC01,
    UCS_ALT_NULL, \h391, Illegal }

MCTypedNames ==
  UNION {[1..n -> Alphabet] : n \in 1..2}
    \cup {<<a, b, c>> : a \in {\h53, \h61, \hE4, \h1E68, \hAC01},
                       b, c \in {\h307, \h308, \h323, \h344, \h10400, \h391}}
    \cup {<<\h41, \h308, \h323, c>> : c \in {\h61, \h10400, \h391, \h1E68}}
    \cup {<<\hAC01, \h61, \h61, b, c>> : b, c \in {\h61, \h10400}}
=============================================================================
