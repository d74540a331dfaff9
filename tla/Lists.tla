------------------------------- MODULE Lists -------------------------------
(***************************************************************************)
(* Loops over lists that several modules have, as recursive functions of   *)
(* their turns.                                                            *)
(***************************************************************************)
EXTENDS Integers, Sequences, SequencesExt

\* Those of the things in a list that are in a set, in their order.
Among(list, set) ==
  LET kept[n \in 0 .. Len(list)] ==
        IF n = 0 THEN <<>>
        ELSE IF list[n] \in set THEN Append(kept[n - 1], list[n]) ELSE kept[n - 1]
  IN  kept[Len(list)]

\* The lists of a list, one after the other.
Chained(lists) ==
  LET chain[n \in 0 .. Len(lists)] == IF n = 0 THEN <<>> ELSE chain[n - 1] \o lists[n]
  IN  chain[Len(lists)]
=============================================================================
