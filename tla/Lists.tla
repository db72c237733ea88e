-------------------------------- MODULE Lists --------------------------------
(***************************************************************************)
(* The two things the run loop does to its arrays and lists besides adding *)
(* to them: keeping those of its elements that are in a set, and removing  *)
(* an element.  ListTheorems proves what they return.                      *)
(***************************************************************************)
EXTENDS Naturals, Sequences, SequencesExt

(* The elements of the list that are in the set, in the order of the list. *)
Among(list, set) ==
  LET taken[n \in 0..Len(list)] ==
        IF n = 0 THEN <<>>
        ELSE IF list[n] \in set THEN Append(taken[n - 1], list[n])
        ELSE taken[n - 1]
  IN taken[Len(list)]

(* The list without an element, wherever it occurs.                        *)
Without(list, e) == Among(list, ToSet(list) \ {e})
=============================================================================
