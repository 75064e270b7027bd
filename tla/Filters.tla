-------------------------------- MODULE Filters --------------------------------
(***************************************************************************)
(* What the code's calls of filter() keep, for a test on single elements.  *)
(***************************************************************************)
EXTENDS Naturals, Sequences

\* The elements of a list that are in a set, in their order.
Selected(list, wanted) ==
  LET pick[n \in 0..Len(list)] ==
        IF n = 0 THEN <<>>
        ELSE IF list[n] \in wanted THEN Append(pick[n - 1], list[n])
        ELSE pick[n - 1]
  IN pick[Len(list)]
=============================================================================
