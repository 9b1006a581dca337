------------------------------ MODULE Selection ------------------------------
(***************************************************************************)
(* SelectSeq of the elements of a list that are in a set, written as a     *)
(* recursive function: what it selects can then be proved.                 *)
(***************************************************************************)
EXTENDS Integers, Sequences

Only(list, set) ==
  LET taken[k \in 0..Len(list)] ==
        IF k = 0 THEN <<>>
        ELSE IF list[k] \in set THEN Append(taken[k - 1], list[k]) ELSE taken[k - 1]
  IN taken[Len(list)]
=============================================================================
