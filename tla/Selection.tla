------------------------------- MODULE Selection -------------------------------
(***************************************************************************)
(* Vec::retain and iter().filter().collect(): what a list keeps, in order. *)
(***************************************************************************)
EXTENDS Integers, Sequences

\* What the first i entries of s keep when the entries at the positions K stay.
Picks(s, K) ==
  LET kept[i \in 0 .. Len(s)] ==
        IF i = 0 THEN <<>>
        ELSE IF i \in K THEN Append(kept[i - 1], s[i])
        ELSE kept[i - 1]
  IN kept

\* The entries of s at the positions K.
Picked(s, K) == Picks(s, K)[Len(s)]
===============================================================================
