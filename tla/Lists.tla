------------------------------- MODULE Lists -------------------------------
(***************************************************************************)
(* TList, the list of the C++Builder library that the program keeps its    *)
(* objects in: lists as functions of the position, so that what an         *)
(* operation does to each element can be read off.  Positions are 1-based: *)
(* position k is the code's index k - 1.                                   *)
(***************************************************************************)
EXTENDS Integers, Sequences

Positions(s) == 1..Len(s)
Contains(s, x) == \E k \in Positions(s) : s[k] = x
IndexOf(s, x) == CHOOSE k \in Positions(s) : s[k] = x  \* asked of what is listed once
DeleteAt(s, k) == [j \in 1..(Len(s) - 1) |-> IF j < k THEN s[j] ELSE s[j + 1]]
Remove(s, x) == IF Contains(s, x) THEN DeleteAt(s, IndexOf(s, x)) ELSE s
Move(s, k, d) == [j \in 1..Len(s) |->
  IF j = d THEN s[k]
  ELSE IF k <= j /\ j < d THEN s[j + 1]
  ELSE IF d < j /\ j <= k THEN s[j - 1]
  ELSE s[j]]
Elements(s) == {s[k] : k \in Positions(s)}
Distinct(s) == \A j, k \in Positions(s) : s[j] = s[k] => j = k
=============================================================================
