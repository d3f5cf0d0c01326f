----------------------------- MODULE StoredList -----------------------------
(***************************************************************************)
(* What the grocery list promises its user: one stored list, which changes *)
(* only by the addition of one item or the removal of one item, and which  *)
(* forgets nothing else.                                                   *)
(***************************************************************************)
EXTENDS Naturals, Sequences

CONSTANT Item       \* the names of the products

VARIABLE stored     \* the list the user's account holds

Init == stored = <<>>

Add(i) == stored' = Append(stored, i)

RemoveOne(i) ==
  \E k \in 1 .. Len(stored) :
    /\ stored[k] = i
    /\ stored' = SubSeq(stored, 1, k - 1) \o SubSeq(stored, k + 1, Len(stored))

Next == \E i \in Item : Add(i) \/ RemoveOne(i)

Spec == Init /\ [][Next]_stored
=============================================================================
