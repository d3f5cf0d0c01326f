--------------------------- MODULE MCMostSimilar ----------------------------
(***************************************************************************)
(* An instance of MostSimilar for TLC: five product names over three words.*)
(***************************************************************************)
EXTENDS MostSimilar, TLC

CONSTANTS milk, wholeMilk, milkMilk, bread, wholeBread

Names == {milk, wholeMilk, milkMilk, bread, wholeBread}

Words ==
  (milk :> <<"milk">>) @@ (wholeMilk :> <<"whole", "milk">>)
  @@ (milkMilk :> <<"milk", "milk">>) @@ (bread :> <<"bread">>)
  @@ (wholeBread :> <<"whole", "bread">>)

Chars ==
  (milk :> 4) @@ (wholeMilk :> 10) @@ (milkMilk :> 9) @@ (bread :> 5)
  @@ (wholeBread :> 11)

\* A common multiple of all sums of two lengths: the scores are exact.
Scale == 16 * 9 * 5 * 7 * 11 * 13 * 19

Scores ==
  [t \in Names |-> [o \in Names |-> CompareSimilarity(Words, Chars, Scale, t, o)]]

Prices == {1, 2}
=============================================================================
