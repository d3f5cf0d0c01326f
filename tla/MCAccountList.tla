--------------------------- MODULE MCAccountList ----------------------------
(* An instance of AccountList for TLC: two accounts, alike.                *)
EXTENDS AccountList, TLC

CONSTANTS ann, ben

\* After a hurried login only what can be on the screen is left to look at,
\* which no stored list has a part in.
Unspoilt == hurried => \A a \in Account : stored[a] = {a}

Alike == Permutations({ann, ben})
=============================================================================
