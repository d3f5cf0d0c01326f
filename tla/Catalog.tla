------------------------------ MODULE Catalog -------------------------------
(***************************************************************************)
(* What the tables of the price server say of a name, whoever asks, and    *)
(* when: which store sells it, what a store offers for it, and what a      *)
(* search for it answers (the queries of src/Server/Node/eg_server.js).    *)
(***************************************************************************)
EXTENDS Similarity, SequencesExt

CONSTANTS
  Table,          \* Table[s]: the rows of store s, in the order of the database
  Uncategorised,  \* the rows of Safeway whose category is the empty string
  Like            \* Like[n]: the products that a search for n matches

Store == {"Safeway", "Walmart"}
Other(s) == IF s = "Safeway" THEN "Walmart" ELSE "Safeway"

ASSUME CatalogAssumption ==
  /\ Table \in [Store -> Seq(Row)]
  /\ Uncategorised \in Seq(Row) /\ Range(Uncategorised) \subseteq Range(Table["Safeway"])
  /\ Like \in [Name -> SUBSET Name]

\* Where the table of s has a name.
Places(s, name) == {k \in DOMAIN Table[s] : Table[s][k].name = name}

Sells(s, name) == Places(s, name) # {}

\* result[0]: of several rows the first.
First(s, places) == Table[s][Min(places)]

\* What a search answers: UNION removes the names both stores have.
Matching(name) == {n \in Like[name] : \E s \in Store : Sells(s, n)}

\* The products among which a similar one is chosen: for Safeway those of
\* safewayCategory, which is empty whenever Safeway was not found to sell it.
Candidates(s) == IF s = "Walmart" THEN Table[s] ELSE Uncategorised

\* A store offers its own product, or the product most similar to one that
\* only the other store sells.
Offers(s, name) ==
  Sells(s, name) \/ (Sells(Other(s), name) /\ Candidates(s) # <<>>)

Offer(s, name) ==
  IF Sells(s, name) THEN First(s, Places(s, name))
  ELSE MostSimilarRow(name, Candidates(s))

\* The sum of all prices, whatever they are called.
Total(price) == MapThenSumSet(LAMBDA k : price[k], DOMAIN price)
=============================================================================
