----------------------------- MODULE Similarity -----------------------------
(***************************************************************************)
(* What the price server looks for when a store does not sell an item: the *)
(* product of that store whose name is most similar to it                  *)
(* (compareSimilarity and findMostSimilar of src/Server/Node/eg_server.js).*)
(***************************************************************************)
EXTENDS Naturals, Sequences, FiniteSets, FiniteSetsExt

CONSTANTS
  Name,     \* the names of products
  Price,    \* their prices, in cents
  Score     \* Score[target][other]: how similar other is to target

ASSUME ScoreAssumption == Price \subseteq Nat /\ Score \in [Name -> [Name -> Nat]]

\* What the database answers: the products of a table, in its own order.
Row == [name : Name, price : Price]

\* compareSimilarity: the words of other that occur in target, each time they
\* occur, over half the characters of both names.  Names are word sequences,
\* Chars their lengths; Scale clears the fraction, so that scores are Nat.
CompareSimilarity(Words, Chars, Scale, target, other) ==
  LET shared == {k \in DOMAIN Words[other] :
                   \E j \in DOMAIN Words[target] :
                     Words[target][j] = Words[other][k]}
  IN (Cardinality(shared) * 2 * Scale) \div (Chars[target] + Chars[other])

\* The positions of the rows that no row exceeds.
Best(target, rows) ==
  {k \in 1 .. Len(rows) : \A j \in 1 .. Len(rows) :
     Score[target][rows[j].name] <= Score[target][rows[k].name]}

\* What findMostSimilar is for: the first of those rows.
MostSimilarRow(target, rows) == rows[Min(Best(target, rows))]
=============================================================================
