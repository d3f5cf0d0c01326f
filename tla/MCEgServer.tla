----------------------------- MODULE MCEgServer -----------------------------
(***************************************************************************)
(* An instance of EgServer for TLC: five names, one for every answer the   *)
(* tables can give.                                                        *)
(***************************************************************************)
EXTENDS EgServer

CONSTANTS milk, eggs, rice, kale, salsa, r1, r2

\* milk is sold by both stores, and Safeway lists it twice; eggs by Safeway and
\* rice by Walmart only; kale by neither; salsa cannot be queried.
Names == {milk, eggs, rice, kale, salsa}

Prices == {2, 3, 5, 10, 20}

Product(name, price) == [name |-> name, price |-> price]

Catalog ==
  [s \in Store |->
     IF s = "Safeway"
       THEN <<Product(milk, 2), Product(eggs, 10), Product(milk, 5)>>
       ELSE <<Product(rice, 20), Product(milk, 3)>>]

EggsOnly == <<Product(eggs, 10)>>
NoRows == <<>>

\* rice is more similar to milk than to eggs, milk most similar to itself.
Scores ==
  [t \in Names |-> [o \in Names |-> IF t = o THEN 2 ELSE IF o = milk THEN 1 ELSE 0]]

\* A search for kale matches nothing, any other the products of both stores.
LikeAll == [n \in Names |-> IF n = kale THEN {} ELSE {milk, rice}]

\* One request compares any list of up to two items, the other any of one item
\* at most or one of two, in which each store lacks something.
PostedUnequal ==
  [r \in Requests |->
     IF r = r1 THEN Lists
     ELSE {names \in Lists : Len(names) <= 1}
          \cup {<<milk, kale>>}]
=============================================================================
