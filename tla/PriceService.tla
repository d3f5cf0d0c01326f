---------------------------- MODULE PriceService ----------------------------
(***************************************************************************)
(* What the price server promises its clients, whatever the database and   *)
(* the timers do: no database, connection or timer is mentioned.  A request*)
(* is answered at most once, an answer is never taken back, and even a     *)
(* comparison that missed answers of the database accounts for every item  *)
(* of the list with products of the tables.                                *)
(***************************************************************************)
EXTENDS Catalog

CONSTANTS
  Requests,   \* the requests that may arrive
  Lists       \* the lists of names that they may be about

VARIABLES
  serving,    \* whether the server runs
  asked,      \* asked[r]: what request r is and about which names
  told        \* told[r]: the answer to r

Unsent == [kind |-> "no", names |-> <<>>]
NoReply == [kind |-> "none"]

Init ==
  /\ serving = TRUE
  /\ asked = [r \in Requests |-> Unsent]
  /\ told = [r \in Requests |-> NoReply]

\* What a store may list for an item: what it offers or, when Walmart's answer
\* was late, the product of Walmart most similar to what Safeway sells.
MayList(s, name) ==
  {row \in Range(Table[s]) :
     \/ Offers(s, name) /\ row = Offer(s, name)
     \/ /\ s = "Walmart" /\ \A t \in Store : Sells(t, name)
        /\ row = MostSimilarRow(name, Table[s])}

\* The rows of store s are those of the items at these places of the list, and
\* its cost is theirs.
Accounts(s, names, place, part) ==
  /\ DOMAIN part.rows = DOMAIN place
  /\ \A k \in DOMAIN place : part.rows[k] \in MayList(s, names[place[k]])
  /\ part.cost = Total([k \in DOMAIN place |-> part.rows[k].price])

\* No store lists an item twice; every item is listed by a store, or is one of
\* the unknown items that both stores count.
IsQuote(names, quote) ==
  LET items == DOMAIN names
      Placing == UNION {Injection(1 .. n, items) : n \in 0 .. Len(names)}
  IN \E place \in [Store -> Placing] :
       /\ \A s \in Store : Accounts(s, names, place[s], quote[s])
       /\ LET unknown == items \ UNION {Range(place[s]) : s \in Store}
          IN \A s \in Store : quote[s].unknown = Cardinality(unknown)

Ask(r) ==
  /\ serving /\ asked[r].kind = "no"
  /\ \E kind \in {"compare", "search"}, names \in Lists :
       asked' = [asked EXCEPT ![r] = [kind |-> kind, names |-> names]]
  /\ UNCHANGED <<serving, told>>

\* The answer is any that IsQuote allows.
TellPrices(r) ==
  /\ serving /\ asked[r].kind = "compare" /\ told[r] = NoReply
  /\ told'[r].kind = "compare" /\ IsQuote(asked[r].names, told'[r].quote)
  /\ told' = [told EXCEPT ![r] = told'[r]]
  /\ UNCHANGED <<serving, asked>>

TellNames(r) ==
  /\ serving /\ asked[r].kind = "search" /\ asked[r].names # <<>>
  /\ told[r] = NoReply
  /\ told' = [told EXCEPT ![r] =
                [kind |-> "search", names |-> Matching(asked[r].names[1])]]
  /\ UNCHANGED <<serving, asked>>

End ==
  /\ serving /\ serving' = FALSE
  /\ UNCHANGED <<asked, told>>

Next == End \/ \E r \in Requests : Ask(r) \/ TellPrices(r) \/ TellNames(r)

Spec == Init /\ [][Next]_<<serving, asked, told>>
=============================================================================
