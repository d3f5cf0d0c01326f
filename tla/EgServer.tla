------------------------------ MODULE EgServer ------------------------------
(***************************************************************************)
(* The price server, src/Server/Node/eg_server.js: one thread, one MySQL   *)
(* connection that answers queries in the order they were made, and two    *)
(* timers per comparison.  A comparison looks every item up in both stores,*)
(* takes what has been found 500 ms later, asks for a similar product where*)
(* only one store was found to sell the item, and replies after 1000 ms    *)
(* with what has been added up by then, whether or not the database is     *)
(* done.  An exception in a callback ends the process.                     *)
(***************************************************************************)
EXTENDS Catalog

CONSTANTS
  Requests,       \* the requests that may arrive
  Refused,        \* the names that make a query the database refuses
  NoItem,         \* a search request without its item parameter
  MaxItems,       \* a bound on the length of a compared list, for TLC
  Posted,         \* Posted[r]: the lists that r may compare, for TLC
  Unreliable      \* whether the connection to the database may break

Lists == UNION {[1 .. n -> Name] : n \in 0 .. MaxItems}

ASSUME ServerAssumption ==
  /\ Refused \subseteq Name /\ NoItem \notin Name
  /\ MaxItems \in Nat \ {0} /\ Posted \in [Requests -> SUBSET Lists]
  /\ Unreliable \in BOOLEAN

VARIABLES
  up,       \* whether the process runs
  list,     \* list[r]: the names that request r compares, or searches for
  found,    \* found[r][k][s]: where the table of s has item k of r, as answered
  quote,    \* quote[r][s]: price, list and unknown count of store s
  reply,    \* reply[r]: what has been sent for r
  dbq,      \* the queries the connection has not answered
  due,      \* the 500 ms timers, <<request, item>>, in the order they were set
  replyq,   \* the 1000 ms timers, in the order they were set
  late      \* history: the requests with a query that missed its timer

vars == <<up, list, found, quote, reply, dbq, due, replyq, late>>

Query ==
  [req : Requests, item : 1 .. MaxItems, kind : {"lookup", "similar"}, store : Store]
  \cup [req : Requests, item : {1}, kind : {"search"}, store : {"both"}]

Arrival == {"no", "compare", "search"}
Unsent == [kind |-> "no", names |-> <<>>]
NoReply == [kind |-> "none"]

Entry == [row : Row, bare : BOOLEAN]
EmptyQuote == [s \in Store |-> [cost |-> 0, items |-> <<>>, unknown |-> 0]]

\* The requests, their queries and their timers.
RequestsOK ==
  /\ up \in BOOLEAN
  /\ list \in [Requests -> [kind : Arrival, names : Lists]]
  /\ \A r \in Requests : list[r].kind = "no" => list[r].names = <<>>
  /\ DOMAIN found = Requests
  /\ \A r \in Requests :
       found[r] \in [1 .. Len(list[r].names) -> [Store -> SUBSET Nat]]
  /\ dbq \in Seq(Query)
  /\ \A n \in DOMAIN dbq : dbq[n].item \in 1 .. Len(list[dbq[n].req].names)
  /\ due \in Seq(Requests \X Nat)
  /\ \A n \in DOMAIN due : due[n][2] \in 1 .. Len(list[due[n][1]].names)
  /\ replyq \in Seq(Requests)

TypeOK ==
  /\ RequestsOK
  /\ \A r \in Requests :
       /\ \A s \in Store :
            /\ quote[r][s].cost \in Nat
            /\ quote[r][s].items \in Seq(Entry)
            /\ quote[r][s].unknown \in 0 .. Len(list[r].names)
       /\ reply[r].kind \in {"none", list[r].kind}
  /\ late \subseteq Requests

Init ==
  /\ up = TRUE
  /\ list = [r \in Requests |-> Unsent]
  /\ found = [r \in Requests |-> <<>>]
  /\ quote = [r \in Requests |-> EmptyQuote]
  /\ reply = [r \in Requests |-> NoReply]
  /\ dbq = <<>> /\ due = <<>> /\ replyq = <<>>
  /\ late = {}

-----------------------------------------------------------------------------
(* Requests.                                                               *)

LookupIn(r, k, s) == [req |-> r, item |-> k, kind |-> "lookup", store |-> s]

\* Fault: Walmart is asked before Safeway.
FaultyLookups(r, names) ==
  [n \in 1 .. 2 * Len(names) |->
     LookupIn(r, (n + 1) \div 2, IF n % 2 = 1 THEN "Walmart" ELSE "Safeway")]

\* Two queries per item, Safeway first.
Lookups(r, names) ==
  [n \in 1 .. 2 * Len(names) |->
     LookupIn(r, (n + 1) \div 2, IF n % 2 = 1 THEN "Safeway" ELSE "Walmart")]

\* Fault: the loop over the items runs once too often.
FaultyDeadlines(r, names) == [k \in 1 .. Len(names) + 1 |-> <<r, k>>]

Deadlines(r, names) == [k \in 1 .. Len(names) |-> <<r, k>>]

\* POST /compare: two queries and a timer per item, a timer for the reply.
ArriveCompare(r, names) ==
  /\ up /\ list[r].kind = "no"
  /\ list' = [list EXCEPT ![r] = [kind |-> "compare", names |-> names]]
  /\ found' = [found EXCEPT ![r] =
                 [k \in 1 .. Len(names) |-> [s \in Store |-> {}]]]
  /\ dbq' = dbq \o Lookups(r, names)
  /\ due' = due \o Deadlines(r, names)
  /\ replyq' = Append(replyq, r)
  /\ UNCHANGED <<up, quote, reply, late>>

\* Fault: a search that matches nothing is not queried.
FaultySearchable(name) == name # NoItem /\ Matching(name) # {}

Searchable(name) == name # NoItem

\* GET /item: without its parameter split throws, which is logged and leaves
\* the request without an answer.
ArriveSearch(r, name) ==
  /\ up /\ list[r].kind = "no"
  /\ LET names == IF name = NoItem THEN <<>> ELSE <<name>>
     IN /\ list' = [list EXCEPT ![r] = [kind |-> "search", names |-> names]]
        /\ found' = [found EXCEPT ![r] =
                       [k \in 1 .. Len(names) |-> [s \in Store |-> {}]]]
  /\ dbq' = IF Searchable(name)
              THEN Append(dbq, [req |-> r, item |-> 1, kind |-> "search", store |-> "both"])
              ELSE dbq
  /\ UNCHANGED <<up, quote, reply, due, replyq, late>>

-----------------------------------------------------------------------------
(* Answers of the database.                                                *)

Asked(q) == list[q.req].names[q.item]

IsRefused(q) == q.kind # "similar" /\ Asked(q) \in Refused

\* "throw err" in a callback: whatever is queued or timed is gone.
Crash ==
  /\ up' = FALSE
  /\ dbq' = <<>> /\ due' = <<>> /\ replyq' = <<>>
  /\ UNCHANGED <<list, found, quote, reply, late>>

QueryRefused ==
  /\ dbq # <<>> /\ IsRefused(Head(dbq))
  /\ Crash

ConnectionLost ==
  /\ Unreliable /\ up
  /\ Crash

Answered(kind) ==
  /\ dbq # <<>> /\ Head(dbq).kind = kind /\ ~ IsRefused(Head(dbq))
  /\ dbq' = Tail(dbq)

LookupAnswered ==
  /\ Answered("lookup")
  /\ LET q == Head(dbq)
     IN found' = [found EXCEPT ![q.req][q.item][q.store] =
                    Places(q.store, Asked(q))]
  /\ UNCHANGED <<up, list, quote, reply, due, replyq, late>>

Added(q, row, bare) ==
  [cost |-> q.cost + row.price, items |-> Append(q.items, [row |-> row, bare |-> bare]),
   unknown |-> q.unknown]

\* Fault: the totals are those of the oldest request without a reply, as if
\* they were global.
FaultyAsker(q) == IF replyq = <<>> THEN q.req ELSE Head(replyq)

Asker(q) == q.req

SimilarAnswered ==
  /\ Answered("similar")
  /\ LET q == Head(dbq)
         rows == Candidates(q.store)
     IN quote' = IF rows = <<>> THEN quote
                 ELSE [quote EXCEPT ![Asker(q)][q.store] =
                         Added(@, MostSimilarRow(Asked(q), rows), FALSE)]
  /\ UNCHANGED <<up, list, found, reply, due, replyq, late>>

SearchAnswered ==
  /\ Answered("search")
  /\ LET q == Head(dbq)
     IN reply' = [reply EXCEPT ![q.req] =
                    [kind |-> "search", names |-> Matching(Asked(q))]]
  /\ UNCHANGED <<up, list, found, quote, due, replyq, late>>

-----------------------------------------------------------------------------
(* The 500 ms timer of an item.                                            *)

IsIn(r, k, s) == found[r][k][s] # {}

Found(r, k, s) == First(s, found[r][k][s])

Pending(r, k, kind) ==
  \E n \in DOMAIN dbq : dbq[n].req = r /\ dbq[n].item = k /\ dbq[n].kind = kind

InBoth(r, k) ==
  /\ \A s \in Store : IsIn(r, k, s)
  /\ quote' = [quote EXCEPT ![r] =
                 [s \in Store |-> Added(quote[r][s], Found(r, k, s), TRUE)]]
  /\ UNCHANGED dbq

InOne(r, k, s) ==
  /\ IsIn(r, k, s) /\ ~ IsIn(r, k, Other(s))
  /\ quote' = [quote EXCEPT ![r][s] = Added(@, Found(r, k, s), FALSE)]
  /\ dbq' = Append(dbq, [req |-> r, item |-> k, kind |-> "similar", store |-> Other(s)])

\* Fault: an item that neither store has is unknown to Safeway only.
FaultyUnknownIn == {"Safeway"}

UnknownIn == Store

InNeither(r, k) ==
  /\ \A s \in Store : ~ IsIn(r, k, s)
  /\ quote' = [quote EXCEPT ![r] =
                 [s \in Store |-> IF s \in UnknownIn
                                    THEN [quote[r][s] EXCEPT !.unknown = @ + 1]
                                    ELSE quote[r][s]]]
  /\ UNCHANGED dbq

Deadline ==
  /\ due # <<>>
  /\ LET r == Head(due)[1]
         k == Head(due)[2]
     IN /\ InBoth(r, k) \/ (\E s \in Store : InOne(r, k, s)) \/ InNeither(r, k)
        /\ late' = IF Pending(r, k, "lookup") THEN late \cup {r} ELSE late
  /\ due' = Tail(due)
  /\ UNCHANGED <<up, list, found, reply, replyq>>

-----------------------------------------------------------------------------
(* The 1000 ms timer: convertToJson and the reply.                         *)

\* An item is followed by a comma unless it is identical to the last one:
\* pairs are objects of their own, bare names are compared as strings.  Of a
\* bare name the first two letters are written as its name and its cost.
JsonItems(items) ==
  LET last == items[Len(items)]
      isLast(k) == k = Len(items) \/ (items[k] = last /\ last.bare)
  IN [k \in 1 .. Len(items) |->
        [row |-> items[k].row, readable |-> ~ items[k].bare, comma |-> ~ isLast(k)]]

\* Both stores are sent the count of Walmart.
ConvertToJson(info) ==
  [s \in Store |-> [cost |-> info[s].cost, items |-> JsonItems(info[s].items),
                    unknown |-> info["Walmart"].unknown]]

\* Fault: the reply waits for the queries of its request.
FaultyReplyDue(r) ==
  /\ \A n \in DOMAIN due : due[n][1] # r
  /\ \A n \in DOMAIN dbq : dbq[n].req # r

\* Fault: the timer is set again (setInterval).
FaultyExpired(timers) == Append(Tail(timers), Head(timers))

Expired(timers) == Tail(timers)

\* Timers expire in the order of their times, also when all are overdue.
ReplyDue(r) == \A n \in DOMAIN due : due[n][1] # r

Respond ==
  /\ replyq # <<>>
  /\ LET r == Head(replyq)
     IN /\ ReplyDue(r)
        /\ reply' = [reply EXCEPT ![r] =
                       [kind |-> "compare", quote |-> ConvertToJson(quote[r])]]
        /\ late' = IF \E k \in 1 .. Len(list[r].names) : Pending(r, k, "similar")
                     THEN late \cup {r} ELSE late
  /\ replyq' = Expired(replyq)
  /\ UNCHANGED <<up, list, found, quote, dbq, due>>

-----------------------------------------------------------------------------

Database == QueryRefused \/ LookupAnswered \/ SimilarAnswered \/ SearchAnswered

Arrive ==
  \E r \in Requests :
    \/ \E names \in Posted[r] : ArriveCompare(r, names)
    \/ \E name \in Name \cup {NoItem} : ArriveSearch(r, name)

Next == Arrive \/ Database \/ ConnectionLost \/ Deadline \/ Respond

Spec == Init /\ [][Next]_vars

\* Timers fire.  Nothing is assumed of the database.
TimerSpec == Spec /\ WF_vars(Deadline) /\ WF_vars(Respond)
-----------------------------------------------------------------------------
(* What a comparison is to say, from the tables alone.                     *)

Compared(r) == list[r].kind = "compare"

\* A reply none of whose queries missed its timer lists exactly what the
\* stores offer, at its price, and counts what neither sells - whatever other
\* requests share the connection, the timers and the tables.
TimelyReply ==
  \A r \in Requests \ late : Compared(r) /\ reply[r] # NoReply =>
    LET names == list[r].names IN
    \A s \in Store :
      LET told == reply[r].quote[s]
          offered == {k \in DOMAIN names : Offers(s, names[k])}
      IN /\ \A row \in Row :
              Cardinality({k \in DOMAIN told.items : told.items[k].row = row})
              = Cardinality({k \in offered : Offer(s, names[k]) = row})
         /\ told.cost = Total([k \in offered |-> Offer(s, names[k]).price])
         /\ told.unknown =
              Cardinality({k \in DOMAIN names : \A t \in Store : ~ Sells(t, names[k])})

\* What a client is told: the products that a reply lists, and their price.
Told(r) ==
  IF reply[r].kind # "compare" THEN reply[r]
  ELSE [kind |-> "compare",
        quote |-> [s \in Store |->
          LET part == reply[r].quote[s]
          IN  [cost |-> part.cost, unknown |-> part.unknown,
               rows |-> [k \in DOMAIN part.items |-> part.items[k].row]]]]

Service == INSTANCE PriceService WITH
  serving <- up, asked <- list, told <- [r \in Requests |-> Told(r)]

\* The server keeps the promise of PriceService, however late its database is:
\* it answers once, and every item of the list is listed by a store, with one of
\* its products, or counted as unknown to both.
ServesAsPromised == Service!Spec

\* No item is lost or counted twice, late answers included: for each store
\* every item is undecided, listed, unknown (to both stores) or awaiting a
\* similar product, unless there is nothing to choose that from; and the
\* price is that of the listed products.
QuoteAddsUp ==
  \A r \in Requests : up /\ Compared(r) =>
    \A s \in Store :
      LET told == quote[r][s]
          undecided == {n \in DOMAIN due : due[n][1] = r}
          awaited == {n \in DOMAIN dbq : dbq[n].req = r /\ dbq[n].store = s
                                         /\ dbq[n].kind = "similar"}
          count == Cardinality(undecided) + Len(told.items)
                   + quote[r]["Walmart"].unknown + Cardinality(awaited)
      IN /\ count <= Len(list[r].names)
         /\ Candidates(s) # <<>> => count = Len(list[r].names)
         /\ told.cost = Total([k \in DOMAIN told.items |-> told.items[k].row.price])

SafewayAnswered(r, k) ==
  found[r][k]["Safeway"] = Places("Safeway", list[r].names[k])

\* Walmart's answer for an item never overtakes Safeway's, in the queue of the
\* connection or in what the timer of the item finds, whatever is queued for
\* other items and other requests.
LookupsInOrder ==
  /\ \A n \in DOMAIN dbq :
       dbq[n].kind = "lookup" /\ dbq[n].store = "Walmart" =>
         \/ SafewayAnswered(dbq[n].req, dbq[n].item)
         \/ \E m \in 1 .. n - 1 : dbq[m] = LookupIn(dbq[n].req, dbq[n].item, "Safeway")
  /\ \A r \in Requests : \A k \in DOMAIN found[r] :
       found[r][k]["Walmart"] # {} => SafewayAnswered(r, k)

\* A product is replaced by a similar one of Safeway only when Safeway does
\* not sell it: Safeway's answer comes before Walmart's.
NoFalseSubstitute ==
  \A n \in DOMAIN dbq :
    dbq[n].kind = "similar" /\ dbq[n].store = "Safeway"
      => ~ Sells("Safeway", Asked(dbq[n]))

\* Every comparison is answered, unless the process ends: whatever the
\* database does, by the timers alone.
CompareIsAnswered ==
  \A r \in Requests : Compared(r) ~> (reply[r] # NoReply \/ ~ up)

\* Every search for an item is answered, unless the process ends, if the
\* database goes on answering: whatever other requests queue before it.
SearchIsAnswered ==
  WF_vars(Database) =>
    \A r \in Requests :
      (list[r].kind = "search" /\ list[r].names # <<>>) ~> (reply[r] # NoReply \/ ~ up)

\* convertToJson "converts store information to json format": every cost is a
\* number and exactly the last item has no comma after it.
ReplyIsJson ==
  \A r \in Requests : Compared(r) /\ reply[r] # NoReply =>
    \A s \in Store :
      LET items == reply[r].quote[s].items
      IN \A k \in DOMAIN items : items[k].readable /\ (items[k].comma <=> k # Len(items))

\* "find most similar in safeway": what only Walmart sells is answered by the
\* most similar of the products of Safeway.
SafewaySubstitute ==
  \A r \in Requests \ late : Compared(r) /\ reply[r] # NoReply =>
    \A k \in DOMAIN list[r].names :
      LET name == list[r].names[k]
          items == reply[r].quote["Safeway"].items
      IN Sells("Walmart", name) /\ ~ Sells("Safeway", name) /\ Table["Safeway"] # <<>>
           => \E n \in DOMAIN items :
                items[n].row = MostSimilarRow(name, Table["Safeway"])
=============================================================================
