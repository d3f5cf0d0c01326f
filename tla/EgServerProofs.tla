--------------------------- MODULE EgServerProofs ---------------------------
(***************************************************************************)
(* The price server never takes a product that Safeway sells for one that  *)
(* only Walmart sells, for any requests, tables, order of arrival and      *)
(* timing of the database.  The reason is the order of the one connection: *)
(* Safeway is asked first and so has answered when Walmart answers.        *)
(* The types of its quotes and replies: every listed row is a row of a     *)
(* table, and no item is counted as unknown that the list does not have.   *)
(***************************************************************************)
EXTENDS EgServer, WellFoundedInduction, TLAPS

LEMMA ListLength ==
  ASSUME NEW names \in Lists
  PROVE  /\ names \in Seq(Name)
         /\ Len(names) \in Nat /\ Len(names) <= MaxItems
         /\ DOMAIN names = 1 .. Len(names)
  BY ServerAssumption DEF Lists

LEMMA PostedLists == \A r \in Requests : Posted[r] \subseteq Lists
  BY ServerAssumption

\* Where the elements of a concatenation come from.
LEMMA Concatenated ==
  ASSUME NEW S, NEW a \in Seq(S), NEW b \in Seq(S), NEW n \in DOMAIN (a \o b)
  PROVE  \/ n \in DOMAIN a /\ (a \o b)[n] = a[n]
         \/ n \notin DOMAIN a /\ n - Len(a) \in DOMAIN b /\ (a \o b)[n] = b[n - Len(a)]
<1>1. Len(a) \in Nat /\ Len(b) \in Nat /\ n \in 1 .. Len(a) + Len(b)
  OBVIOUS
<1>2. CASE n <= Len(a)
  BY <1>1, <1>2
<1>3. CASE n > Len(a)
  BY <1>1, <1>3
<1> QED
  BY <1>1, <1>2, <1>3

\* The queues lose their head and gain a last element.
LEMMA Tailed ==
  ASSUME NEW S, NEW q \in Seq(S), q # <<>>
  PROVE  /\ Head(q) = q[1] /\ 1 \in DOMAIN q /\ Tail(q) \in Seq(S)
         /\ \A n \in DOMAIN Tail(q) : n + 1 \in DOMAIN q /\ Tail(q)[n] = q[n + 1]
  OBVIOUS

LEMMA Appended ==
  ASSUME NEW S, NEW q \in Seq(S), NEW e \in S, NEW n \in DOMAIN Append(q, e)
  PROVE  \/ n \in DOMAIN q /\ Append(q, e)[n] = q[n]
         \/ n = Len(q) + 1 /\ Append(q, e)[n] = e
  OBVIOUS

LEMMA PlacesAreNats ==
  ASSUME NEW s \in Store, NEW name
  PROVE  Places(s, name) \in SUBSET Nat
<1>1. Table[s] \in Seq(Row)
  BY CatalogAssumption
<1> QED
  BY <1>1 DEF Places

LEMMA EmptyList == <<>> \in Lists
<1>1. <<>> \in [1 .. 0 -> Name] /\ 0 \in 0 .. MaxItems
  BY ServerAssumption
<1> QED
  BY <1>1 DEF Lists

LEMMA InitRequestsOK == Init => RequestsOK
<1> SUFFICES ASSUME Init
             PROVE  RequestsOK
  OBVIOUS
<1>2. list \in [Requests -> [kind : Arrival, names : Lists]]
  BY EmptyList DEF Init, Unsent, Arrival
<1>3. \A r \in Requests : list[r].names = <<>> /\ found[r] = <<>>
  BY DEF Init, Unsent
<1>4. \A r \in Requests :
        found[r] \in [1 .. Len(list[r].names) -> [Store -> SUBSET Nat]]
  <2>1. <<>> \in [1 .. 0 -> [Store -> SUBSET Nat]] /\ Len(<<>>) = 0
    OBVIOUS
  <2> QED
    BY <1>3, <2>1
<1> QED
  BY <1>2, <1>3, <1>4 DEF Init, RequestsOK

-----------------------------------------------------------------------------

\* A request that has not arrived has no items, so no query or timer is its.
LEMMA NewRequest ==
  ASSUME RequestsOK, NEW r \in Requests, list[r].kind = "no"
  PROVE  /\ \A n \in DOMAIN dbq : dbq[n].req \in Requests \ {r}
         /\ \A n \in DOMAIN due : due[n][1] \in Requests \ {r}
<1>1. list[r].names = <<>>
  BY DEF RequestsOK
<1>2. ASSUME NEW n \in DOMAIN dbq
      PROVE  dbq[n].req \in Requests \ {r}
  <2>1. dbq[n] \in Query
    BY DEF RequestsOK
  <2>2. dbq[n].req \in Requests
    BY <2>1 DEF Query
  <2>3. dbq[n].item \in 1 .. Len(list[dbq[n].req].names)
    BY DEF RequestsOK
  <2> QED
    BY <1>1, <2>2, <2>3
<1>3. ASSUME NEW n \in DOMAIN due
      PROVE  due[n][1] \in Requests \ {r}
  <2>1. due[n] \in Requests \X Nat
    BY DEF RequestsOK
  <2>2. due[n][2] \in 1 .. Len(list[due[n][1]].names)
    BY DEF RequestsOK
  <2> QED
    BY <1>1, <2>1, <2>2
<1> QED
  BY <1>2, <1>3

\* The new queries: two per item, Safeway's before Walmart's.
LEMMA NewLookups ==
  ASSUME NEW r \in Requests, NEW names \in Lists
  PROVE  LET ls == Lookups(r, names) IN
         /\ ls \in Seq(Query)
         /\ \A n \in DOMAIN ls :
              /\ ls[n].req = r /\ ls[n].item \in 1 .. Len(names)
              /\ ls[n].kind = "lookup"
              /\ ls[n].store = "Walmart" =>
                   n - 1 \in DOMAIN ls /\ ls[n - 1] = LookupIn(r, ls[n].item, "Safeway")
<1> DEFINE ls == Lookups(r, names)
           N == Len(names)
<1>1. N \in Nat /\ N <= MaxItems /\ MaxItems \in Nat
  BY ListLength, ServerAssumption
<1>2. DOMAIN ls = 1 .. 2 * N
  BY DEF Lookups
<1>3. ASSUME NEW n \in 1 .. 2 * N
      PROVE  /\ ls[n] = LookupIn(r, (n + 1) \div 2,
                               IF n % 2 = 1 THEN "Safeway" ELSE "Walmart")
             /\ (n + 1) \div 2 \in 1 .. N
  BY <1>1 DEF Lookups
<1>4. ASSUME NEW n \in 1 .. 2 * N
      PROVE  ls[n] \in Query
  <2>1. ASSUME NEW k \in 1 .. N, NEW s \in Store
        PROVE  LookupIn(r, k, s) \in Query
    <3>1. k \in 1 .. MaxItems
      BY <1>1
    <3> QED
      BY <3>1 DEF LookupIn, Query
  <2>2. (IF n % 2 = 1 THEN "Safeway" ELSE "Walmart") \in Store
    BY DEF Store
  <2> HIDE DEF ls, N
  <2> QED
    BY <1>3, <2>1, <2>2
<1>5. ls \in Seq(Query)
  <2>1. ls = [n \in 1 .. 2 * N |-> ls[n]]
    BY DEF Lookups
  <2> HIDE DEF ls, N
  <2>2. ls \in [1 .. 2 * N -> Query]
    BY <1>4, <2>1
  <2>3. 2 * N \in Nat
    BY <1>1
  <2> QED
    BY <2>2, <2>3
<1>6. ASSUME NEW n \in 1 .. 2 * N
      PROVE  /\ ls[n].req = r /\ ls[n].item = (n + 1) \div 2
             /\ ls[n].kind = "lookup"
             /\ ls[n].store = IF n % 2 = 1 THEN "Safeway" ELSE "Walmart"
  <2>1. ASSUME NEW k, NEW s
        PROVE  /\ LookupIn(r, k, s).req = r /\ LookupIn(r, k, s).item = k
               /\ LookupIn(r, k, s).kind = "lookup" /\ LookupIn(r, k, s).store = s
    BY DEF LookupIn
  <2> HIDE DEF ls
  <2> QED
    BY <1>3, <2>1
<1>7. ASSUME NEW n \in 1 .. 2 * N, ls[n].store = "Walmart"
      PROVE  n - 1 \in 1 .. 2 * N /\ ls[n - 1] = LookupIn(r, ls[n].item, "Safeway")
  <2>1. n % 2 # 1
    BY <1>6, <1>7
  <2>2. n - 1 \in 1 .. 2 * N /\ (n - 1) % 2 = 1 /\ (n - 1 + 1) \div 2 = (n + 1) \div 2
    <3> HIDE DEF ls, N
    <3> QED
      BY <2>1, <1>1
  <2>3. ls[n - 1] = LookupIn(r, (n + 1) \div 2, "Safeway")
    BY <1>3, <2>2
  <2> QED
    BY <1>6, <2>2, <2>3
<1> QED
  BY <1>2, <1>3, <1>5, <1>6, <1>7

-----------------------------------------------------------------------------
(* RequestsOK is preserved.                                                *)

\* A request with its items, its queries and its timers.
LEMMA ArrivalOK ==
  ASSUME RequestsOK, NEW r \in Requests, list[r].kind = "no",
         NEW kind \in Arrival \ {"no"}, NEW names \in Lists,
         NEW qs \in Seq(Query), NEW ts \in Seq({r} \X (1 .. Len(names))),
         \A n \in DOMAIN qs : qs[n].req = r /\ qs[n].item \in 1 .. Len(names),
         list' = [list EXCEPT ![r] = [kind |-> kind, names |-> names]],
         found' = [found EXCEPT ![r] =
                     [k \in 1 .. Len(names) |-> [s \in Store |-> {}]]],
         dbq' = dbq \o qs, due' = due \o ts, up' = up, replyq' \in Seq(Requests)
  PROVE  RequestsOK'
<1>n. Len(names) \in Nat /\ dbq \in Seq(Query) /\ due \in Seq(Requests \X Nat)
  BY ListLength DEF RequestsOK
<1>l. list'[r] = [kind |-> kind, names |-> names]
      /\ \A t \in Requests \ {r} : list'[t] = list[t] /\ found'[t] = found[t]
  BY DEF RequestsOK
<1>1. list' \in [Requests -> [kind : Arrival, names : Lists]]
  <2>1. [kind |-> kind, names |-> names] \in [kind : Arrival, names : Lists]
    OBVIOUS
  <2> QED
    BY <2>1 DEF RequestsOK
<1>2. ASSUME NEW t \in Requests, list'[t].kind = "no"
      PROVE  list'[t].names = <<>>
  BY <1>2, <1>l DEF RequestsOK
<1>3. DOMAIN found' = Requests
  BY DEF RequestsOK
<1>4. ASSUME NEW t \in Requests
      PROVE  found'[t] \in [1 .. Len(list'[t].names) -> [Store -> SUBSET Nat]]
  <2>1. CASE t = r
    <3>1. found'[r] = [k \in 1 .. Len(names) |-> [s \in Store |-> {}]]
      BY DEF RequestsOK
    <3>2. list'[r].names = names
      BY <1>l
    <3>3. [s \in Store |-> {}] \in [Store -> SUBSET Nat]
      OBVIOUS
    <3> QED
      BY <2>1, <3>1, <3>2, <3>3
  <2>2. CASE t # r
    BY <2>2, <1>l DEF RequestsOK
  <2> QED
    BY <2>1, <2>2
<1>5. dbq' \in Seq(Query)
  BY <1>n
<1>6. ASSUME NEW n \in DOMAIN dbq'
      PROVE  dbq'[n].item \in 1 .. Len(list'[dbq'[n].req].names)
  <2>1. CASE n \in DOMAIN dbq
    <3>1. dbq'[n] = dbq[n]
      BY <1>n, <2>1
    <3>2. list'[dbq[n].req] = list[dbq[n].req]
      BY <2>1, <1>l, NewRequest
    <3> QED
      BY <2>1, <3>1, <3>2 DEF RequestsOK
  <2>2. CASE n \notin DOMAIN dbq
    <3>1. PICK m \in DOMAIN qs : dbq'[n] = qs[m]
      BY <1>n, <2>2, Concatenated
    <3> QED
      BY <3>1, <1>l
  <2> QED
    BY <2>1, <2>2
<1>t. ts \in Seq(Requests \X Nat)
  BY <1>n
<1>7. due' \in Seq(Requests \X Nat)
  BY <1>n, <1>t
<1>8. ASSUME NEW n \in DOMAIN due'
      PROVE  due'[n][2] \in 1 .. Len(list'[due'[n][1]].names)
  <2>1. CASE n \in DOMAIN due
    <3>1. due'[n] = due[n]
      BY <1>n, <2>1
    <3>2. list'[due[n][1]] = list[due[n][1]]
      BY <2>1, <1>l, NewRequest
    <3> QED
      BY <2>1, <3>1, <3>2 DEF RequestsOK
  <2>2. CASE n \notin DOMAIN due
    <3>1. PICK m \in DOMAIN ts : due'[n] = ts[m]
      BY <1>n, <1>t, <2>2, Concatenated
    <3>2. ts[m] \in {r} \X (1 .. Len(names))
      BY <1>n
    <3> QED
      BY <3>1, <3>2, <1>l
  <2> QED
    BY <2>1, <2>2
<1> QED
  BY <1>1, <1>2, <1>3, <1>4, <1>5, <1>6, <1>7, <1>8 DEF RequestsOK

LEMMA ArriveCompareOK ==
  ASSUME RequestsOK, NEW r \in Requests, NEW names \in Lists, ArriveCompare(r, names)
  PROVE  RequestsOK'
<1> DEFINE qs == Lookups(r, names)
           ts == Deadlines(r, names)
<1>1. /\ qs \in Seq(Query)
      /\ \A n \in DOMAIN qs : qs[n].req = r /\ qs[n].item \in 1 .. Len(names)
  BY NewLookups
<1>2. ts \in Seq({r} \X (1 .. Len(names)))
  BY ListLength DEF Deadlines
<1>3. replyq' \in Seq(Requests)
  BY DEF ArriveCompare, RequestsOK
<1>4. "compare" \in Arrival \ {"no"}
  BY DEF Arrival
<1> HIDE DEF qs, ts
<1>5. /\ list[r].kind = "no"
      /\ list' = [list EXCEPT ![r] = [kind |-> "compare", names |-> names]]
      /\ found' = [found EXCEPT ![r] = [k \in 1 .. Len(names) |-> [s \in Store |-> {}]]]
      /\ dbq' = dbq \o qs /\ due' = due \o ts /\ up' = up
  BY DEF ArriveCompare, qs, ts
<1> QED
  BY <1>1, <1>2, <1>3, <1>4, <1>5, ArrivalOK

LEMMA ArriveSearchOK ==
  ASSUME RequestsOK, NEW r \in Requests, NEW name \in Name \cup {NoItem},
         ArriveSearch(r, name)
  PROVE  RequestsOK'
<1> DEFINE names == IF name = NoItem THEN <<>> ELSE <<name>>
           q == [req |-> r, item |-> 1, kind |-> "search", store |-> "both"]
           qs == IF Searchable(name) THEN <<q>> ELSE <<>>
           ts == <<>>
<1>1. names \in Lists
  <2>2. CASE name # NoItem
    <3>1. <<name>> \in [1 .. 1 -> Name] /\ 1 \in 0 .. MaxItems
      BY <2>2, ServerAssumption
    <3> QED
      BY <2>2, <3>1 DEF Lists
  <2> QED
    BY <2>2, EmptyList
<1>2. q \in Query
  BY DEF Query
<1>3. /\ qs \in Seq(Query)
      /\ \A n \in DOMAIN qs : qs[n].req = r /\ qs[n].item \in 1 .. Len(names)
  BY <1>2 DEF Searchable
<1>4. ts \in Seq({r} \X (1 .. Len(names))) /\ replyq' \in Seq(Requests)
  BY DEF ArriveSearch, RequestsOK
<1>5. "search" \in Arrival \ {"no"}
  BY DEF Arrival
<1>6. dbq \in Seq(Query) /\ due \in Seq(Requests \X Nat)
  BY DEF RequestsOK
<1>7. dbq' = dbq \o qs /\ due' = due \o ts
  BY <1>2, <1>6 DEF ArriveSearch
<1>8. /\ list[r].kind = "no" /\ up' = up
      /\ list' = [list EXCEPT ![r] = [kind |-> "search", names |-> names]]
      /\ found' = [found EXCEPT ![r] = [k \in 1 .. Len(names) |-> [s \in Store |-> {}]]]
  BY DEF ArriveSearch
<1> HIDE DEF names, qs, ts
<1> QED
  BY <1>1, <1>3, <1>4, <1>5, <1>7, <1>8, ArrivalOK

LEMMA CrashOK ==
  ASSUME RequestsOK, Crash
  PROVE  RequestsOK'
<1>1. up' \in BOOLEAN
  BY Zenon DEF Crash
<1>2. dbq' = <<>> /\ due' = <<>> /\ replyq' = <<>> /\ list' = list /\ found' = found
  BY DEF Crash
<1> QED
  BY <1>1, <1>2 DEF RequestsOK

LEMMA TailOK ==
  ASSUME RequestsOK, dbq # <<>>, dbq' = Tail(dbq), UNCHANGED <<up, list, due, replyq>>,
         DOMAIN found' = Requests,
         \A r \in Requests :
           found'[r] \in [1 .. Len(list[r].names) -> [Store -> SUBSET Nat]]
  PROVE  RequestsOK'
<1>1. dbq \in Seq(Query)
  BY DEF RequestsOK
<1>2. dbq' \in Seq(Query)
      /\ \A n \in DOMAIN dbq' : n + 1 \in DOMAIN dbq /\ dbq'[n] = dbq[n + 1]
  BY <1>1, Tailed
<1>3. \A n \in DOMAIN dbq' : dbq'[n].item \in 1 .. Len(list'[dbq'[n].req].names)
  BY <1>2 DEF RequestsOK
<1> QED
  BY <1>2, <1>3 DEF RequestsOK

\* The query that is answered is that of an item of a request.
LEMMA HeadIsQuery ==
  ASSUME RequestsOK, dbq # <<>>
  PROVE  /\ Head(dbq) \in Query /\ Head(dbq).req \in Requests
         /\ Head(dbq).item \in 1 .. Len(list[Head(dbq).req].names)
<1>1. Head(dbq) = dbq[1] /\ 1 \in DOMAIN dbq /\ Head(dbq) \in Query
  BY Tailed DEF RequestsOK
<1> QED
  BY <1>1 DEF RequestsOK, Query

LEMMA LookupAnsweredOK ==
  ASSUME RequestsOK, LookupAnswered
  PROVE  RequestsOK'
<1> DEFINE q == Head(dbq)
           places == Places(q.store, Asked(q))
<1>1. /\ dbq # <<>> /\ dbq' = Tail(dbq) /\ q.kind = "lookup"
      /\ UNCHANGED <<up, list, due, replyq>>
      /\ found' = [found EXCEPT ![q.req][q.item][q.store] = places]
  BY DEF LookupAnswered, Answered
<1>2. q.req \in Requests /\ q.item \in 1 .. Len(list[q.req].names) /\ q.store \in Store
  BY <1>1, HeadIsQuery DEF Query
<1>3. places \in SUBSET Nat
  BY <1>2, PlacesAreNats
<1> HIDE DEF q, places
<1>4. DOMAIN found' = Requests
  BY <1>1 DEF RequestsOK
<1>5. ASSUME NEW r \in Requests
      PROVE  found'[r] \in [1 .. Len(list[r].names) -> [Store -> SUBSET Nat]]
  <2>1. found[r] \in [1 .. Len(list[r].names) -> [Store -> SUBSET Nat]]
    BY DEF RequestsOK
  <2>2. CASE r = q.req
    <3>1. found'[r] = [found[r] EXCEPT ![q.item][q.store] = places]
      BY <1>1, <1>2, <2>2 DEF RequestsOK
    <3>2. [found[r][q.item] EXCEPT ![q.store] = places] \in [Store -> SUBSET Nat]
      BY <1>2, <1>3, <2>1, <2>2
    <3> QED
      BY <1>2, <2>1, <2>2, <3>1, <3>2
  <2>3. CASE r # q.req
    BY <1>1, <2>1, <2>3 DEF RequestsOK
  <2> QED
    BY <2>2, <2>3
<1> QED
  BY <1>1, <1>4, <1>5, TailOK

LEMMA SimilarAnsweredOK ==
  ASSUME RequestsOK, SimilarAnswered \/ SearchAnswered
  PROVE  RequestsOK'
<1>1. dbq # <<>> /\ dbq' = Tail(dbq) /\ UNCHANGED <<up, list, found, due, replyq>>
  BY DEF SimilarAnswered, SearchAnswered, Answered
<1> QED
  BY <1>1, TailOK DEF RequestsOK

\* What the timer of an item asks the database.
LEMMA DeadlineAsks ==
  ASSUME RequestsOK, Deadline
  PROVE  \/ dbq' = dbq
         \/ \E r \in Requests, k \in Nat, s \in Store :
              /\ k \in 1 .. Len(list[r].names)
              /\ found[r][k][s] # {} /\ found[r][k][Other(s)] = {}
              /\ [req |-> r, item |-> k, kind |-> "similar", store |-> Other(s)] \in Query
              /\ dbq' = Append(dbq, [req |-> r, item |-> k, kind |-> "similar",
                                    store |-> Other(s)])
<1> DEFINE r == Head(due)[1]
           k == Head(due)[2]
<1>1. r \in Requests /\ k \in Nat /\ k \in 1 .. Len(list[r].names)
  <2>1. due # <<>> /\ due \in Seq(Requests \X Nat)
    BY DEF Deadline, RequestsOK
  <2>2. Head(due) = due[1] /\ 1 \in DOMAIN due /\ Head(due) \in Requests \X Nat
    BY <2>1, Tailed
  <2> QED
    BY <2>2 DEF RequestsOK
<1>2. InBoth(r, k) \/ (\E s \in Store : InOne(r, k, s)) \/ InNeither(r, k)
  BY DEF Deadline
<1> HIDE DEF r, k
<1>3. CASE InBoth(r, k) \/ InNeither(r, k)
  BY <1>3 DEF InBoth, InNeither
<1>4. ASSUME NEW s \in Store, InOne(r, k, s)
      PROVE  /\ found[r][k][s] # {} /\ found[r][k][Other(s)] = {}
             /\ [req |-> r, item |-> k, kind |-> "similar", store |-> Other(s)] \in Query
             /\ dbq' = Append(dbq, [req |-> r, item |-> k, kind |-> "similar",
                                   store |-> Other(s)])
  <2>1. Other(s) \in Store
    BY DEF Other, Store
  <2>2. k \in 1 .. MaxItems
    <3>1. list[r].names \in Lists
      BY <1>1 DEF RequestsOK
    <3> QED
      BY <1>1, <3>1, ListLength, ServerAssumption
  <2>3. [req |-> r, item |-> k, kind |-> "similar", store |-> Other(s)] \in Query
    BY <1>1, <2>1, <2>2 DEF Query
  <2> QED
    BY <1>4, <2>3 DEF InOne, IsIn
<1> QED
  BY <1>1, <1>2, <1>3, <1>4

LEMMA DeadlineOK ==
  ASSUME RequestsOK, Deadline
  PROVE  RequestsOK'
<1>1. /\ due # <<>> /\ due' = Tail(due) /\ UNCHANGED <<up, list, found, replyq>>
      /\ dbq \in Seq(Query) /\ due \in Seq(Requests \X Nat)
  BY DEF Deadline, RequestsOK
<1>2. /\ due' \in Seq(Requests \X Nat)
      /\ \A n \in DOMAIN due' : n + 1 \in DOMAIN due /\ due'[n] = due[n + 1]
  BY <1>1, Tailed
<1>3. \A n \in DOMAIN due' : due'[n][2] \in 1 .. Len(list'[due'[n][1]].names)
  BY <1>1, <1>2 DEF RequestsOK
<1>4. /\ dbq' \in Seq(Query)
      /\ \A n \in DOMAIN dbq' : dbq'[n].item \in 1 .. Len(list'[dbq'[n].req].names)
  <2>1. CASE dbq' = dbq
    BY <1>1, <2>1 DEF RequestsOK
  <2>2. CASE dbq' # dbq
    <3>1. PICK r \in Requests, k \in Nat, s \in Store :
            /\ k \in 1 .. Len(list[r].names)
            /\ [req |-> r, item |-> k, kind |-> "similar", store |-> Other(s)] \in Query
            /\ dbq' = Append(dbq, [req |-> r, item |-> k, kind |-> "similar",
                                  store |-> Other(s)])
      BY <2>2, DeadlineAsks
    <3> DEFINE q == [req |-> r, item |-> k, kind |-> "similar", store |-> Other(s)]
    <3>2. q \in Query /\ q.req = r /\ q.item = k /\ dbq' = Append(dbq, q)
      BY <3>1
    <3> HIDE DEF q
    <3>3. dbq' \in Seq(Query)
      BY <1>1, <3>2
    <3>4. ASSUME NEW n \in DOMAIN dbq'
          PROVE  dbq'[n].item \in 1 .. Len(list'[dbq'[n].req].names)
      BY <1>1, <3>1, <3>2, Appended DEF RequestsOK
    <3> QED
      BY <3>3, <3>4
  <2> QED
    BY <2>1, <2>2
<1> QED
  BY <1>1, <1>2, <1>3, <1>4 DEF RequestsOK

LEMMA RespondOK ==
  ASSUME RequestsOK, Respond
  PROVE  RequestsOK'
<1>1. replyq # <<>> /\ replyq' = Tail(replyq) /\ UNCHANGED <<up, list, found, dbq, due>>
  BY DEF Respond, Expired
<1>2. replyq' \in Seq(Requests)
  BY <1>1, Tailed DEF RequestsOK
<1> QED
  BY <1>1, <1>2 DEF RequestsOK

LEMMA StepRequestsOK ==
  ASSUME RequestsOK, [Next]_vars
  PROVE  RequestsOK'
<1>1. CASE Arrive
  BY <1>1, PostedLists, ArriveCompareOK, ArriveSearchOK DEF Arrive
<1>2. CASE Database
  BY <1>2, CrashOK, LookupAnsweredOK, SimilarAnsweredOK DEF Database, QueryRefused
<1>3. CASE ConnectionLost
  BY <1>3, CrashOK DEF ConnectionLost
<1>4. CASE UNCHANGED vars
  BY <1>4 DEF vars, RequestsOK
<1> QED
  BY <1>1, <1>2, <1>3, <1>4, DeadlineOK, RespondOK DEF Next

-----------------------------------------------------------------------------
(* The order of the lookups.                                               *)

IInv == RequestsOK /\ LookupsInOrder /\ NoFalseSubstitute

LEMMA InitIInv == Init => IInv
<1> SUFFICES ASSUME Init
             PROVE  LookupsInOrder /\ NoFalseSubstitute
  BY InitRequestsOK DEF IInv
<1>1. dbq = <<>> /\ \A r \in Requests : found[r] = <<>>
  BY DEF Init
<1> QED
  BY <1>1 DEF LookupsInOrder, NoFalseSubstitute

\* Which request and item a query is about.
LEMMA QueryOf ==
  ASSUME RequestsOK, NEW n \in DOMAIN dbq
  PROVE  /\ dbq[n].req \in Requests
         /\ dbq[n].item \in 1 .. Len(list[dbq[n].req].names)
         /\ dbq[n].item \in DOMAIN found[dbq[n].req]
<1>1. dbq[n] \in Query
  BY DEF RequestsOK
<1>2. dbq[n].req \in Requests
  BY <1>1 DEF Query
<1>3. dbq[n].item \in 1 .. Len(list[dbq[n].req].names)
  BY DEF RequestsOK
<1> QED
  BY <1>2, <1>3 DEF RequestsOK

\* A request arrives: its queries follow all others, each of Walmart's the one
\* of Safeway for the same item.
LEMMA ArrivalInOrder ==
  ASSUME IInv, NEW r \in Requests, list[r].kind = "no", NEW names \in Lists,
         NEW qs \in Seq(Query), NEW entry,
         \A n \in DOMAIN qs :
           /\ qs[n].kind # "similar"
           /\ qs[n].kind = "lookup" /\ qs[n].store = "Walmart" =>
                n - 1 \in DOMAIN qs
                /\ qs[n - 1] = LookupIn(qs[n].req, qs[n].item, "Safeway"),
         list' = [list EXCEPT ![r] = entry],
         found' = [found EXCEPT ![r] =
                     [k \in 1 .. Len(names) |-> [s \in Store |-> {}]]],
         dbq' = dbq \o qs
  PROVE  LookupsInOrder' /\ NoFalseSubstitute'
<1>t. RequestsOK /\ dbq \in Seq(Query) /\ Len(dbq) \in Nat
  BY DEF IInv, RequestsOK
<1>l. \A t \in Requests \ {r} : list'[t] = list[t] /\ found'[t] = found[t]
  BY <1>t DEF RequestsOK
<1>o. ASSUME NEW n \in DOMAIN dbq
      PROVE  /\ dbq'[n] = dbq[n]
             /\ list'[dbq[n].req] = list[dbq[n].req]
             /\ found'[dbq[n].req] = found[dbq[n].req]
  <2>1. dbq[n].req \in Requests \ {r}
    BY <1>t, NewRequest
  <2>2. dbq'[n] = dbq[n]
    BY <1>t
  <2> QED
    BY <2>1, <2>2, <1>l
<1>1. ASSUME NEW n \in DOMAIN dbq', dbq'[n].kind = "lookup", dbq'[n].store = "Walmart"
      PROVE  \/ SafewayAnswered(dbq[n].req, dbq[n].item)' /\ dbq'[n] = dbq[n]
             \/ \E m \in 1 .. n - 1 :
                  dbq'[m] = LookupIn(dbq'[n].req, dbq'[n].item, "Safeway")
  <2>1. CASE n \in DOMAIN dbq
    <3>1. CASE SafewayAnswered(dbq[n].req, dbq[n].item)
      BY <2>1, <3>1, <1>o DEF SafewayAnswered
    <3>2. CASE \E m \in 1 .. n - 1 : dbq[m] = LookupIn(dbq[n].req, dbq[n].item, "Safeway")
      <4>1. PICK m \in 1 .. n - 1 : dbq[m] = LookupIn(dbq[n].req, dbq[n].item, "Safeway")
        BY <3>2
      <4>2. m \in DOMAIN dbq
        BY <1>t, <2>1
      <4> QED
        BY <2>1, <4>1, <4>2, <1>o
    <3> QED
      BY <2>1, <3>1, <3>2, <1>1, <1>o DEF IInv, LookupsInOrder
  <2>2. CASE n \notin DOMAIN dbq
    <3> DEFINE j == n - Len(dbq)
    <3>1. j \in DOMAIN qs /\ dbq'[n] = qs[j]
      BY <1>t, <2>2, Concatenated
    <3>2. j - 1 \in DOMAIN qs /\ qs[j - 1] = LookupIn(qs[j].req, qs[j].item, "Safeway")
      BY <1>1, <3>1
    <3>3. n - 1 \in 1 .. n - 1 /\ dbq'[n - 1] = qs[j - 1]
      BY <1>t, <3>1, <3>2
    <3> QED
      BY <3>1, <3>2, <3>3
  <2> QED
    BY <2>1, <2>2
<1>2. ASSUME NEW t \in Requests, NEW k \in DOMAIN found'[t], found'[t][k]["Walmart"] # {}
      PROVE  SafewayAnswered(t, k)'
  <2>1. t # r
    <3>1. ASSUME t = r
          PROVE  found'[t][k]["Walmart"] = {}
      BY <3>1, <1>t DEF RequestsOK, Store
    <3> QED
      BY <1>2, <3>1
  <2> QED
    BY <2>1, <1>l, <1>2 DEF IInv, LookupsInOrder, SafewayAnswered
<1>3. ASSUME NEW n \in DOMAIN dbq', dbq'[n].kind = "similar", dbq'[n].store = "Safeway"
      PROVE  ~ Sells("Safeway", Asked(dbq[n])')
  <2>1. n \in DOMAIN dbq
    BY <1>3, <1>t, Concatenated
  <2>2. dbq'[n] = dbq[n] /\ Asked(dbq[n])' = Asked(dbq[n])
    BY <2>1, <1>o DEF Asked
  <2> QED
    BY <2>1, <2>2, <1>3 DEF IInv, NoFalseSubstitute
<1>4. LookupsInOrder'
  <2>1. ASSUME NEW n \in DOMAIN dbq', dbq'[n].kind = "lookup", dbq'[n].store = "Walmart"
        PROVE  \/ SafewayAnswered(dbq[n].req, dbq[n].item)'
               \/ \E m \in 1 .. n - 1 :
                    dbq'[m] = LookupIn(dbq'[n].req, dbq'[n].item, "Safeway")
    BY <1>1, <2>1
  <2> QED
    BY <1>2, <2>1 DEF LookupsInOrder
<1>5. NoFalseSubstitute'
  BY <1>3 DEF NoFalseSubstitute
<1> QED
  BY <1>4, <1>5

\* An answer: the head of the queue is gone, and if it was Safeway's lookup it
\* has been recorded.
LEMMA AnswerInOrder ==
  ASSUME IInv, dbq # <<>>, dbq' = Tail(dbq), list' = list,
         \A r \in Requests : \A k \in 1 .. Len(list[r].names) :
           /\ SafewayAnswered(r, k) \/ dbq[1] = LookupIn(r, k, "Safeway")
                => SafewayAnswered(r, k)'
           /\ found'[r][k]["Walmart"] # {} => SafewayAnswered(r, k)',
         \A r \in Requests : DOMAIN found'[r] = 1 .. Len(list[r].names)
  PROVE  LookupsInOrder' /\ NoFalseSubstitute'
<1>t. RequestsOK /\ dbq \in Seq(Query) /\ Len(dbq) \in Nat
  BY DEF IInv, RequestsOK
<1>1. \A n \in DOMAIN dbq' : n + 1 \in DOMAIN dbq /\ dbq'[n] = dbq[n + 1]
  BY <1>t, Tailed
<1>2. ASSUME NEW n \in DOMAIN dbq', dbq'[n].kind = "lookup", dbq'[n].store = "Walmart"
      PROVE  \/ SafewayAnswered(dbq[n].req, dbq[n].item)'
             \/ \E m \in 1 .. n - 1 :
                  dbq'[m] = LookupIn(dbq'[n].req, dbq'[n].item, "Safeway")
  <2> DEFINE q == dbq[n + 1]
  <2>1. dbq'[n] = q /\ n + 1 \in DOMAIN dbq
    BY <1>1
  <2>2. q.req \in Requests /\ q.item \in 1 .. Len(list[q.req].names)
    BY <1>t, <2>1, QueryOf
  <2>3. PICK r \in Requests, k \in 1 .. Len(list[q.req].names) : r = q.req /\ k = q.item
    BY <2>2
  <2>4. SafewayAnswered(r, k) \/ \E m \in 1 .. n : dbq[m] = LookupIn(r, k, "Safeway")
    <3>1. n + 1 - 1 = n
      BY <1>t, <2>1
    <3> QED
      BY <1>2, <2>1, <2>3, <3>1 DEF IInv, LookupsInOrder
  <2>5. CASE SafewayAnswered(r, k) \/ dbq[1] = LookupIn(r, k, "Safeway")
    <3>1. SafewayAnswered(r, k)'
      BY <2>3, <2>5
    <3> QED
      BY <2>1, <2>3, <3>1 DEF SafewayAnswered
  <2>6. ASSUME NEW m \in 2 .. n, dbq[m] = LookupIn(r, k, "Safeway")
        PROVE  m - 1 \in 1 .. n - 1 /\ dbq'[m - 1] = LookupIn(r, k, "Safeway")
    <3>1. m - 1 \in DOMAIN dbq'
      BY <1>t, <2>1, <2>6
    <3> QED
      BY <1>1, <1>t, <2>1, <2>6, <3>1
  <2>7. \A m \in 1 .. n : m = 1 \/ m \in 2 .. n
    BY <1>t
  <2> QED
    BY <2>1, <2>3, <2>4, <2>5, <2>6, <2>7
<1>3. ASSUME NEW n \in DOMAIN dbq', dbq'[n].kind = "similar", dbq'[n].store = "Safeway"
      PROVE  ~ Sells("Safeway", Asked(dbq[n])')
  <2>1. dbq'[n] = dbq[n + 1] /\ n + 1 \in DOMAIN dbq
    BY <1>1
  <2>2. Asked(dbq[n])' = Asked(dbq[n + 1])
    BY <2>1 DEF Asked
  <2> QED
    BY <2>1, <2>2, <1>3 DEF IInv, NoFalseSubstitute
<1>4. LookupsInOrder'
  BY <1>2 DEF LookupsInOrder
<1>5. NoFalseSubstitute'
  BY <1>3 DEF NoFalseSubstitute
<1> QED
  BY <1>4, <1>5

LEMMA LookupAnsweredInOrder ==
  ASSUME IInv, LookupAnswered
  PROVE  LookupsInOrder' /\ NoFalseSubstitute'
<1> DEFINE q == Head(dbq)
<1>t. RequestsOK /\ dbq \in Seq(Query)
  BY DEF IInv, RequestsOK
<1>1. /\ dbq # <<>> /\ dbq' = Tail(dbq) /\ q.kind = "lookup" /\ list' = list
      /\ found' = [found EXCEPT ![q.req][q.item][q.store] =
                     Places(q.store, list[q.req].names[q.item])]
  BY DEF LookupAnswered, Answered, Asked
<1>2. /\ q = dbq[1] /\ 1 \in DOMAIN dbq
      /\ q.req \in Requests /\ q.item \in 1 .. Len(list[q.req].names)
      /\ q.store \in Store
  BY <1>1, <1>t, Tailed, HeadIsQuery DEF Query
<1> HIDE DEF q
<1>3. ASSUME NEW r \in Requests, NEW k \in 1 .. Len(list[r].names), NEW s \in Store
      PROVE  found'[r][k][s] = IF r = q.req /\ k = q.item /\ s = q.store
                                 THEN Places(s, list[r].names[k])
                                 ELSE found[r][k][s]
  <2>1. found[r] \in [1 .. Len(list[r].names) -> [Store -> SUBSET Nat]]
    BY <1>t DEF RequestsOK
  <2>2. CASE r = q.req
    <3>1. found'[r] = [found[r] EXCEPT ![q.item][q.store] =
                         Places(q.store, list[q.req].names[q.item])]
      BY <1>1, <1>2, <1>t, <2>2 DEF RequestsOK
    <3> QED
      BY <2>1, <2>2, <3>1
  <2>3. CASE r # q.req
    BY <1>1, <1>t, <2>3 DEF RequestsOK
  <2> QED
    BY <2>2, <2>3
<1>4. "Safeway" \in Store /\ "Walmart" \in Store
  BY DEF Store
<1>5. ASSUME NEW r \in Requests, NEW k \in 1 .. Len(list[r].names),
             SafewayAnswered(r, k) \/ dbq[1] = LookupIn(r, k, "Safeway")
      PROVE  SafewayAnswered(r, k)'
  <2>1. LookupIn(r, k, "Safeway").req = r /\ LookupIn(r, k, "Safeway").item = k
        /\ LookupIn(r, k, "Safeway").store = "Safeway"
    BY DEF LookupIn
  <2>2. found'[r][k]["Safeway"] = Places("Safeway", list[r].names[k])
    BY <1>2, <1>3, <1>4, <1>5, <2>1 DEF SafewayAnswered
  <2> QED
    BY <1>1, <2>2 DEF SafewayAnswered
<1>6. ASSUME NEW r \in Requests, NEW k \in 1 .. Len(list[r].names),
             found'[r][k]["Walmart"] # {}
      PROVE  SafewayAnswered(r, k)'
  <2>1. CASE found[r][k]["Walmart"] # {}
    <3>1. k \in DOMAIN found[r]
      BY <1>t DEF RequestsOK
    <3> QED
      BY <1>5, <2>1, <3>1 DEF IInv, LookupsInOrder
  <2>2. CASE r = q.req /\ k = q.item /\ q.store = "Walmart"
    <3>1. SafewayAnswered(dbq[1].req, dbq[1].item)
      BY <1>1, <1>2, <2>2 DEF IInv, LookupsInOrder
    <3> QED
      BY <1>2, <1>5, <2>2, <3>1
  <2> QED
    BY <1>3, <1>4, <1>6, <2>1, <2>2
<1>7. \A r \in Requests : DOMAIN found'[r] = 1 .. Len(list[r].names)
  BY <1>t, <1>1, LookupAnsweredOK DEF RequestsOK
<1> QED
  BY <1>1, <1>5, <1>6, <1>7, AnswerInOrder

LEMMA OtherAnsweredInOrder ==
  ASSUME IInv, SimilarAnswered \/ SearchAnswered
  PROVE  LookupsInOrder' /\ NoFalseSubstitute'
<1>t. RequestsOK /\ dbq \in Seq(Query)
  BY DEF IInv, RequestsOK
<1>1. /\ dbq # <<>> /\ dbq' = Tail(dbq) /\ list' = list /\ found' = found
      /\ Head(dbq).kind \in {"similar", "search"}
  BY DEF SimilarAnswered, SearchAnswered, Answered
<1>2. \A r, k : dbq[1] # LookupIn(r, k, "Safeway")
  <2>1. \A r, k : LookupIn(r, k, "Safeway").kind = "lookup"
    BY DEF LookupIn
  <2>2. dbq[1].kind \in {"similar", "search"}
    BY <1>1, <1>t, Tailed
  <2> QED
    BY <2>1, <2>2
<1>3. \A r \in Requests : DOMAIN found[r] = 1 .. Len(list[r].names)
  BY <1>t DEF RequestsOK
<1>4. ASSUME NEW r \in Requests, NEW k \in 1 .. Len(list[r].names)
      PROVE  /\ SafewayAnswered(r, k)' <=> SafewayAnswered(r, k)
             /\ found[r][k]["Walmart"] # {} => SafewayAnswered(r, k)
  BY <1>1, <1>3 DEF IInv, LookupsInOrder, SafewayAnswered
<1> QED
  BY <1>1, <1>2, <1>3, <1>4, AnswerInOrder

LEMMA DeadlineInOrder ==
  ASSUME IInv, Deadline
  PROVE  LookupsInOrder' /\ NoFalseSubstitute'
<1>t. RequestsOK /\ dbq \in Seq(Query) /\ Len(dbq) \in Nat
  BY DEF IInv, RequestsOK
<1>u. list' = list /\ found' = found
  BY DEF Deadline
<1>1. CASE dbq' = dbq
  BY <1>1, <1>u
     DEF IInv, LookupsInOrder, NoFalseSubstitute, SafewayAnswered, Asked
<1>2. CASE dbq' # dbq
  <2>1. PICK r \in Requests, k \in Nat, s \in Store :
          /\ k \in 1 .. Len(list[r].names)
          /\ found[r][k][s] # {} /\ found[r][k][Other(s)] = {}
          /\ [req |-> r, item |-> k, kind |-> "similar", store |-> Other(s)] \in Query
          /\ dbq' = Append(dbq, [req |-> r, item |-> k, kind |-> "similar",
                                store |-> Other(s)])
    BY <1>2, <1>t, DeadlineAsks
  <2> DEFINE q == [req |-> r, item |-> k, kind |-> "similar", store |-> Other(s)]
  <2>2. /\ q \in Query /\ dbq' = Append(dbq, q)
        /\ q.req = r /\ q.item = k /\ q.kind = "similar" /\ q.store = Other(s)
    BY <2>1
  <2>3. q.store = "Safeway" => ~ Sells("Safeway", list[r].names[k])
    <3> SUFFICES ASSUME q.store = "Safeway"
                 PROVE  ~ Sells("Safeway", list[r].names[k])
      OBVIOUS
    <3>1. s = "Walmart" /\ Other(s) = "Safeway"
      BY <2>2 DEF Other, Store
    <3>2. k \in DOMAIN found[r]
      BY <1>t, <2>1 DEF RequestsOK
    <3>3. SafewayAnswered(r, k)
      BY <2>1, <3>1, <3>2 DEF IInv, LookupsInOrder
    <3> QED
      BY <2>1, <3>1, <3>3 DEF SafewayAnswered, Sells
  <2> HIDE DEF q
  <2>4. ASSUME NEW n \in DOMAIN dbq'
        PROVE  \/ n \in DOMAIN dbq /\ dbq'[n] = dbq[n]
               \/ n = Len(dbq) + 1 /\ dbq'[n] = q
    BY <2>2, <1>t, Appended
  <2>5. \A n \in DOMAIN dbq : n \in DOMAIN dbq' /\ dbq'[n] = dbq[n]
    BY <2>2, <1>t
  <2>6. ASSUME NEW n \in DOMAIN dbq', dbq'[n].kind = "lookup", dbq'[n].store = "Walmart"
        PROVE  \/ SafewayAnswered(dbq[n].req, dbq[n].item)'
               \/ \E m \in 1 .. n - 1 :
                    dbq'[m] = LookupIn(dbq'[n].req, dbq'[n].item, "Safeway")
    <3>1. n \in DOMAIN dbq /\ dbq'[n] = dbq[n]
      BY <2>2, <2>4, <2>6
    <3>2. CASE SafewayAnswered(dbq[n].req, dbq[n].item)
      BY <1>u, <3>1, <3>2 DEF SafewayAnswered
    <3>3. ASSUME NEW m \in 1 .. n - 1, dbq[m] = LookupIn(dbq[n].req, dbq[n].item, "Safeway")
          PROVE  dbq'[m] = LookupIn(dbq'[n].req, dbq'[n].item, "Safeway")
      <4>1. m \in DOMAIN dbq
        BY <1>t, <3>1
      <4> QED
        BY <2>5, <3>1, <3>3, <4>1
    <3> QED
      BY <2>6, <3>1, <3>2, <3>3 DEF IInv, LookupsInOrder
  <2>7. ASSUME NEW n \in DOMAIN dbq', dbq'[n].kind = "similar", dbq'[n].store = "Safeway"
        PROVE  ~ Sells("Safeway", Asked(dbq[n])')
    <3>1. CASE n \in DOMAIN dbq /\ dbq'[n] = dbq[n]
      <4>1. Asked(dbq[n])' = Asked(dbq[n])
        BY <3>1, <1>u DEF Asked
      <4> QED
        BY <2>7, <3>1, <4>1 DEF IInv, NoFalseSubstitute
    <3>2. CASE dbq'[n] = q
      <4>1. Asked(dbq[n])' = list[r].names[k]
        BY <3>2, <2>2, <1>u DEF Asked
      <4> QED
        BY <2>7, <3>2, <4>1, <2>3
    <3> QED
      BY <2>4, <3>1, <3>2
  <2>8. \A t \in Requests : \A j \in DOMAIN found'[t] :
          found'[t][j]["Walmart"] # {} => SafewayAnswered(t, j)'
    BY <1>u DEF IInv, LookupsInOrder, SafewayAnswered
  <2>9. LookupsInOrder'
    BY <2>6, <2>8 DEF LookupsInOrder
  <2> QED
    BY <2>7, <2>9 DEF NoFalseSubstitute
<1> QED
  BY <1>1, <1>2

LEMMA ArriveInOrder ==
  ASSUME IInv, Arrive
  PROVE  LookupsInOrder' /\ NoFalseSubstitute'
<1>t. RequestsOK /\ dbq \in Seq(Query)
  BY DEF IInv, RequestsOK
<1>1. ASSUME NEW r \in Requests, NEW names \in Lists, ArriveCompare(r, names)
      PROVE  LookupsInOrder' /\ NoFalseSubstitute'
  <2> DEFINE qs == Lookups(r, names)
             entry == [kind |-> "compare", names |-> names]
  <2>1. /\ qs \in Seq(Query)
        /\ \A n \in DOMAIN qs :
             /\ qs[n].kind # "similar"
             /\ qs[n].kind = "lookup" /\ qs[n].store = "Walmart" =>
                  n - 1 \in DOMAIN qs
                  /\ qs[n - 1] = LookupIn(qs[n].req, qs[n].item, "Safeway")
    BY NewLookups
  <2>2. /\ list[r].kind = "no" /\ list' = [list EXCEPT ![r] = entry]
        /\ found' = [found EXCEPT ![r] = [k \in 1 .. Len(names) |-> [s \in Store |-> {}]]]
        /\ dbq' = dbq \o qs
    BY <1>1 DEF ArriveCompare
  <2> HIDE DEF qs, entry
  <2> QED
    BY <2>1, <2>2, ArrivalInOrder
<1>2. ASSUME NEW r \in Requests, NEW name \in Name \cup {NoItem}, ArriveSearch(r, name)
      PROVE  LookupsInOrder' /\ NoFalseSubstitute'
  <2> DEFINE names == IF name = NoItem THEN <<>> ELSE <<name>>
             entry == [kind |-> "search", names |-> names]
             q == [req |-> r, item |-> 1, kind |-> "search", store |-> "both"]
             qs == IF Searchable(name) THEN <<q>> ELSE <<>>
  <2>1. names \in Lists
    <3>1. CASE name # NoItem
      <4>1. <<name>> \in [1 .. 1 -> Name] /\ 1 \in 0 .. MaxItems
        BY <3>1, ServerAssumption
      <4> QED
        BY <3>1, <4>1 DEF Lists
    <3> QED
      BY <3>1, EmptyList
  <2>2. q \in Query /\ q.kind = "search"
    BY DEF Query
  <2>3. qs \in Seq(Query) /\ \A n \in DOMAIN qs : qs[n].kind = "search"
    BY <2>2
  <2>4. /\ list[r].kind = "no" /\ list' = [list EXCEPT ![r] = entry]
        /\ found' = [found EXCEPT ![r] = [k \in 1 .. Len(names) |-> [s \in Store |-> {}]]]
    BY <1>2 DEF ArriveSearch
  <2>5. dbq' = dbq \o qs
    BY <1>2, <1>t, <2>2 DEF ArriveSearch
  <2> HIDE DEF qs, entry, names
  <2> QED
    BY <2>1, <2>3, <2>4, <2>5, ArrivalInOrder
<1> QED
  BY <1>1, <1>2, PostedLists DEF Arrive

LEMMA StepIInv ==
  ASSUME IInv, [Next]_vars
  PROVE  IInv'
<1>t. RequestsOK'
  BY StepRequestsOK DEF IInv
<1>1. CASE Crash
  <2>1. dbq' = <<>> /\ list' = list /\ found' = found
    BY <1>1 DEF Crash
  <2> QED
    BY <2>1, <1>t DEF IInv, LookupsInOrder, NoFalseSubstitute, SafewayAnswered
<1>2. CASE UNCHANGED <<dbq, list, found>>
  BY <1>2, <1>t DEF IInv, LookupsInOrder, NoFalseSubstitute, SafewayAnswered, Asked
<1>3. CASE Arrive
  BY <1>3, <1>t, ArriveInOrder DEF IInv
<1>4. CASE LookupAnswered \/ SimilarAnswered \/ SearchAnswered
  BY <1>4, <1>t, LookupAnsweredInOrder, OtherAnsweredInOrder DEF IInv
<1>5. CASE Deadline
  BY <1>5, <1>t, DeadlineInOrder DEF IInv
<1>6. Respond => UNCHANGED <<dbq, list, found>>
  BY DEF Respond
<1>7. UNCHANGED vars => UNCHANGED <<dbq, list, found>>
  BY DEF vars
<1>8. QueryRefused \/ ConnectionLost => Crash
  BY DEF QueryRefused, ConnectionLost
<1> QED
  BY <1>1, <1>2, <1>3, <1>4, <1>5, <1>6, <1>7, <1>8 DEF Next, Database

\* The queries, the timers and what has been found always belong to items of
\* requests that have arrived.
THEOREM RequestsCorrect == Spec => []RequestsOK
  BY InitRequestsOK, StepRequestsOK, PTL DEF Spec

\* What every callback of eg_server.js keeps: the requests, and the order of the
\* lookups on the one connection.
THEOREM Invariance == Spec => []IInv
  BY InitIInv, StepIInv, PTL DEF Spec

\* Walmart's answer never overtakes Safeway's.
THEOREM LookupsStayInOrder == Spec => []LookupsInOrder
<1>1. IInv => LookupsInOrder
  BY DEF IInv
<1> QED
  BY <1>1, Invariance, PTL

\* No product that Safeway sells is replaced by a similar one of Safeway.
THEOREM SubstitutesAreSound == Spec => []NoFalseSubstitute
<1>1. IInv => NoFalseSubstitute
  BY DEF IInv
<1> QED
  BY <1>1, Invariance, PTL

-----------------------------------------------------------------------------
(* Quotes and replies.                                                     *)

(***************************************************************************)
(* Rows.  What a recursive definition or an induction would give is had    *)
(* from the least counterexample: the library's induction theorems take an *)
(* operator.                                                               *)
(***************************************************************************)

LEMMA LeastExists ==
  ASSUME NEW I \in SUBSET Nat, I # {}
  PROVE  Min(I) \in I /\ \A j \in I : Min(I) <= j
<1> DEFINE R == {p \in Nat \X Nat : p[1] < p[2]}
<1>1. IsWellFoundedOn(R, Nat)
  BY NatLessThanWellFounded DEF OpToRel
<1>2. PICK x \in I : \A y \in I : <<y, x>> \notin R
  <2> HIDE DEF R
  <2> QED BY <1>1, WFMin
<1>3. ASSUME NEW y \in I PROVE x <= y
  <2>1. ~ (y < x)
    BY <1>2
  <2> QED BY <2>1
<1> QED BY <1>3 DEF Min

\* Of finitely many rows one is most similar.
LEMMA BestExists ==
  ASSUME NEW name \in Name, NEW rows \in Seq(Row), rows # <<>>
  PROVE  Best(name, rows) # {}
<1> DEFINE sc(k) == Score[name][rows[k].name]
           best(n) == \E k \in 1 .. n : \A j \in 1 .. n : sc(j) <= sc(k)
           without == {n \in 1 .. Len(rows) : ~ best(n)}
<1>1. Len(rows) \in Nat /\ Len(rows) >= 1
  OBVIOUS
<1>2. \A k \in 1 .. Len(rows) : sc(k) \in Nat
  <2>1. \A k \in 1 .. Len(rows) : rows[k] \in Row
    OBVIOUS
  <2>2. \A k \in 1 .. Len(rows) : rows[k].name \in Name
    BY <2>1 DEF Row
  <2> QED BY <2>2, ScoreAssumption
<1> HIDE DEF sc
<1>3. best(1)
  <2>1. sc(1) <= sc(1)
    BY <1>1, <1>2
  <2> QED BY <2>1
<1>4. ASSUME NEW n \in 1 .. Len(rows), n # 1, best(n - 1)
      PROVE  best(n)
  <2>1. n - 1 \in 1 .. Len(rows) /\ n \in Nat
    BY <1>1, <1>4
  <2>2. PICK k \in 1 .. n - 1 : \A j \in 1 .. n - 1 : sc(j) <= sc(k)
    BY <1>4
  <2>3. k \in 1 .. n /\ n \in 1 .. n /\ \A j \in 1 .. n : j \in 1 .. n - 1 \/ j = n
    BY <2>1
  <2>4. \A j \in 1 .. n : j \in 1 .. Len(rows)
    BY <1>1
  <2>5. (\A j \in 1 .. n : sc(j) \in Nat) /\ sc(n) \in Nat /\ sc(k) \in Nat
    BY <1>2, <2>3, <2>4
  <2>6. CASE sc(n) <= sc(k)
    BY <2>2, <2>3, <2>6
  <2>7. CASE ~ (sc(n) <= sc(k))
    <3>1. ASSUME NEW j \in 1 .. n PROVE sc(j) <= sc(n)
      <4>1. CASE j = n
        BY <2>5, <4>1
      <4>2. CASE j \in 1 .. n - 1
        <5>1. sc(j) <= sc(k) /\ sc(j) \in Nat
          BY <2>2, <2>5, <4>2
        <5> QED BY <2>5, <2>7, <5>1
      <4> QED BY <2>3, <4>1, <4>2
    <3> QED BY <2>3, <3>1
  <2> QED BY <2>6, <2>7
<1> HIDE DEF best
<1>5. without = {}
  <2> SUFFICES ASSUME without # {} PROVE FALSE
    OBVIOUS
  <2> DEFINE n == Min(without)
  <2>1. without \in SUBSET Nat
    OBVIOUS
  <2>2. n \in without /\ \A j \in without : n <= j
    <3> HIDE DEF without
    <3> QED BY <2>1, LeastExists
  <2> HIDE DEF n
  <2>3. n \in 1 .. Len(rows) /\ ~ best(n) /\ n # 1
    BY <1>3, <2>2
  <2>4. n - 1 \in 1 .. Len(rows) /\ ~ (n <= n - 1)
    BY <1>1, <2>3
  <2>5. best(n - 1)
    BY <2>2, <2>4
  <2> QED BY <1>4, <2>3, <2>5
<1>6. best(Len(rows))
  <2>1. Len(rows) \in 1 .. Len(rows)
    BY <1>1
  <2> QED BY <1>5, <2>1
<1>7. PICK k \in 1 .. Len(rows) : \A j \in 1 .. Len(rows) : sc(j) <= sc(k)
  BY <1>6 DEF best
<1> QED BY <1>7 DEF Best, sc

LEMMA MostSimilarIsRow ==
  ASSUME NEW name \in Name, NEW rows \in Seq(Row), rows # <<>>
  PROVE  MostSimilarRow(name, rows) \in Row
<1> DEFINE B == Best(name, rows)
<1>1. B \in SUBSET Nat /\ B \subseteq 1 .. Len(rows)
  BY DEF Best
<1>2. B # {}
  BY BestExists
<1> HIDE DEF B
<1>3. Min(B) \in 1 .. Len(rows)
  BY <1>1, <1>2, LeastExists
<1> QED BY <1>3 DEF MostSimilarRow, B

LEMMA FirstIsRow ==
  ASSUME NEW s \in Store, NEW places \in SUBSET (DOMAIN Table[s]), places # {}
  PROVE  First(s, places) \in Row
<1>1. Table[s] \in Seq(Row) /\ places \in SUBSET Nat
  BY CatalogAssumption
<1>2. Min(places) \in DOMAIN Table[s]
  BY <1>1, LeastExists
<1> QED BY <1>1, <1>2 DEF First

LEMMA CandidatesAreRows ==
  ASSUME NEW s \in Store PROVE Candidates(s) \in Seq(Row)
  BY CatalogAssumption DEF Candidates

(***************************************************************************)
(* The invariant.                                                          *)
(***************************************************************************)

Part == [cost : Nat, items : Seq(Entry), unknown : Nat]

\* What was found is in the table, and only a request that has arrived has an
\* answer, of its own kind.
FoundRows ==
  \A r \in Requests : \A k \in DOMAIN found[r] : \A s \in Store :
    found[r][k][s] \subseteq DOMAIN Table[s]

Replied ==
  /\ DOMAIN reply = Requests
  /\ \A r \in Requests :
       reply[r].kind = "none" \/ (list[r].kind # "no" /\ reply[r].kind = list[r].kind)
  /\ \A n \in DOMAIN dbq : dbq[n].kind = "search" => list[dbq[n].req].kind = "search"
  /\ \A n \in DOMAIN replyq : list[replyq[n]].kind = "compare"

Quoted == quote \in [Requests -> [Store -> Part]]

\* The timers of a request are set in the order of its list, so at most the
\* items before the next one have been counted.
Counted ==
  /\ \A r \in Requests : \A s \in Store : quote[r][s].unknown <= Len(list[r].names)
  /\ \A n \in DOMAIN due : \A s \in Store : quote[due[n][1]][s].unknown < due[n][2]
  /\ \A m, n \in DOMAIN due :
       m < n /\ due[m][1] = due[n][1] => due[m][2] < due[n][2]

QInv ==
  RequestsOK /\ FoundRows /\ Replied /\ Quoted /\ Counted /\ late \subseteq Requests

LEMMA QInvIsTypeOK == QInv => TypeOK
<1> SUFFICES ASSUME QInv
             PROVE  \A r \in Requests :
                      /\ \A s \in Store :
                           /\ quote[r][s].cost \in Nat
                           /\ quote[r][s].items \in Seq(Entry)
                           /\ quote[r][s].unknown \in 0 .. Len(list[r].names)
                      /\ reply[r].kind \in {"none", list[r].kind}
  BY DEF QInv, TypeOK
<1>1. ASSUME NEW r \in Requests, NEW s \in Store
      PROVE  /\ quote[r][s] \in Part
             /\ quote[r][s].unknown <= Len(list[r].names)
  BY DEF QInv, Quoted, Counted
<1>2. \A r \in Requests : Len(list[r].names) \in Nat
  BY ListLength DEF QInv, RequestsOK
<1> QED BY <1>1, <1>2 DEF Part, QInv, Replied

LEMMA QStarted == Init => QInv
<1> SUFFICES ASSUME Init PROVE QInv
  OBVIOUS
<1>1. RequestsOK
  BY InitRequestsOK
<1>2. \A r \in Requests : list[r].kind = "no" /\ list[r].names = <<>> /\ found[r] = <<>>
  BY DEF Init, Unsent
<1>3. FoundRows
  BY <1>2 DEF FoundRows
<1>4. [cost |-> 0, items |-> <<>>, unknown |-> 0] \in Part
  BY DEF Part
<1>5. Quoted
  BY <1>4 DEF Init, Quoted, EmptyQuote
<1>6. Replied
  BY DEF Init, Replied, NoReply
<1>7. Counted
  BY <1>2 DEF Init, Counted, EmptyQuote
<1> QED BY <1>1, <1>3, <1>5, <1>6, <1>7 DEF QInv, Init

(***************************************************************************)
(* Every step keeps it.                                                    *)
(***************************************************************************)

LEMMA ArrivalQuoted ==
  ASSUME QInv, RequestsOK', NEW r \in Requests, list[r].kind = "no",
         NEW kind \in {"compare", "search"}, NEW names \in Lists,
         NEW qs \in Seq(Query), NEW ts \in Seq({r} \X (1 .. Len(names))),
         \A n \in DOMAIN qs : qs[n].req = r /\ (qs[n].kind = "search" => kind = "search"),
         \A m, n \in DOMAIN ts : m < n => ts[m][2] < ts[n][2],
         list' = [list EXCEPT ![r] = [kind |-> kind, names |-> names]],
         found' = [found EXCEPT ![r] =
                     [k \in 1 .. Len(names) |-> [s \in Store |-> {}]]],
         dbq' = dbq \o qs, due' = due \o ts,
         replyq' = replyq \/ (kind = "compare" /\ replyq' = Append(replyq, r)),
         UNCHANGED <<quote, reply, late>>
  PROVE  QInv'
<1>1. /\ dbq \in Seq(Query) /\ due \in Seq(Requests \X Nat) /\ replyq \in Seq(Requests)
      /\ list[r].names = <<>> /\ Len(names) \in Nat
      /\ list'[r] = [kind |-> kind, names |-> names]
      /\ \A t \in Requests \ {r} : list'[t] = list[t] /\ found'[t] = found[t]
      /\ found'[r] = [k \in 1 .. Len(names) |-> [s \in Store |-> {}]]
  BY ListLength DEF QInv, RequestsOK
<1>2. FoundRows'
  <2>1. \A k \in DOMAIN found'[r] : \A s \in Store : found'[r][k][s] = {}
    <3> DEFINE nothing == [k \in 1 .. Len(names) |-> [s \in Store |-> {}]]
    <3>1. \A k \in DOMAIN nothing : \A s \in Store : nothing[k][s] = {}
      OBVIOUS
    <3> QED BY <1>1, <3>1
  <2>2. ASSUME NEW t \in Requests, NEW k \in DOMAIN found'[t], NEW s \in Store
        PROVE  found'[t][k][s] \subseteq DOMAIN Table[s]
    <3>1. CASE t = r
      BY <2>1, <2>2, <3>1
    <3>2. CASE t # r
      BY <1>1, <2>2, <3>2 DEF QInv, FoundRows
    <3> QED BY <3>1, <3>2
  <2> QED BY <2>2 DEF FoundRows
<1>3. reply[r].kind = "none"
  BY DEF QInv, Replied
<1>4. ASSUME NEW n \in DOMAIN dbq', dbq'[n].kind = "search"
      PROVE  list'[dbq'[n].req].kind = "search"
  <2>1. CASE n \in DOMAIN dbq
    <3>1. dbq'[n] = dbq[n]
      BY <1>1, <2>1
    <3>2. list'[dbq[n].req] = list[dbq[n].req]
      BY <1>1, <2>1, NewRequest DEF QInv
    <3> QED BY <1>4, <2>1, <3>1, <3>2 DEF QInv, Replied
  <2>2. CASE n \notin DOMAIN dbq
    <3>1. PICK m \in DOMAIN qs : dbq'[n] = qs[m]
      BY <1>1, <2>2, Concatenated
    <3> QED BY <1>1, <1>4, <3>1
  <2> QED BY <2>1, <2>2
<1>5. ASSUME NEW n \in DOMAIN replyq' PROVE list'[replyq'[n]].kind = "compare"
  <2>1. CASE n \in DOMAIN replyq /\ replyq'[n] = replyq[n]
    <3>1. replyq[n] \in Requests /\ list[replyq[n]].kind = "compare"
      BY <1>1, <2>1 DEF QInv, Replied
    <3> QED BY <1>1, <2>1, <3>1
  <2>2. CASE kind = "compare" /\ replyq'[n] = r
    BY <1>1, <2>2
  <2>3. CASE replyq' = replyq
    BY <2>1, <2>3
  <2>4. CASE kind = "compare" /\ replyq' = Append(replyq, r)
    <3>1. (n \in DOMAIN replyq /\ replyq'[n] = replyq[n]) \/ replyq'[n] = r
      BY <1>1, <2>4, Appended
    <3> QED BY <2>1, <2>2, <2>4, <3>1
  <2> QED BY <2>3, <2>4
<1>6. Replied'
  <2>1. \A t \in Requests :
          reply[t].kind = "none" \/ (list'[t].kind # "no" /\ reply[t].kind = list'[t].kind)
    BY <1>1, <1>3 DEF QInv, Replied
  <2> QED BY <1>4, <1>5, <2>1 DEF QInv, Replied
<1>7. \A s \in Store : quote[r][s].unknown = 0
  <2> SUFFICES ASSUME NEW s \in Store PROVE quote[r][s].unknown = 0
    OBVIOUS
  <2>1. quote[r][s] \in Part
    BY DEF QInv, Quoted
  <2>2. quote[r][s].unknown <= 0
    BY <1>1 DEF QInv, Counted
  <2> QED BY <2>1, <2>2 DEF Part
<1>8. ASSUME NEW t \in Requests, NEW s \in Store
      PROVE  quote'[t][s].unknown <= Len(list'[t].names)
  <2>1. CASE t = r
    BY <1>1, <1>7, <2>1
  <2>2. CASE t # r
    BY <1>1, <2>2 DEF QInv, Counted
  <2> QED BY <2>1, <2>2
\* A timer is an old one of another request, or one of the new ones.
<1>9. ASSUME NEW n \in DOMAIN due'
      PROVE  \/ n \in DOMAIN due /\ due'[n] = due[n] /\ due[n][1] # r
             \/ /\ n \notin DOMAIN due /\ n - Len(due) \in DOMAIN ts
                /\ due'[n] = ts[n - Len(due)] /\ due'[n][1] = r
                /\ due'[n][2] \in Nat \ {0}
  <2>1. CASE n \in DOMAIN due
    BY <1>1, <2>1, NewRequest DEF QInv
  <2>2. CASE n \notin DOMAIN due
    <3>1. n - Len(due) \in DOMAIN ts /\ due'[n] = ts[n - Len(due)]
      <4>1. ts \in Seq(Requests \X Nat)
        BY <1>1
      <4> QED BY <1>1, <2>2, <4>1, Concatenated
    <3>2. ts[n - Len(due)] \in {r} \X (1 .. Len(names))
      BY <3>1
    <3> QED BY <1>1, <2>2, <3>1, <3>2
  <2> QED BY <2>1, <2>2
<1>10. ASSUME NEW n \in DOMAIN due', NEW s \in Store
       PROVE  quote'[due'[n][1]][s].unknown < due'[n][2]
  <2>1. CASE n \in DOMAIN due /\ due'[n] = due[n]
    BY <2>1 DEF QInv, Counted
  <2>2. CASE due'[n][1] = r /\ due'[n][2] \in Nat \ {0}
    BY <1>7, <2>2
  <2> QED BY <1>9, <2>1, <2>2
<1>11. ASSUME NEW m \in DOMAIN due', NEW n \in DOMAIN due',
              m < n, due'[m][1] = due'[n][1]
       PROVE  due'[m][2] < due'[n][2]
  <2>1. DOMAIN due = 1 .. Len(due) /\ Len(due) \in Nat /\ m \in Nat /\ n \in Nat
    <3>1. DOMAIN due' = 1 .. Len(due) + Len(ts) /\ Len(ts) \in Nat
      BY <1>1
    <3> QED BY <1>1, <3>1
  <2>2. CASE m \in DOMAIN due /\ n \in DOMAIN due
    <3>1. due'[m] = due[m] /\ due'[n] = due[n]
      BY <1>9, <2>2
    <3> QED BY <1>11, <2>2, <3>1 DEF QInv, Counted
  <2>3. CASE m \notin DOMAIN due /\ n \notin DOMAIN due
    <3>1. /\ m - Len(due) \in DOMAIN ts /\ due'[m] = ts[m - Len(due)]
          /\ n - Len(due) \in DOMAIN ts /\ due'[n] = ts[n - Len(due)]
      BY <1>9, <2>3
    <3>2. m - Len(due) < n - Len(due)
      BY <1>11, <2>1
    <3> QED BY <3>1, <3>2
  <2>4. CASE m \in DOMAIN due /\ n \notin DOMAIN due
    BY <1>9, <1>11, <2>4
  <2>5. CASE m \notin DOMAIN due /\ n \in DOMAIN due
    BY <1>11, <2>1, <2>5
  <2> QED BY <2>2, <2>3, <2>4, <2>5
<1>12. Counted'
  BY <1>8, <1>10, <1>11 DEF Counted
<1> QED BY <1>2, <1>6, <1>12 DEF QInv, Quoted

LEMMA ArriveCompareQuoted ==
  ASSUME QInv, NEW r \in Requests, NEW names \in Lists, ArriveCompare(r, names)
  PROVE  QInv'
<1> DEFINE qs == Lookups(r, names)
           ts == Deadlines(r, names)
<1>1. RequestsOK'
  BY ArriveCompareOK DEF QInv
<1>2. qs \in Seq(Query) /\ \A n \in DOMAIN qs : qs[n].req = r /\ qs[n].kind # "search"
  BY NewLookups
<1>3. /\ ts \in Seq({r} \X (1 .. Len(names)))
      /\ \A m, n \in DOMAIN ts : m < n => ts[m][2] < ts[n][2]
  BY ListLength DEF Deadlines
<1> HIDE DEF qs, ts
<1>4. /\ list[r].kind = "no"
      /\ list' = [list EXCEPT ![r] = [kind |-> "compare", names |-> names]]
      /\ found' = [found EXCEPT ![r] = [k \in 1 .. Len(names) |-> [s \in Store |-> {}]]]
      /\ dbq' = dbq \o qs /\ due' = due \o ts /\ replyq' = Append(replyq, r)
      /\ UNCHANGED <<quote, reply, late>>
  BY DEF ArriveCompare, qs, ts
<1>5. /\ "compare" \in {"compare", "search"}
      /\ \A n \in DOMAIN qs : qs[n].req = r /\ (qs[n].kind = "search" => "compare" = "search")
  BY <1>2
<1>6. replyq' = replyq \/ ("compare" = "compare" /\ replyq' = Append(replyq, r))
  BY <1>4
<1> QED BY <1>1, <1>2, <1>3, <1>4, <1>5, <1>6, ArrivalQuoted

LEMMA ArriveSearchQuoted ==
  ASSUME QInv, NEW r \in Requests, NEW name \in Name \cup {NoItem},
         ArriveSearch(r, name)
  PROVE  QInv'
<1> DEFINE names == IF name = NoItem THEN <<>> ELSE <<name>>
           q == [req |-> r, item |-> 1, kind |-> "search", store |-> "both"]
           qs == IF Searchable(name) THEN <<q>> ELSE <<>>
           ts == <<>>
<1>1. names \in Lists
  <2>1. CASE name # NoItem
    <3>1. <<name>> \in [1 .. 1 -> Name] /\ 1 \in 0 .. MaxItems
      BY <2>1, ServerAssumption
    <3> QED BY <2>1, <3>1 DEF Lists
  <2> QED BY <2>1, EmptyList
<1>2. q \in Query /\ q.req = r
  BY DEF Query
<1>3. qs \in Seq(Query) /\ \A n \in DOMAIN qs : qs[n].req = r
  BY <1>2
<1>4. ts \in Seq({r} \X (1 .. Len(names))) /\ DOMAIN ts = {}
  OBVIOUS
<1>5. dbq \in Seq(Query) /\ due \in Seq(Requests \X Nat)
  BY DEF QInv, RequestsOK
<1>6. dbq' = dbq \o qs /\ due' = due \o ts
  BY <1>2, <1>5 DEF ArriveSearch
<1>7. /\ list[r].kind = "no" /\ replyq' = replyq /\ UNCHANGED <<quote, reply, late>>
      /\ list' = [list EXCEPT ![r] = [kind |-> "search", names |-> names]]
      /\ found' = [found EXCEPT ![r] = [k \in 1 .. Len(names) |-> [s \in Store |-> {}]]]
  BY DEF ArriveSearch
<1>8. RequestsOK'
  BY ArriveSearchOK DEF QInv
<1> HIDE DEF names, qs, ts
<1> QED BY <1>1, <1>3, <1>4, <1>6, <1>7, <1>8, ArrivalQuoted

LEMMA CrashQuoted ==
  ASSUME QInv, Crash PROVE QInv'
<1>1. /\ dbq' = <<>> /\ due' = <<>> /\ replyq' = <<>>
      /\ UNCHANGED <<list, found, quote, reply, late>>
  BY DEF Crash
<1>2. RequestsOK'
  BY CrashOK DEF QInv
<1> QED BY <1>1, <1>2 DEF QInv, FoundRows, Replied, Quoted, Counted

\* The connection has answered a query: the others have the kinds they had.
LEMMA RestKinds ==
  ASSUME QInv, dbq # <<>>, dbq' = Tail(dbq), UNCHANGED list
  PROVE  \A n \in DOMAIN dbq' : dbq'[n].kind = "search" => list'[dbq'[n].req].kind = "search"
<1>1. \A n \in DOMAIN dbq' : n + 1 \in DOMAIN dbq /\ dbq'[n] = dbq[n + 1]
  BY Tailed DEF QInv, RequestsOK
<1> QED BY <1>1 DEF QInv, Replied

LEMMA LookupAnsweredQuoted ==
  ASSUME QInv, LookupAnswered PROVE QInv'
<1> DEFINE q == Head(dbq)
           places == Places(q.store, Asked(q))
<1>1. /\ dbq # <<>> /\ dbq' = Tail(dbq)
      /\ UNCHANGED <<list, quote, reply, due, replyq, late>>
      /\ found' = [found EXCEPT ![q.req][q.item][q.store] = places]
      /\ q.kind = "lookup"
  BY DEF LookupAnswered, Answered
<1>2. q.req \in Requests /\ q.item \in 1 .. Len(list[q.req].names) /\ q.store \in Store
  BY <1>1, HeadIsQuery DEF Query, QInv
<1>3. places \subseteq DOMAIN Table[q.store]
  BY DEF Places
<1> HIDE DEF q, places
<1>4. FoundRows'
  <2> SUFFICES ASSUME NEW r \in Requests, NEW k \in DOMAIN found'[r], NEW s \in Store
               PROVE  found'[r][k][s] \subseteq DOMAIN Table[s]
    BY DEF FoundRows
  <2>1. \A t \in Requests : found[t] \in [1 .. Len(list[t].names) -> [Store -> SUBSET Nat]]
    BY DEF QInv, RequestsOK
  <2>2. DOMAIN found = Requests
    BY DEF QInv, RequestsOK
  <2>3. k \in DOMAIN found[r]
    BY <1>1, <1>2, <2>1, <2>2
  <2>4. CASE r = q.req /\ k = q.item /\ s = q.store
    BY <1>1, <1>2, <1>3, <2>1, <2>2, <2>4
  <2>5. CASE ~ (r = q.req /\ k = q.item /\ s = q.store)
    <3>1. found'[r][k][s] = found[r][k][s]
      BY <1>1, <1>2, <2>1, <2>2, <2>3, <2>5
    <3> QED BY <2>3, <3>1 DEF QInv, FoundRows
  <2> QED BY <2>4, <2>5
<1>5. RequestsOK' /\ Replied'
  BY <1>1, RestKinds, LookupAnsweredOK DEF QInv, Replied
<1> QED BY <1>1, <1>4, <1>5 DEF QInv, Quoted, Counted

LEMMA AddedPart ==
  ASSUME NEW part \in Part, NEW row \in Row, NEW bare \in BOOLEAN
  PROVE  Added(part, row, bare) \in Part /\ Added(part, row, bare).unknown = part.unknown
<1>1. [row |-> row, bare |-> bare] \in Entry /\ row.price \in Nat
  BY ScoreAssumption DEF Entry, Row
<1>2. /\ part.cost + row.price \in Nat
      /\ Append(part.items, [row |-> row, bare |-> bare]) \in Seq(Entry)
      /\ part.unknown \in Nat
  BY <1>1 DEF Part
<1> QED BY <1>2 DEF Added, Part

LEMMA SimilarAnsweredQuoted ==
  ASSUME QInv, SimilarAnswered PROVE QInv'
<1> DEFINE q == Head(dbq)
           rows == Candidates(q.store)
           part == quote[q.req][q.store]
           row == MostSimilarRow(Asked(q), rows)
<1>1. /\ dbq # <<>> /\ dbq' = Tail(dbq) /\ q.kind = "similar"
      /\ UNCHANGED <<list, found, reply, due, replyq, late>>
      /\ quote' = IF rows = <<>> THEN quote
                  ELSE [quote EXCEPT ![q.req][q.store] = Added(@, row, FALSE)]
  BY DEF SimilarAnswered, Answered, Asker
<1>2. q.req \in Requests /\ q.item \in 1 .. Len(list[q.req].names) /\ q.store \in Store
  BY <1>1, HeadIsQuery DEF Query, QInv
<1>3. Asked(q) \in Name
  <2>1. list[q.req].names \in Lists
    BY <1>2 DEF QInv, RequestsOK
  <2> QED BY <1>2, <2>1, ListLength DEF Asked
<1>4. part \in Part
  BY <1>2 DEF QInv, Quoted
<1>5. rows # <<>> => row \in Row
  BY <1>2, <1>3, CandidatesAreRows, MostSimilarIsRow
<1>6. rows # <<>> => Added(part, row, FALSE) \in Part
                     /\ Added(part, row, FALSE).unknown = part.unknown
  BY <1>4, <1>5, AddedPart
<1> HIDE DEF q, rows, row
<1>7. Quoted'
  BY <1>1, <1>2, <1>6 DEF QInv, Quoted
<1>8. \A r \in Requests : \A s \in Store : quote'[r][s].unknown = quote[r][s].unknown
  BY <1>1, <1>2, <1>6 DEF QInv, Quoted
<1>9. Counted'
  <2>1. \A n \in DOMAIN due : due[n][1] \in Requests
    BY DEF QInv, RequestsOK
  <2>2. \A r \in Requests : \A s \in Store : quote'[r][s].unknown <= Len(list'[r].names)
    BY <1>1, <1>8 DEF QInv, Counted
  <2>3. \A n \in DOMAIN due' : \A s \in Store : quote'[due'[n][1]][s].unknown < due'[n][2]
    <3>1. \A n \in DOMAIN due : \A s \in Store : quote[due[n][1]][s].unknown < due[n][2]
      BY DEF QInv, Counted
    <3>2. \A n \in DOMAIN due : \A s \in Store :
            quote'[due[n][1]][s].unknown = quote[due[n][1]][s].unknown
      BY <1>8, <2>1
    <3>3. \A n \in DOMAIN due : \A s \in Store : quote'[due[n][1]][s].unknown < due[n][2]
      BY <3>1, <3>2
    <3>4. due' = due
      BY <1>1
    <3> QED BY <3>3, <3>4
  <2>4. \A m, n \in DOMAIN due' :
          m < n /\ due'[m][1] = due'[n][1] => due'[m][2] < due'[n][2]
    BY <1>1 DEF QInv, Counted
  <2> QED BY <2>2, <2>3, <2>4 DEF Counted
<1>10. RequestsOK' /\ Replied'
  BY <1>1, RestKinds, SimilarAnsweredOK DEF QInv, Replied
<1> QED BY <1>1, <1>7, <1>9, <1>10 DEF QInv, FoundRows

LEMMA SearchAnsweredQuoted ==
  ASSUME QInv, SearchAnswered PROVE QInv'
<1> DEFINE q == Head(dbq)
           names == Matching(Asked(q))
<1>1. /\ dbq # <<>> /\ dbq' = Tail(dbq) /\ q.kind = "search"
      /\ UNCHANGED <<list, found, quote, due, replyq, late>>
      /\ reply' = [reply EXCEPT ![q.req] = [kind |-> "search", names |-> names]]
  BY DEF SearchAnswered, Answered
<1>2. q.req \in Requests /\ list[q.req].kind = "search"
  <2>1. q = dbq[1] /\ 1 \in DOMAIN dbq
    BY <1>1, Tailed DEF QInv, RequestsOK
  <2> QED BY <1>1, <2>1, HeadIsQuery DEF QInv, Replied
<1> HIDE DEF q, names
<1>3. Replied'
  BY <1>1, <1>2, RestKinds DEF QInv, Replied
<1>4. RequestsOK'
  BY SimilarAnsweredOK DEF QInv
<1> QED BY <1>1, <1>3, <1>4 DEF QInv, FoundRows, Quoted, Counted

\* What the timer of an item adds to a quote.
LEMMA DeadlineAdds ==
  ASSUME QInv, Deadline
  PROVE  LET r == Head(due)[1] IN
         /\ quote' \in [Requests -> [Store -> Part]]
         /\ \A t \in Requests : \A s \in Store :
              \/ quote'[t][s].unknown = quote[t][s].unknown
              \/ t = r /\ quote'[t][s].unknown = quote[t][s].unknown + 1
<1> DEFINE r == Head(due)[1]
           k == Head(due)[2]
<1>1. r \in Requests /\ k \in DOMAIN found[r]
  <2>1. due # <<>> /\ due \in Seq(Requests \X Nat)
    BY DEF Deadline, QInv, RequestsOK
  <2>2. Head(due) = due[1] /\ 1 \in DOMAIN due /\ Head(due) \in Requests \X Nat
    BY <2>1, Tailed
  <2>3. found[r] \in [1 .. Len(list[r].names) -> [Store -> SUBSET Nat]]
    BY <2>2 DEF QInv, RequestsOK
  <2> QED BY <2>2, <2>3 DEF QInv, RequestsOK
<1>2. InBoth(r, k) \/ (\E s \in Store : InOne(r, k, s)) \/ InNeither(r, k)
  BY DEF Deadline
<1> HIDE DEF r, k
<1>3. quote \in [Requests -> [Store -> Part]]
  BY DEF QInv, Quoted
<1>4. ASSUME NEW s \in Store, IsIn(r, k, s) PROVE Found(r, k, s) \in Row
  <2>1. found[r][k][s] \in SUBSET (DOMAIN Table[s]) /\ found[r][k][s] # {}
    BY <1>1, <1>4 DEF QInv, FoundRows, IsIn
  <2> QED BY <2>1, FirstIsRow DEF Found
<1>5. CASE InBoth(r, k)
  <2>1. \A s \in Store :
          /\ Added(quote[r][s], Found(r, k, s), TRUE) \in Part
          /\ Added(quote[r][s], Found(r, k, s), TRUE).unknown = quote[r][s].unknown
    BY <1>1, <1>3, <1>4, <1>5, AddedPart DEF InBoth
  <2>2. quote' = [quote EXCEPT ![r] =
                    [s \in Store |-> Added(quote[r][s], Found(r, k, s), TRUE)]]
    BY <1>5 DEF InBoth
  <2>3. [s \in Store |-> Added(quote[r][s], Found(r, k, s), TRUE)] \in [Store -> Part]
    BY <2>1
  <2> QED BY <1>1, <1>3, <2>1, <2>2, <2>3 DEF r
<1>6. ASSUME NEW s \in Store, InOne(r, k, s)
      PROVE  /\ quote' \in [Requests -> [Store -> Part]]
             /\ \A t \in Requests : \A u \in Store :
                  quote'[t][u].unknown = quote[t][u].unknown
  <2> DEFINE more == Added(quote[r][s], Found(r, k, s), FALSE)
  <2>1. more \in Part /\ more.unknown = quote[r][s].unknown
    BY <1>1, <1>3, <1>4, <1>6, AddedPart DEF InOne
  <2>2. quote' = [quote EXCEPT ![r][s] = more]
    BY <1>6 DEF InOne
  <2> HIDE DEF more
  <2> QED BY <1>1, <1>3, <2>1, <2>2
<1>7. CASE InNeither(r, k)
  <2> DEFINE more == [s \in Store |-> [quote[r][s] EXCEPT !.unknown = @ + 1]]
  <2>1. quote' = [quote EXCEPT ![r] = more]
    BY <1>7 DEF InNeither, UnknownIn
  <2>2. \A s \in Store : quote[r][s] \in Part
    BY <1>1, <1>3
  <2>3. \A s \in Store : more[s] \in Part /\ more[s].unknown = quote[r][s].unknown + 1
    BY <2>2 DEF Part
  <2>4. more \in [Store -> Part]
    BY <2>3
  <2> HIDE DEF more
  <2> QED BY <1>1, <1>3, <2>1, <2>3, <2>4 DEF r
<1> QED BY <1>2, <1>5, <1>6, <1>7 DEF r

LEMMA DeadlineQuoted ==
  ASSUME QInv, Deadline PROVE QInv'
<1> DEFINE r == Head(due)[1]
           k == Head(due)[2]
<1>1. /\ due # <<>> /\ due' = Tail(due) /\ UNCHANGED <<list, found, reply, replyq>>
      /\ due \in Seq(Requests \X Nat)
  BY DEF Deadline, QInv, RequestsOK
<1>2. /\ Head(due) = due[1] /\ 1 \in DOMAIN due /\ Head(due) \in Requests \X Nat
      /\ DOMAIN due = 1 .. Len(due) /\ Len(due) \in Nat
      /\ \A n \in DOMAIN due' : n + 1 \in DOMAIN due /\ due'[n] = due[n + 1]
  BY <1>1, Tailed
<1>3. /\ Quoted'
      /\ \A t \in Requests : \A s \in Store :
           \/ quote'[t][s].unknown = quote[t][s].unknown
           \/ t = r /\ quote'[t][s].unknown = quote[t][s].unknown + 1
  BY DeadlineAdds DEF Quoted
<1>4. /\ r \in Requests /\ r = due[1][1] /\ k = due[1][2] /\ k \in Nat
      /\ k \in 1 .. Len(list[r].names)
  BY <1>2 DEF QInv, RequestsOK
<1>5. \A t \in Requests : \A s \in Store : quote[t][s].unknown \in Nat
  BY DEF QInv, Quoted, Part
<1>6. \A s \in Store : quote'[r][s].unknown <= k
  <2>1. \A s \in Store : quote[r][s].unknown < k
    BY <1>2, <1>4 DEF QInv, Counted
  <2> QED BY <1>3, <1>4, <1>5, <2>1
<1> HIDE DEF r, k
<1>7. ASSUME NEW t \in Requests, NEW s \in Store
      PROVE  quote'[t][s].unknown <= Len(list'[t].names)
  <2>1. CASE t = r
    <3>1. Len(list[r].names) \in Nat
      BY <1>4, ListLength DEF QInv, RequestsOK
    <3>2. quote'[r][s].unknown \in Nat
      BY <1>3, <1>4, <1>5
    <3> QED BY <1>1, <1>4, <1>6, <2>1, <3>1, <3>2
  <2>2. CASE t # r
    BY <1>1, <1>3, <2>2 DEF QInv, Counted
  <2> QED BY <2>1, <2>2
<1>8. ASSUME NEW n \in DOMAIN due', NEW s \in Store
      PROVE  quote'[due'[n][1]][s].unknown < due'[n][2]
  <2>1. n + 1 \in DOMAIN due /\ due'[n] = due[n + 1] /\ due[n + 1] \in Requests \X Nat
    BY <1>1, <1>2
  <2>2. CASE due[n + 1][1] = r
    <3>1. 1 < n + 1
      <4>1. DOMAIN due' = 1 .. Len(due) - 1
        BY <1>1, <1>2
      <4> QED BY <1>2, <4>1
    <3>2. k < due[n + 1][2]
      BY <1>2, <1>4, <2>1, <2>2, <3>1 DEF QInv, Counted
    <3>3. quote'[r][s].unknown \in Nat
      BY <1>3, <1>4, <1>5
    <3> QED BY <1>4, <1>6, <2>1, <2>2, <3>2, <3>3
  <2>3. CASE due[n + 1][1] # r
    BY <1>3, <2>1, <2>3 DEF QInv, Counted
  <2> QED BY <2>2, <2>3
<1>9. ASSUME NEW m \in DOMAIN due', NEW n \in DOMAIN due',
             m < n, due'[m][1] = due'[n][1]
      PROVE  due'[m][2] < due'[n][2]
  <2>1. m + 1 \in DOMAIN due /\ n + 1 \in DOMAIN due
    BY <1>2
  <2>2. m + 1 < n + 1
    <3>1. DOMAIN due' = 1 .. Len(due) - 1 /\ Len(due) \in Nat
      BY <1>1, <1>2
    <3>2. m \in Int /\ n \in Int
      BY <3>1
    <3> QED BY <1>9, <3>2
  <2>3. due'[m] = due[m + 1] /\ due'[n] = due[n + 1]
    BY <1>2
  <2> QED BY <1>9, <2>1, <2>2, <2>3 DEF QInv, Counted
<1>10. Replied'
  <2>1. \A n \in DOMAIN dbq' :
          dbq'[n].kind = "search" => n \in DOMAIN dbq /\ dbq'[n] = dbq[n]
    <3>1. CASE dbq' = dbq
      BY <3>1
    <3>2. ASSUME NEW q \in Query, q.kind = "similar", dbq' = Append(dbq, q)
          PROVE  \A n \in DOMAIN dbq' :
                   dbq'[n].kind = "search" => n \in DOMAIN dbq /\ dbq'[n] = dbq[n]
      <4>1. dbq \in Seq(Query)
        BY DEF QInv, RequestsOK
      <4> QED BY <3>2, <4>1, Appended
    <3> QED BY <3>1, <3>2, DeadlineAsks DEF QInv
  <2> QED BY <1>1, <2>1 DEF QInv, Replied
<1>11. late' \subseteq Requests
  BY <1>4 DEF Deadline, QInv, r
<1>12. RequestsOK'
  BY DeadlineOK DEF QInv
<1>13. Counted'
  BY <1>7, <1>8, <1>9 DEF Counted
<1> QED BY <1>1, <1>3, <1>10, <1>11, <1>12, <1>13 DEF QInv, FoundRows

LEMMA RespondQuoted ==
  ASSUME QInv, Respond PROVE QInv'
<1> DEFINE r == Head(replyq)
<1>1. /\ replyq # <<>> /\ replyq' = Tail(replyq)
      /\ UNCHANGED <<list, found, quote, dbq, due>>
      /\ reply' = [reply EXCEPT ![r] =
                     [kind |-> "compare", quote |-> ConvertToJson(quote[r])]]
  BY DEF Respond, Expired
<1>2. /\ r = replyq[1] /\ 1 \in DOMAIN replyq /\ r \in Requests
      /\ \A n \in DOMAIN replyq' : n + 1 \in DOMAIN replyq /\ replyq'[n] = replyq[n + 1]
  BY <1>1, Tailed DEF QInv, RequestsOK
<1>3. list[r].kind = "compare"
  BY <1>2 DEF QInv, Replied
<1>4. late' \subseteq Requests
  BY <1>2 DEF Respond, QInv
<1> HIDE DEF r
<1>5. Replied'
  BY <1>1, <1>2, <1>3 DEF QInv, Replied
<1>6. RequestsOK'
  BY RespondOK DEF QInv
<1> QED BY <1>1, <1>4, <1>5, <1>6 DEF QInv, FoundRows, Quoted, Counted

LEMMA QStep == QInv /\ [Next]_vars => QInv'
<1> SUFFICES ASSUME QInv, [Next]_vars PROVE QInv'
  OBVIOUS
<1>1. CASE UNCHANGED vars
  BY <1>1 DEF vars, QInv, RequestsOK, FoundRows, Replied, Quoted, Counted
<1>2. CASE Arrive
  BY <1>2, PostedLists, ArriveCompareQuoted, ArriveSearchQuoted DEF Arrive
<1>3. CASE Database
  BY <1>3, CrashQuoted, LookupAnsweredQuoted, SimilarAnsweredQuoted, SearchAnsweredQuoted
     DEF Database, QueryRefused
<1>4. CASE ConnectionLost
  BY <1>4, CrashQuoted DEF ConnectionLost
<1> QED BY <1>1, <1>2, <1>3, <1>4, DeadlineQuoted, RespondQuoted DEF Next

\* Every quote and every reply is of its type: products of the tables with their
\* prices, and no more unknown items than the list has (POST /compare).
THEOREM TypeCorrect == Spec => []TypeOK
<1>1. Spec => []QInv
  BY QStarted, QStep, PTL DEF Spec
<1> QED BY <1>1, QInvIsTypeOK, PTL
=============================================================================
