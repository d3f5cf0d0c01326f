--------------------------- MODULE EgServerQuotes ---------------------------
(***************************************************************************)
(* The price server's totals add up, a reply that missed nothing says what *)
(* the tables say, and PriceService is implemented, for any requests,      *)
(* lists and tables.  The invariant places every row of a quote at an item *)
(* of the list, as PriceService does for what is told in the end.          *)
(***************************************************************************)
EXTENDS EgServerProofs, FiniteSetTheorems

(***************************************************************************)
(* Sums.  What folding a finite set would need an induction for is had from*)
(* a smallest set that is a counterexample.                                *)
(***************************************************************************)

\* f[s] is the sum of g over s, for every s in D, s and what is left of it.
Sums(g, D, f) ==
  f = [s \in D |-> IF s = {} THEN 0 ELSE g[CHOOSE x \in s : TRUE] + f[s \ {CHOOSE x \in s : TRUE}]]

LEMMA TotalIsSum ==
  ASSUME NEW g, NEW S, S = DOMAIN g, \E f : Sums(g, SUBSET S, f)
  PROVE \E h : Sums(g, SUBSET S, h) /\ Total(g) = h[S]
<1> DEFINE P(h) == h = [s \in SUBSET S |-> IF s = {} THEN 0 ELSE g[CHOOSE x \in s : TRUE] + h[s \ {CHOOSE x \in s : TRUE}]]
<1>1. Total(g) = (CHOOSE h : P(h))[S]
  BY DEF Total, MapThenSumSet, MapThenFoldSet
<1>2. \A h : P(h) <=> Sums(g, SUBSET S, h)
  BY DEF Sums
<1> HIDE DEF P
<1>3. P(CHOOSE h : P(h))
  BY <1>2
<1> QED BY <1>1, <1>2, <1>3

\* A set of which no part is the least counterexample.
LEMMA LeastSet ==
  ASSUME NEW S, IsFiniteSet(S), NEW B \in SUBSET (SUBSET S), B # {}
  PROVE  \E T \in B : \A U \in B : U \subseteq T => U = T
<1> DEFINE R == StrictSubsetOrdering(S)
<1>1. IsWellFoundedOn(R, SUBSET S)
  BY FS_StrictSubsetOrderingWellFounded, FS_FiniteSubsetsOfFinite, Zenon
<1>2. PICK T \in B : \A U \in B : <<U, T>> \notin R
  <2> HIDE DEF R
  <2> QED BY <1>1, WFMin
<1> QED BY <1>2 DEF StrictSubsetOrdering

LEMMA SumsExist ==
  ASSUME NEW S, IsFiniteSet(S), NEW g \in [S -> Nat]
  PROVE  \E f : Sums(g, SUBSET S, f)
<1> DEFINE D(n) == {T \in SUBSET S : Cardinality(T) <= n}
           Has(n) == \E f : Sums(g, D(n), f)
           without == {n \in Nat : ~ Has(n)}
<1>1. \A T \in SUBSET S : IsFiniteSet(T) /\ Cardinality(T) \in Nat
  BY FS_Subset, FS_CardinalityType
<1>2. Has(0)
  <2>1. D(0) = {{}}
    BY <1>1, FS_EmptySet
  <2>2. Sums(g, D(0), [T \in D(0) |-> 0])
    BY <2>1 DEF Sums
  <2> QED BY <2>2
<1>3. ASSUME NEW n \in Nat, Has(n) PROVE Has(n + 1)
  <2>1. PICK f : Sums(g, D(n), f)
    BY <1>3
  <2> DEFINE c(T) == CHOOSE x \in T : TRUE
             h == [T \in D(n + 1) |-> IF T = {} THEN 0 ELSE g[c(T)] + f[T \ {c(T)}]]
  <2>2. ASSUME NEW T \in D(n + 1), T # {}
        PROVE  T \ {c(T)} \in D(n) /\ T \ {c(T)} \in D(n + 1)
    <3>1. c(T) \in T
      BY <2>2
    <3> HIDE DEF c
    <3>2. Cardinality(T \ {c(T)}) = Cardinality(T) - 1
      BY <1>1, <3>1, FS_RemoveElement
    <3> QED BY <1>1, <2>2, <3>2
  <2>3. \A T \in D(n) : h[T] = f[T]
    <3>1. \A T \in D(n) : T \in D(n + 1)
      BY <1>1
    <3> QED BY <2>1, <3>1 DEF Sums
  <2>4. \A T \in D(n + 1) : h[T] = IF T = {} THEN 0 ELSE g[c(T)] + h[T \ {c(T)}]
    <3> SUFFICES ASSUME NEW T \in D(n + 1)
                 PROVE  h[T] = IF T = {} THEN 0 ELSE g[c(T)] + h[T \ {c(T)}]
      OBVIOUS
    <3>1. CASE T = {}
      BY <3>1
    <3>2. CASE T # {}
      <4>1. h[T] = g[c(T)] + f[T \ {c(T)}]
        BY <3>2
      <4>2. h[T \ {c(T)}] = f[T \ {c(T)}]
        <5> HIDE DEF h, D
        <5> QED BY <2>2, <2>3, <3>2
      <4> QED BY <3>2, <4>1, <4>2
    <3> QED BY <3>1, <3>2
  <2>5. Sums(g, D(n + 1), h)
    <3>1. h = [T \in D(n + 1) |-> h[T]]
      OBVIOUS
    <3> HIDE DEF h, D
    <3> QED BY <2>4, <3>1 DEF Sums
  <2> QED BY <2>5
<1>4. Has(Cardinality(S))
  <2>1. SUFFICES ASSUME without # {} PROVE FALSE
    <3>1. Cardinality(S) \in Nat
      BY FS_CardinalityType
    <3> QED BY <2>1, <3>1
  <2> HIDE DEF Has
  <2> DEFINE i == Min(without)
  <2>2. i \in without /\ \A j \in without : i <= j
    <3>1. without \in SUBSET Nat
      OBVIOUS
    <3> HIDE DEF without
    <3> QED BY <2>1, <3>1, LeastExists
  <2> HIDE DEF i
  <2>3. i # 0 /\ i - 1 \in Nat /\ i - 1 \notin without
    BY <1>2, <2>2
  <2>4. Has(i - 1) => Has(i - 1 + 1)
    BY <1>3, <2>3
  <2> QED BY <2>2, <2>3, <2>4
<1>5. D(Cardinality(S)) = SUBSET S
  BY <1>1, FS_Subset
<1> QED BY <1>4, <1>5

\* The sums of g over the parts of S, which is finite.
SumsOf(g, S, f) == IsFiniteSet(S) /\ g \in [S -> Nat] /\ Sums(g, SUBSET S, f)

\* The sums are numbers, and any element may be taken out.
LEMMA SumsTyped ==
  ASSUME NEW S, NEW g, NEW f, SumsOf(g, S, f)
  PROVE  f \in [SUBSET S -> Nat]
<1> USE DEF SumsOf
<1> DEFINE c(T) == CHOOSE x \in T : TRUE
           B == {T \in SUBSET S : f[T] \notin Nat}
<1>1. SUFFICES ASSUME B # {} PROVE FALSE
  BY DEF Sums
<1>2. PICK T \in B : \A U \in B : U \subseteq T => U = T
  <2> B \in SUBSET SUBSET S
    OBVIOUS
  <2> HIDE DEF B
  <2> QED BY <1>1, LeastSet
<1>3. T # {} /\ f[T] = g[c(T)] + f[T \ {c(T)}]
  BY <1>2 DEF Sums
<1>4. c(T) \in T /\ c(T) \in S
  BY <1>2, <1>3
<1>5. f[T \ {c(T)}] \in Nat
  <2> HIDE DEF c
  <2> QED BY <1>2, <1>4
<1>6. g[c(T)] \in Nat
  BY <1>4
<1> HIDE DEF c
<1> QED BY <1>2, <1>3, <1>5, <1>6

LEMMA SumsWithout ==
  ASSUME NEW S, NEW g, NEW f, SumsOf(g, S, f), NEW A \in SUBSET S, NEW e \in A
  PROVE  f[A] = g[e] + f[A \ {e}]
<1> USE DEF SumsOf
<1> DEFINE c(T) == CHOOSE x \in T : TRUE
           Bad(T) == \E x \in T : f[T] # g[x] + f[T \ {x}]
           B == {T \in SUBSET S : Bad(T)}
<1>0. f \in [SUBSET S -> Nat]
  BY SumsTyped
<1>1. SUFFICES ASSUME B # {} PROVE FALSE
  OBVIOUS
<1>2. PICK T \in B : \A U \in B : U \subseteq T => U = T
  <2> B \in SUBSET SUBSET S
    OBVIOUS
  <2> HIDE DEF B
  <2> QED BY <1>1, LeastSet
<1>3. PICK x \in T : f[T] # g[x] + f[T \ {x}]
  BY <1>2
<1>4. f[T] = g[c(T)] + f[T \ {c(T)}] /\ c(T) \in T
  BY <1>2, <1>3 DEF Sums
<1> HIDE DEF c
<1>5. x # c(T) /\ x \in S /\ c(T) \in S
  BY <1>2, <1>3, <1>4
<1>6. f[T \ {c(T)}] = g[x] + f[T \ {c(T), x}]
  <2>1. ~ Bad(T \ {c(T)})
    <3> HIDE DEF Bad
    <3> QED BY <1>2, <1>4
  <2>2. x \in T \ {c(T)} /\ (T \ {c(T)}) \ {x} = T \ {c(T), x}
    BY <1>3, <1>5
  <2> QED BY <2>1, <2>2
<1>7. f[T \ {x}] = g[c(T)] + f[T \ {c(T), x}]
  <2>1. ~ Bad(T \ {x})
    <3> HIDE DEF Bad
    <3> QED BY <1>2, <1>3
  <2>2. c(T) \in T \ {x} /\ (T \ {x}) \ {c(T)} = T \ {c(T), x}
    BY <1>4, <1>5
  <2> QED BY <2>1, <2>2
<1>8. f[T \ {c(T), x}] \in Nat /\ g[x] \in Nat /\ g[c(T)] \in Nat
  BY <1>0, <1>2, <1>5
<1> QED BY <1>3, <1>4, <1>6, <1>7, <1>8

\* What two families of sums have in common.
LEMMA SumsAgree ==
  ASSUME NEW S, NEW g, NEW f, SumsOf(g, S, f), NEW A, NEW b, NEW h, SumsOf(b, A, h),
         A \subseteq S, \A k \in A : b[k] = g[k]
  PROVE  h[A] = f[A]
<1> USE DEF SumsOf
<1> DEFINE c(T) == CHOOSE x \in T : TRUE
           B == {T \in SUBSET A : h[T] # f[T]}
<1>1. SUFFICES ASSUME B # {} PROVE FALSE
  OBVIOUS
<1>2. PICK T \in B : \A U \in B : U \subseteq T => U = T
  <2>1. B \in SUBSET SUBSET A /\ IsFiniteSet(A)
    BY FS_Subset
  <2> HIDE DEF B
  <2> QED BY <1>1, <2>1, LeastSet
<1>3. T # {} /\ T \in SUBSET A /\ T \in SUBSET S
  BY <1>2 DEF Sums
<1>4. /\ c(T) \in T
      /\ f[T] = g[c(T)] + f[T \ {c(T)}] /\ h[T] = b[c(T)] + h[T \ {c(T)}]
  BY <1>3 DEF Sums
<1> HIDE DEF c
<1>5. h[T \ {c(T)}] = f[T \ {c(T)}]
  BY <1>2, <1>3, <1>4
<1> QED BY <1>2, <1>3, <1>4, <1>5

\* Total adds up one family of sums, the same for every part of S.
LEMMA TotalSums ==
  ASSUME NEW S, IsFiniteSet(S), NEW g \in [S -> Nat]
  PROVE  \E f : SumsOf(g, S, f) /\ Total(g) = f[S]
<1>1. \E f : Sums(g, SUBSET S, f)
  BY SumsExist
<1>2. PICK f : Sums(g, SUBSET S, f) /\ Total(g) = f[S]
  BY <1>1, TotalIsSum
<1> QED BY <1>2 DEF SumsOf

LEMMA TotalOf ==
  ASSUME NEW S, NEW g, NEW f, SumsOf(g, S, f), NEW A \in SUBSET S,
         NEW b \in [A -> Nat], \A k \in A : b[k] = g[k]
  PROVE  Total(b) = f[A]
<1>1. IsFiniteSet(A)
  BY FS_Subset DEF SumsOf
<1>2. PICK h : SumsOf(b, A, h) /\ Total(b) = h[A]
  BY <1>1, TotalSums
<1>3. h[A] = f[A]
  BY <1>2, SumsAgree
<1> QED BY <1>2, <1>3

LEMMA TotalTyped ==
  ASSUME NEW S, IsFiniteSet(S), NEW g \in [S -> Nat]
  PROVE  Total(g) \in Nat
<1>1. PICK f : SumsOf(g, S, f) /\ Total(g) = f[S]
  BY TotalSums
<1>2. f \in [SUBSET S -> Nat] /\ S \in SUBSET S
  BY <1>1, SumsTyped
<1> QED BY <1>1, <1>2

LEMMA TotalEmpty ==
  ASSUME NEW g \in [{} -> Nat]
  PROVE  Total(g) = 0
<1>1. IsFiniteSet({})
  BY FS_EmptySet
<1>2. PICK f : SumsOf(g, {}, f) /\ Total(g) = f[{}]
  BY <1>1, TotalSums
<1> QED BY <1>2 DEF SumsOf, Sums

\* b are the summands of g but the one of e.
But(S, g, e, b) ==
  /\ IsFiniteSet(S) /\ g \in [S -> Nat] /\ e \in S
  /\ b \in [S \ {e} -> Nat] /\ \A k \in S \ {e} : b[k] = g[k]

\* One summand is taken out.
LEMMA TotalWithout ==
  ASSUME NEW S, NEW g, NEW e, NEW b, But(S, g, e, b)
  PROVE  Total(g) = g[e] + Total(b)
<1> USE DEF But
<1>1. PICK f : SumsOf(g, S, f) /\ Total(g) = f[S]
  BY TotalSums
<1>2. S \in SUBSET S /\ S \ {e} \in SUBSET S
  OBVIOUS
<1>3. Total(b) = f[S \ {e}]
  BY <1>1, <1>2, TotalOf
<1>4. f[S] = g[e] + f[S \ {e}]
  BY <1>1, <1>2, SumsWithout
<1> QED BY <1>1, <1>3, <1>4

\* A sum does not depend on what its summands are called.
LEMMA TotalRenamed ==
  ASSUME NEW S, IsFiniteSet(S), NEW g \in [S -> Nat],
         NEW T, IsFiniteSet(T), NEW m \in Bijection(T, S)
  PROVE  Total([t \in T |-> g[m[t]]]) = Total(g)
<1> DEFINE b == [t \in T |-> g[m[t]]]
           Im(U) == {m[t] : t \in U}
<1>0. /\ m \in [T -> S] /\ \A t, u \in T : m[t] = m[u] => t = u
      /\ \A s \in S : \E t \in T : m[t] = s
  BY DEF Bijection, Injection, Surjection, IsInjective
<1>1. b \in [T -> Nat]
  BY <1>0
<1>2. PICK f : SumsOf(g, S, f) /\ Total(g) = f[S]
  BY TotalSums
<1>3. PICK h : SumsOf(b, T, h) /\ Total(b) = h[T]
  <2> HIDE DEF b
  <2> QED BY <1>1, TotalSums
<1> DEFINE B == {U \in SUBSET T : h[U] # f[Im(U)]}
<1>4. B = {}
  <2>1. SUFFICES ASSUME B # {} PROVE FALSE
    OBVIOUS
  <2>2. PICK U \in B : \A V \in B : V \subseteq U => V = U
    <3> B \in SUBSET SUBSET T
      OBVIOUS
    <3> HIDE DEF B
    <3> QED BY <2>1, LeastSet
  <2>3. CASE U = {}
    <3>1. Im(U) = {}
      BY <2>3
    <3> QED BY <1>2, <1>3, <2>2, <2>3, <3>1 DEF SumsOf, Sums
  <2>4. CASE U # {}
    <3>1. PICK t \in U : TRUE
      BY <2>4
    <3>2. h[U] = b[t] + h[U \ {t}]
      <4> HIDE DEF b
      <4> QED BY <1>1, <1>3, <2>2, <3>1, SumsWithout
    <3>3. Im(U) \in SUBSET S /\ m[t] \in Im(U) /\ Im(U \ {t}) = Im(U) \ {m[t]}
      BY <1>0, <2>2, <3>1
    <3>4. f[Im(U)] = g[m[t]] + f[Im(U \ {t})]
      <4> HIDE DEF Im
      <4>1. f[Im(U)] = g[m[t]] + f[Im(U) \ {m[t]}]
        BY <1>2, <3>3, SumsWithout
      <4> QED BY <3>3, <4>1
    <3>5. h[U \ {t}] = f[Im(U \ {t})]
      <4> HIDE DEF Im
      <4> QED BY <2>2, <3>1
    <3>6. b[t] = g[m[t]]
      BY <2>2, <3>1
    <3> QED BY <2>2, <3>2, <3>4, <3>5, <3>6
  <2> QED BY <2>3, <2>4
<1>5. h[T] = f[S]
  <2>1. Im(T) = S
    BY <1>0
  <2> HIDE DEF Im
  <2> QED BY <1>4, <2>1
<1> QED BY <1>2, <1>3, <1>5
-----------------------------------------------------------------------------
(* A quote, and the items of the list at which its rows are placed.        *)

\* What the listed rows cost.
Cost(items) == Total([n \in DOMAIN items |-> items[n].row.price])

\* Store s lists a row for each item of p, and its cost is theirs.
Listed(names, s, p, part) ==
  /\ IsInjective(p) /\ Len(part.items) = Len(p)
  /\ \A n \in DOMAIN p : part.items[n].row \in Service!MayList(s, names[p[n]])
  /\ part.cost = Cost(part.items)

\* The items of p are decided, and what the other store lists at q is listed or
\* a similar product is awaited for it.
Settled(s, p, q, undecided, awaited) ==
  /\ Range(p) \cap undecided = {} /\ Range(p) \cap awaited = {}
  /\ awaited \subseteq Range(q)
  /\ Candidates(s) # <<>> => Range(q) \subseteq Range(p) \cup awaited

\* Nothing was late: the rows are those that s offers, and no offer is missing.
InTime(names, s, p, part, undecided, awaited) ==
  /\ \A n \in DOMAIN p :
       Offers(s, names[p[n]]) /\ part.items[n].row = Offer(s, names[p[n]])
  /\ \A k \in DOMAIN names \ undecided :
       Offers(s, names[k]) => k \in Range(p) \cup awaited
  /\ \A k \in awaited : ~ Sells(s, names[k])

\* The decided items that no row is placed at.
Unlisted(names, place, undecided) ==
  {k \in DOMAIN names \ undecided : \A s \in Store : k \notin Range(place[s])}

Balanced(names, place, quotes, undecided, awaited) ==
  \A s \in Store :
    /\ Listed(names, s, place[s], quotes[s])
    /\ Settled(s, place[s], place[Other(s)], undecided, awaited[s])
    /\ quotes[s].unknown = Cardinality(Unlisted(names, place, undecided))

\* A quote of a list, the rows of which have places.
Quoting(names, place, quotes, undecided, awaited) ==
  /\ names \in Lists /\ quotes \in [Store -> Part]
  /\ place \in [Store -> Seq(DOMAIN names)]
  /\ undecided \subseteq DOMAIN names /\ awaited \in [Store -> SUBSET (DOMAIN names)]
  /\ Balanced(names, place, quotes, undecided, awaited)

LEMMA TwoStores ==
  /\ \A s \in Store : Other(s) \in Store /\ Other(s) # s /\ Other(Other(s)) = s
  /\ \A s, t \in Store : t = s \/ t = Other(s)
  BY DEF Store, Other

LEMMA ItemsFinite ==
  ASSUME NEW names \in Lists
  PROVE  /\ IsFiniteSet(DOMAIN names) /\ Cardinality(DOMAIN names) = Len(names)
         /\ \A U \in SUBSET (DOMAIN names) : IsFiniteSet(U) /\ Cardinality(U) \in Nat
<1>1. Len(names) \in Nat /\ DOMAIN names = 1 .. Len(names)
  BY ListLength
<1>2. IsFiniteSet(1 .. Len(names)) /\ Cardinality(1 .. Len(names)) = Len(names)
  <2>1. PICK N \in Nat : N = Len(names)
    BY <1>1
  <2>2. IsFiniteSet(1 .. N) /\ Cardinality(1 .. N) = IF 1 > N THEN 0 ELSE N - 1 + 1
    BY FS_Interval
  <2>3. Cardinality(1 .. N) = N
    BY <2>2
  <2> QED BY <2>1, <2>2, <2>3
<1>3. IsFiniteSet(DOMAIN names) /\ Cardinality(DOMAIN names) = Len(names)
  BY <1>1, <1>2
<1>4. \A U \in SUBSET (DOMAIN names) : IsFiniteSet(U) /\ Cardinality(U) \in Nat
  BY <1>3, FS_Subset, FS_CardinalityType
<1> QED BY <1>3, <1>4

\* The cost of one more row.
LEMMA CostAdded ==
  ASSUME NEW items \in Seq(Entry), NEW e \in Entry
  PROVE  Cost(Append(items, e)) = Cost(items) + e.row.price
<1> DEFINE more == Append(items, e)
           S == DOMAIN more
           g == [n \in S |-> more[n].row.price]
           b == [n \in DOMAIN items |-> items[n].row.price]
           l == Len(items) + 1
<1>1. /\ Len(items) \in Nat /\ S = 1 .. l /\ DOMAIN items = 1 .. Len(items)
      /\ more[l] = e /\ \A n \in DOMAIN items : more[n] = items[n]
  OBVIOUS
<1>2. \A x \in Entry : x.row.price \in Nat
  BY ScoreAssumption DEF Entry, Row
<1>3. more \in Seq(Entry)
  OBVIOUS
<1> HIDE DEF more
<1>4. g \in [S -> Nat] /\ b \in [DOMAIN items -> Nat]
  BY <1>2, <1>3
<1>c. Cost(items) = Total(b) /\ Cost(more) = Total(g)
  BY DEF Cost
<1>5. DOMAIN items = S \ {l} /\ l \in S /\ IsFiniteSet(S)
  <2>1. l \in Nat /\ IsFiniteSet(1 .. l)
    BY <1>1, FS_Interval
  <2> QED BY <1>1, <2>1
<1>6. g[l] = e.row.price /\ \A n \in S \ {l} : b[n] = g[n]
  BY <1>1, <1>5
<1> HIDE DEF S, g, b, l
<1>7. Total(g) = g[l] + Total(b)
  <2>1. b \in [S \ {l} -> Nat]
    BY <1>4, <1>5
  <2>2. \A n \in S \ {l} : b[n] = g[n]
    BY <1>6
  <2>3. IsFiniteSet(S) /\ g \in [S -> Nat] /\ l \in S
    BY <1>4, <1>5
  <2>4. But(S, g, l, b)
    BY <2>1, <2>2, <2>3 DEF But
  <2> QED BY <2>4, TotalWithout
<1>8. Total(b) \in Nat
  <2>1. IsFiniteSet(DOMAIN items)
    BY <1>5, FS_Subset
  <2> QED BY <1>4, <2>1, TotalTyped
<1>9. e.row.price \in Nat
  BY <1>2
<1> QED BY <1>c, <1>6, <1>7, <1>8, <1>9 DEF more

LEMMA RangeAppended ==
  ASSUME NEW S, NEW p \in Seq(S), NEW k \in S
  PROVE  Range(Append(p, k)) = Range(p) \cup {k}
<1> DEFINE q == Append(p, k)
<1>1. /\ DOMAIN q = DOMAIN p \cup {Len(p) + 1}
      /\ q[Len(p) + 1] = k /\ \A n \in DOMAIN p : q[n] = p[n]
  OBVIOUS
<1> HIDE DEF q
<1>2. Range(q) = Range(p) \cup {k}
  BY <1>1 DEF Range
<1> QED BY <1>2 DEF q

\* A row more is listed.
LEMMA ListedMore ==
  ASSUME NEW names \in Lists, NEW s \in Store, NEW p \in Seq(DOMAIN names),
         NEW part \in Part, Listed(names, s, p, part),
         NEW k \in DOMAIN names, k \notin Range(p),
         NEW row \in Row, row \in Service!MayList(s, names[k]), NEW bare \in BOOLEAN
  PROVE  /\ Append(p, k) \in Seq(DOMAIN names)
         /\ Range(Append(p, k)) = Range(p) \cup {k}
         /\ Listed(names, s, Append(p, k), Added(part, row, bare))
<1> DEFINE q == Append(p, k)
           e == [row |-> row, bare |-> bare]
<1>1. /\ q \in Seq(DOMAIN names) /\ Len(p) \in Nat /\ Len(q) = Len(p) + 1
      /\ DOMAIN p = 1 .. Len(p) /\ DOMAIN q = 1 .. Len(p) + 1
      /\ q[Len(p) + 1] = k /\ \A n \in DOMAIN p : q[n] = p[n]
  OBVIOUS
<1>2. \A n \in DOMAIN q : n \in DOMAIN p \/ n = Len(p) + 1
  BY <1>1
<1> HIDE DEF q
<1>3. Range(q) = Range(p) \cup {k}
  BY RangeAppended DEF q
<1>4. IsInjective(q)
  <2>1. \A n \in DOMAIN p : p[n] # k
    BY DEF Range
  <2> QED BY <1>1, <1>2, <2>1 DEF Listed, IsInjective
<1>5. /\ e \in Entry /\ part.items \in Seq(Entry) /\ part.cost \in Nat
      /\ e.row = row
  BY DEF Entry, Part
<1> DEFINE more == Added(part, row, bare)
<1>6. more.items = Append(part.items, e) /\ more.cost = part.cost + row.price
  BY DEF Added
<1>7. more.cost = Cost(more.items)
  BY <1>5, <1>6, CostAdded DEF Listed
<1>8. Len(more.items) = Len(q)
  BY <1>1, <1>5, <1>6 DEF Listed
<1>9. ASSUME NEW n \in DOMAIN q
      PROVE  more.items[n].row \in Service!MayList(s, names[q[n]])
  <2>1. CASE n \in DOMAIN p
    <3>1. n \in DOMAIN part.items /\ Append(part.items, e)[n] = part.items[n]
      BY <1>1, <1>5, <2>1 DEF Listed
    <3> QED BY <1>1, <1>6, <2>1, <3>1 DEF Listed
  <2>2. CASE n = Len(p) + 1
    <3>1. Append(part.items, e)[n] = e
      BY <1>5, <2>2 DEF Listed
    <3> QED BY <1>1, <1>5, <1>6, <2>2, <3>1
  <2> QED BY <1>2, <2>1, <2>2
<1> HIDE DEF more
<1>10. Listed(names, s, q, more)
  BY <1>4, <1>7, <1>8, <1>9 DEF Listed
<1> QED BY <1>1, <1>3, <1>10 DEF q, more

\* PriceService reads the tables as the server does.
LEMMA SameCatalog ==
  /\ Service!Store = Store
  /\ \A s, name : Service!Sells(s, name) <=> Sells(s, name)
  /\ \A s, name : Service!Offers(s, name) <=> Offers(s, name)
  /\ \A s, name : Service!Offer(s, name) = Offer(s, name)
  /\ \A name, rows : Service!MostSimilarRow(name, rows) = MostSimilarRow(name, rows)
  /\ \A name : Service!Matching(name) = Matching(name)
  /\ \A f : Service!Range(f) = Range(f)
  /\ \A f : Service!Total(f) = Total(f)
  /\ \A S : Service!Cardinality(S) = Cardinality(S)
<1>1. Service!Store = Store /\ \A s : Service!Other(s) = Other(s)
  BY DEF Service!Store, Store, Service!Other, Other
<1>2. /\ \A s, name : Service!Places(s, name) = Places(s, name)
      /\ \A s, name : Service!Sells(s, name) <=> Sells(s, name)
  BY DEF Service!Places, Places, Service!Sells, Sells
<1>3. \A s : Service!Candidates(s) = Candidates(s)
  BY DEF Service!Candidates, Candidates
<1>4. \A s, name : Service!Offers(s, name) <=> Offers(s, name)
  BY <1>1, <1>2, <1>3 DEF Service!Offers, Offers
<1>5. \A I : Service!Min(I) = Min(I)
  BY DEF Service!Min, Min
<1>6. \A name, rows : Service!MostSimilarRow(name, rows) = MostSimilarRow(name, rows)
  <2>1. \A name, rows : Service!Best(name, rows) = Best(name, rows)
    BY DEF Service!Best, Best
  <2> QED BY <1>5, <2>1 DEF Service!MostSimilarRow, MostSimilarRow
<1>7. \A s, places : Service!First(s, places) = First(s, places)
  BY <1>5 DEF Service!First, First
<1>8. \A s, name : Service!Offer(s, name) = Offer(s, name)
  BY <1>2, <1>3, <1>6, <1>7 DEF Service!Offer, Offer
<1>9. \A name : Service!Matching(name) = Matching(name)
  BY <1>1, <1>2 DEF Service!Matching, Matching
<1>10. \A f : Service!Range(f) = Range(f)
  BY DEF Service!Range, Range
<1>11. \A f : Service!Total(f) = Total(f)
  BY DEF Service!Total, Service!MapThenSumSet, Service!MapThenFoldSet,
         Total, MapThenSumSet, MapThenFoldSet
<1>12. \A S : Service!Cardinality(S) = Cardinality(S)
  BY DEF Service!Cardinality, Cardinality
<1> QED BY <1>1, <1>2, <1>4, <1>6, <1>8, <1>9, <1>10, <1>11, <1>12

\* What a store may list is a row of its table: its offer, or a product of
\* Walmart similar to one that both stores sell.
LEMMA MayListIs ==
  ASSUME NEW s \in Store, NEW name, NEW row
  PROVE  row \in Service!MayList(s, name) <=>
           /\ row \in Range(Table[s])
           /\ \/ Offers(s, name) /\ row = Offer(s, name)
              \/ /\ s = "Walmart" /\ \A t \in Store : Sells(t, name)
                 /\ row = MostSimilarRow(name, Table[s])
  BY SameCatalog DEF Service!MayList

LEMMA MayListRows ==
  ASSUME NEW s \in Store, NEW name, NEW row \in Service!MayList(s, name)
  PROVE  row \in Row
<1>1. Table[s] \in Seq(Row) /\ row \in Range(Table[s])
  BY CatalogAssumption, MayListIs
<1>2. PICK n \in DOMAIN Table[s] : row = Table[s][n]
  BY <1>1 DEF Range
<1> QED BY <1>1, <1>2

\* The places of a quote: those of undecided items and of items whose similar
\* product is awaited are free.
LEMMA Free ==
  ASSUME NEW names, NEW place, NEW quotes, NEW U, NEW A,
         Quoting(names, place, quotes, U, A)
  PROVE  /\ \A s \in Store : Range(place[s]) \cap U = {} /\ Range(place[s]) \cap A[s] = {}
         /\ \A s \in Store : A[s] \subseteq Range(place[Other(s)]) /\ A[s] \cap U = {}
         /\ \A s \in Store : Range(place[s]) \subseteq DOMAIN names
<1>1. \A s \in Store : Settled(s, place[s], place[Other(s)], U, A[s])
  BY DEF Quoting, Balanced
<1>2. \A s \in Store : place[s] \in Seq(DOMAIN names)
  BY DEF Quoting
<1>3. ASSUME NEW s \in Store PROVE Range(place[s]) \subseteq DOMAIN names
  <2>1. \A n \in DOMAIN place[s] : place[s][n] \in DOMAIN names
    BY <1>2
  <2> QED BY <2>1 DEF Range
<1>4. ASSUME NEW s \in Store
      PROVE  A[s] \subseteq Range(place[Other(s)]) /\ A[s] \cap U = {}
  <2>1. Settled(Other(s), place[Other(s)], place[s], U, A[Other(s)])
    BY <1>1, TwoStores
  <2> QED BY <1>1, <2>1 DEF Settled
<1> QED BY <1>1, <1>3, <1>4 DEF Settled

\* Store s may list a row for the item k.
Room(names, place, quotes, U, A, s, k) ==
  Quoting(names, place, quotes, U, A) /\ k \in DOMAIN names /\ k \in U \cup A[s]

\* What one more row for the item k makes of the places p and the part of s.
Grown(names, s, p, part, k, more) ==
  /\ Append(p, k) \in Seq(DOMAIN names)
  /\ Range(Append(p, k)) = Range(p) \cup {k}
  /\ more \in Part /\ more.unknown = part.unknown
  /\ Listed(names, s, Append(p, k), more)

LEMMA RowAdded ==
  ASSUME NEW names, NEW place, NEW quotes, NEW U, NEW A, NEW s \in Store, NEW k,
         Room(names, place, quotes, U, A, s, k),
         NEW row \in Service!MayList(s, names[k]), NEW bare \in BOOLEAN
  PROVE  Grown(names, s, place[s], quotes[s], k, Added(quotes[s], row, bare))
<1>1. names \in Lists /\ place[s] \in Seq(DOMAIN names) /\ quotes[s] \in Part
      /\ Listed(names, s, place[s], quotes[s]) /\ k \in DOMAIN names
  BY DEF Room, Quoting, Balanced
<1>2. k \notin Range(place[s]) /\ row \in Row
  BY Free, MayListRows DEF Room
<1> QED BY <1>1, <1>2, ListedMore, AddedPart DEF Grown

\* Both stores list the item.
PlacedInBoth(place, k) == [s \in Store |-> Append(place[s], k)]

AddedToBoth(quotes, rows, bare) == [s \in Store |-> Added(quotes[s], rows[s], bare)]

LEMMA BothListed ==
  ASSUME NEW names, NEW place, NEW quotes, NEW U, NEW A,
         Quoting(names, place, quotes, U, A), NEW k \in U, NEW rows,
         NEW bare \in BOOLEAN,
         \A s \in Store : rows[s] \in Service!MayList(s, names[k])
  PROVE  Quoting(names, PlacedInBoth(place, k), AddedToBoth(quotes, rows, bare),
                 U \ {k}, A)
<1> DEFINE pl == [s \in Store |-> Append(place[s], k)]
           qu == [s \in Store |-> Added(quotes[s], rows[s], bare)]
<1>1. k \in DOMAIN names
  BY DEF Quoting
<1>2. ASSUME NEW s \in Store
      PROVE  /\ pl[s] \in Seq(DOMAIN names) /\ Range(pl[s]) = Range(place[s]) \cup {k}
             /\ qu[s] \in Part /\ qu[s].unknown = quotes[s].unknown
             /\ Listed(names, s, pl[s], qu[s])
  <2>1. rows[s] \in Service!MayList(s, names[k])
    OBVIOUS
  <2>2. pl[s] = Append(place[s], k) /\ qu[s] = Added(quotes[s], rows[s], bare)
    OBVIOUS
  <2> HIDE DEF pl, qu
  <2>3. Room(names, place, quotes, U, A, s, k)
    BY <1>1 DEF Room
  <2>4. Grown(names, s, place[s], quotes[s], k, Added(quotes[s], rows[s], bare))
    BY <2>1, <2>3, RowAdded
  <2> QED BY <2>2, <2>4 DEF Grown
<1>3. pl \in [Store -> Seq(DOMAIN names)] /\ qu \in [Store -> Part]
  BY <1>2
<1> HIDE DEF pl, qu
<1>4. ASSUME NEW s \in Store
      PROVE  Settled(s, pl[s], pl[Other(s)], U \ {k}, A[s])
  <2>1. Settled(s, place[s], place[Other(s)], U, A[s])
    BY DEF Quoting, Balanced
  <2>2. k \notin A[s]
    BY Free
  <2>3. Range(pl[Other(s)]) = Range(place[Other(s)]) \cup {k}
    BY <1>2, TwoStores
  <2> QED BY <1>2, <2>1, <2>2, <2>3 DEF Settled
<1>5. Unlisted(names, pl, U \ {k}) = Unlisted(names, place, U)
  <2>1. \E s \in Store : TRUE
    BY DEF Store
  <2>2. \A s \in Store : k \in Range(pl[s])
    BY <1>2
  <2> QED BY <1>1, <1>2, <2>1, <2>2 DEF Unlisted
<1>6. Balanced(names, pl, qu, U \ {k}, A)
  BY <1>2, <1>4, <1>5 DEF Quoting, Balanced
<1>7. Quoting(names, pl, qu, U \ {k}, A)
  BY <1>3, <1>6 DEF Quoting
<1> QED BY <1>7 DEF pl, qu, PlacedInBoth, AddedToBoth

\* One store lists the item, and a similar product of the other is awaited.
LEMMA OneListed ==
  ASSUME NEW names, NEW place, NEW quotes, NEW U, NEW A,
         Quoting(names, place, quotes, U, A), NEW k \in U, NEW s \in Store,
         NEW row \in Service!MayList(s, names[k]), NEW bare \in BOOLEAN
  PROVE  Quoting(names, [place EXCEPT ![s] = Append(@, k)],
                 [quotes EXCEPT ![s] = Added(@, row, bare)], U \ {k},
                 [A EXCEPT ![Other(s)] = @ \cup {k}])
<1> DEFINE pl == [place EXCEPT ![s] = Append(@, k)]
           qu == [quotes EXCEPT ![s] = Added(@, row, bare)]
           aw == [A EXCEPT ![Other(s)] = @ \cup {k}]
           o == Other(s)
<1>1. /\ k \in DOMAIN names /\ quotes \in [Store -> Part]
      /\ place \in [Store -> Seq(DOMAIN names)] /\ A \in [Store -> SUBSET (DOMAIN names)]
  BY DEF Quoting
<1>2. /\ o \in Store /\ o # s /\ Other(o) = s /\ \A t \in Store : t = s \/ t = o
  BY TwoStores
<1>3. Grown(names, s, place[s], quotes[s], k, Added(quotes[s], row, bare))
  <2>1. Room(names, place, quotes, U, A, s, k)
    BY <1>1 DEF Room
  <2> QED BY <2>1, RowAdded
<1>4. /\ pl[s] = Append(place[s], k) /\ pl[o] = place[o]
      /\ qu[s] = Added(quotes[s], row, bare) /\ qu[o] = quotes[o]
      /\ aw[s] = A[s] /\ aw[o] = A[o] \cup {k}
  BY <1>1, <1>2
<1>5. /\ pl \in [Store -> Seq(DOMAIN names)] /\ qu \in [Store -> Part]
      /\ aw \in [Store -> SUBSET (DOMAIN names)]
  BY <1>1, <1>2, <1>3 DEF Grown
<1> HIDE DEF pl, qu, aw, o
<1>6. /\ Settled(s, place[s], place[o], U, A[s])
      /\ Settled(o, place[o], place[s], U, A[o])
  BY <1>2 DEF Quoting, Balanced, o
<1>7. /\ k \notin A[s] /\ k \notin A[o] /\ k \notin Range(place[s]) /\ k \notin Range(place[o])
  BY <1>2, Free
<1>8. /\ Settled(s, pl[s], pl[o], U \ {k}, aw[s])
      /\ Settled(o, pl[o], pl[s], U \ {k}, aw[o])
  BY <1>3, <1>4, <1>6, <1>7 DEF Settled, Grown
<1>9. Unlisted(names, pl, U \ {k}) = Unlisted(names, place, U)
  BY <1>1, <1>2, <1>3, <1>4 DEF Unlisted, Grown
<1>10. ASSUME NEW t \in Store
       PROVE  /\ Listed(names, t, pl[t], qu[t])
              /\ Settled(t, pl[t], pl[Other(t)], U \ {k}, aw[t])
              /\ qu[t].unknown = Cardinality(Unlisted(names, pl, U \ {k}))
  <2>1. CASE t = s
    BY <1>3, <1>4, <1>8, <1>9, <2>1 DEF Quoting, Balanced, o, Grown
  <2>2. CASE t = o
    BY <1>2, <1>4, <1>8, <1>9, <2>2 DEF Quoting, Balanced
  <2> QED BY <1>2, <2>1, <2>2
<1>11. Balanced(names, pl, qu, U \ {k}, aw)
  BY <1>10 DEF Balanced
<1>12. Quoting(names, pl, qu, U \ {k}, aw)
  BY <1>5, <1>11 DEF Quoting
<1> QED BY <1>12 DEF pl, qu, aw, o

\* The similar product that was awaited of s is listed.
LEMMA SimilarListed ==
  ASSUME NEW names, NEW place, NEW quotes, NEW U, NEW A,
         Quoting(names, place, quotes, U, A), NEW s \in Store, NEW k \in A[s],
         NEW row \in Service!MayList(s, names[k]), NEW bare \in BOOLEAN
  PROVE  Quoting(names, [place EXCEPT ![s] = Append(@, k)],
                 [quotes EXCEPT ![s] = Added(@, row, bare)], U,
                 [A EXCEPT ![s] = @ \ {k}])
<1> DEFINE pl == [place EXCEPT ![s] = Append(@, k)]
           qu == [quotes EXCEPT ![s] = Added(@, row, bare)]
           aw == [A EXCEPT ![s] = @ \ {k}]
           o == Other(s)
<1>1. /\ k \in DOMAIN names /\ quotes \in [Store -> Part]
      /\ place \in [Store -> Seq(DOMAIN names)] /\ A \in [Store -> SUBSET (DOMAIN names)]
  BY DEF Quoting
<1>2. /\ o \in Store /\ o # s /\ Other(o) = s /\ \A t \in Store : t = s \/ t = o
  BY TwoStores
<1>3. Grown(names, s, place[s], quotes[s], k, Added(quotes[s], row, bare))
  <2>1. Room(names, place, quotes, U, A, s, k)
    BY <1>1 DEF Room
  <2> QED BY <2>1, RowAdded
<1>4. /\ pl[s] = Append(place[s], k) /\ pl[o] = place[o]
      /\ qu[s] = Added(quotes[s], row, bare) /\ qu[o] = quotes[o]
      /\ aw[s] = A[s] \ {k} /\ aw[o] = A[o]
  BY <1>1, <1>2
<1>5. /\ pl \in [Store -> Seq(DOMAIN names)] /\ qu \in [Store -> Part]
      /\ aw \in [Store -> SUBSET (DOMAIN names)]
  BY <1>1, <1>2, <1>3 DEF Grown
<1> HIDE DEF pl, qu, aw, o
<1>6. /\ Settled(s, place[s], place[o], U, A[s])
      /\ Settled(o, place[o], place[s], U, A[o])
  BY <1>2 DEF Quoting, Balanced, o
<1>7. /\ k \notin U /\ k \notin Range(place[s]) /\ k \in Range(place[o])
  BY <1>2, Free DEF o
<1>8. /\ Settled(s, pl[s], pl[o], U, aw[s])
      /\ Settled(o, pl[o], pl[s], U, aw[o])
  BY <1>3, <1>4, <1>6, <1>7 DEF Settled, Grown
<1>9. Unlisted(names, pl, U) = Unlisted(names, place, U)
  BY <1>1, <1>2, <1>3, <1>4, <1>7 DEF Unlisted, Grown
<1>10. ASSUME NEW t \in Store
       PROVE  /\ Listed(names, t, pl[t], qu[t])
              /\ Settled(t, pl[t], pl[Other(t)], U, aw[t])
              /\ qu[t].unknown = Cardinality(Unlisted(names, pl, U))
  <2>1. CASE t = s
    BY <1>3, <1>4, <1>8, <1>9, <2>1 DEF Quoting, Balanced, o, Grown
  <2>2. CASE t = o
    BY <1>2, <1>4, <1>8, <1>9, <2>2 DEF Quoting, Balanced
  <2> QED BY <1>2, <2>1, <2>2
<1>11. Balanced(names, pl, qu, U, aw)
  BY <1>10 DEF Balanced
<1>12. Quoting(names, pl, qu, U, aw)
  BY <1>5, <1>11 DEF Quoting
<1> QED BY <1>12 DEF pl, qu, aw, o

\* There is nothing that a similar product could be chosen from.
LEMMA SimilarMissing ==
  ASSUME NEW names, NEW place, NEW quotes, NEW U, NEW A,
         Quoting(names, place, quotes, U, A), NEW s \in Store, NEW k \in A[s],
         Candidates(s) = <<>>
  PROVE  Quoting(names, place, quotes, U, [A EXCEPT ![s] = @ \ {k}])
<1> DEFINE aw == [A EXCEPT ![s] = @ \ {k}]
<1>1. A \in [Store -> SUBSET (DOMAIN names)]
  BY DEF Quoting
<1>2. aw \in [Store -> SUBSET (DOMAIN names)]
  BY <1>1
<1>3. aw[s] = A[s] \ {k} /\ \A t \in Store : t # s => aw[t] = A[t]
  BY <1>1
<1> HIDE DEF aw
<1>4. ASSUME NEW t \in Store
      PROVE  Settled(t, place[t], place[Other(t)], U, aw[t])
  <2>1. Settled(t, place[t], place[Other(t)], U, A[t])
    BY DEF Quoting, Balanced
  <2>2. CASE t = s
    BY <1>3, <2>1, <2>2 DEF Settled
  <2>3. CASE t # s
    BY <1>3, <2>1, <2>3
  <2> QED BY <2>2, <2>3
<1>5. Balanced(names, place, quotes, U, aw)
  BY <1>4 DEF Quoting, Balanced
<1>6. Quoting(names, place, quotes, U, aw)
  BY <1>2, <1>5 DEF Quoting
<1> QED BY <1>6 DEF aw

\* Neither store lists the item.
LEMMA NoneListed ==
  ASSUME NEW names, NEW place, NEW quotes, NEW U, NEW A,
         Quoting(names, place, quotes, U, A), NEW k \in U
  PROVE  Quoting(names, place, [s \in Store |-> [quotes[s] EXCEPT !.unknown = @ + 1]],
                 U \ {k}, A)
<1> DEFINE qu == [s \in Store |-> [quotes[s] EXCEPT !.unknown = @ + 1]]
           old == Unlisted(names, place, U)
<1>1. /\ k \in DOMAIN names /\ quotes \in [Store -> Part] /\ names \in Lists
  BY DEF Quoting
<1>2. ASSUME NEW s \in Store
      PROVE  /\ qu[s] \in Part /\ qu[s].unknown = quotes[s].unknown + 1
             /\ qu[s].items = quotes[s].items /\ qu[s].cost = quotes[s].cost
  <2>1. quotes[s] \in Part /\ qu[s] = [quotes[s] EXCEPT !.unknown = @ + 1]
    BY <1>1
  <2> HIDE DEF qu
  <2> QED BY <2>1 DEF Part
<1>3. qu \in [Store -> Part]
  BY <1>2
<1> HIDE DEF qu
<1>4. Unlisted(names, place, U \ {k}) = old \cup {k} /\ k \notin old
  BY <1>1, Free DEF Unlisted
<1>5. Cardinality(old \cup {k}) = Cardinality(old) + 1
  <2>1. old \in SUBSET (DOMAIN names)
    BY DEF Unlisted
  <2> HIDE DEF old
  <2> QED BY <1>1, <1>4, <2>1, ItemsFinite, FS_AddElement
<1> HIDE DEF old
<1>6. ASSUME NEW s \in Store
      PROVE  /\ Listed(names, s, place[s], qu[s])
             /\ Settled(s, place[s], place[Other(s)], U \ {k}, A[s])
             /\ qu[s].unknown = Cardinality(Unlisted(names, place, U \ {k}))
  <2>1. /\ Listed(names, s, place[s], quotes[s])
        /\ Settled(s, place[s], place[Other(s)], U, A[s])
        /\ quotes[s].unknown = Cardinality(old)
    BY DEF Quoting, Balanced, old
  <2>2. Listed(names, s, place[s], qu[s])
    BY <1>2, <2>1 DEF Listed
  <2>3. Settled(s, place[s], place[Other(s)], U \ {k}, A[s])
    BY <2>1 DEF Settled
  <2> QED BY <1>2, <1>4, <1>5, <2>1, <2>2, <2>3
<1>7. Balanced(names, place, qu, U \ {k}, A)
  BY <1>6 DEF Balanced
<1>8. Quoting(names, place, qu, U \ {k}, A)
  BY <1>3, <1>7 DEF Quoting
<1> QED BY <1>8 DEF qu

\* Every store is in time.
Timely(names, place, quotes, U, A) ==
  \A s \in Store : InTime(names, s, place[s], quotes[s], U, A[s])

\* A row that s offers for the item k.
LEMMA RowInTime ==
  ASSUME NEW names, NEW s \in Store, NEW p \in Seq(DOMAIN names), NEW part \in Part,
         Listed(names, s, p, part), NEW U, NEW A, InTime(names, s, p, part, U, A),
         NEW k \in DOMAIN names, Offers(s, names[k]), NEW bare \in BOOLEAN,
         NEW U2, NEW A2, U \ {k} \subseteq U2, A2 \subseteq A, A \subseteq A2 \cup {k}
  PROVE  InTime(names, s, Append(p, k), Added(part, Offer(s, names[k]), bare), U2, A2)
<1> DEFINE q == Append(p, k)
           e == [row |-> Offer(s, names[k]), bare |-> bare]
           more == Added(part, Offer(s, names[k]), bare)
<1>1. Range(q) = Range(p) \cup {k}
  BY RangeAppended
<1>2. /\ more.items = Append(part.items, e) /\ part.items \in Seq(Entry)
      /\ e.row = Offer(s, names[k]) /\ Len(part.items) = Len(p)
  BY DEF Added, Part, Listed
<1>3. ASSUME NEW n \in DOMAIN q
      PROVE  Offers(s, names[q[n]]) /\ more.items[n].row = Offer(s, names[q[n]])
  <2>1. Len(p) \in Nat /\ DOMAIN p = 1 .. Len(p) /\ DOMAIN q = 1 .. Len(p) + 1
    OBVIOUS
  <2>2. CASE n \in DOMAIN p
    <3>1. q[n] = p[n] /\ Append(part.items, e)[n] = part.items[n]
      BY <1>2, <2>1, <2>2
    <3> HIDE DEF q, more, e
    <3> QED BY <1>2, <2>2, <3>1 DEF InTime
  <2>3. CASE n = Len(p) + 1
    <3>1. q[n] = k /\ Append(part.items, e)[n] = e
      BY <1>2, <2>1, <2>3
    <3> HIDE DEF q, more, e
    <3> QED BY <1>2, <3>1
  <2> QED BY <2>1, <2>2, <2>3
<1> HIDE DEF q, more, e
<1>4. \A j \in DOMAIN names \ U2 : Offers(s, names[j]) => j \in Range(q) \cup A2
  BY <1>1 DEF InTime
<1>5. InTime(names, s, q, more, U2, A2)
  BY <1>3, <1>4 DEF InTime
<1> QED BY <1>5 DEF q, more

LEMMA BothInTime ==
  ASSUME NEW names, NEW place, NEW quotes, NEW U, NEW A,
         Quoting(names, place, quotes, U, A), Timely(names, place, quotes, U, A),
         NEW k \in U, NEW rows, NEW bare \in BOOLEAN,
         \A s \in Store : Offers(s, names[k]) /\ rows[s] = Offer(s, names[k])
  PROVE  Timely(names, PlacedInBoth(place, k), AddedToBoth(quotes, rows, bare),
                U \ {k}, A)
<1>1. k \in DOMAIN names
  BY DEF Quoting
<1>2. ASSUME NEW s \in Store
      PROVE  InTime(names, s, Append(place[s], k), Added(quotes[s], rows[s], bare),
                    U \ {k}, A[s])
  <2>1. /\ place[s] \in Seq(DOMAIN names) /\ quotes[s] \in Part
        /\ Listed(names, s, place[s], quotes[s])
        /\ InTime(names, s, place[s], quotes[s], U, A[s])
    BY DEF Quoting, Balanced, Timely
  <2>2. /\ U \ {k} \subseteq U \ {k} /\ A[s] \subseteq A[s] /\ A[s] \subseteq A[s] \cup {k}
        /\ Offers(s, names[k])
    OBVIOUS
  <2>3. InTime(names, s, Append(place[s], k),
               Added(quotes[s], Offer(s, names[k]), bare), U \ {k}, A[s])
    BY <1>1, <2>1, <2>2, RowInTime
  <2> QED BY <2>3
<1> QED BY <1>2 DEF Timely, PlacedInBoth, AddedToBoth

LEMMA OneInTime ==
  ASSUME NEW names, NEW place, NEW quotes, NEW U, NEW A,
         Quoting(names, place, quotes, U, A), Timely(names, place, quotes, U, A),
         NEW k \in U, NEW s \in Store, NEW bare \in BOOLEAN,
         Sells(s, names[k]), ~ Sells(Other(s), names[k])
  PROVE  Timely(names, [place EXCEPT ![s] = Append(@, k)],
                [quotes EXCEPT ![s] = Added(@, Offer(s, names[k]), bare)], U \ {k},
                [A EXCEPT ![Other(s)] = @ \cup {k}])
<1> DEFINE pl == [place EXCEPT ![s] = Append(@, k)]
           qu == [quotes EXCEPT ![s] = Added(@, Offer(s, names[k]), bare)]
           aw == [A EXCEPT ![Other(s)] = @ \cup {k}]
           o == Other(s)
<1>1. /\ k \in DOMAIN names /\ quotes \in [Store -> Part]
      /\ place \in [Store -> Seq(DOMAIN names)] /\ A \in [Store -> SUBSET (DOMAIN names)]
  BY DEF Quoting
<1>2. o \in Store /\ o # s /\ \A t \in Store : t = s \/ t = o
  BY TwoStores
<1>3. /\ pl[s] = Append(place[s], k) /\ pl[o] = place[o]
      /\ qu[s] = Added(quotes[s], Offer(s, names[k]), bare) /\ qu[o] = quotes[o]
      /\ aw[s] = A[s] /\ aw[o] = A[o] \cup {k}
  BY <1>1, <1>2
<1>4. /\ place[s] \in Seq(DOMAIN names) /\ quotes[s] \in Part
      /\ Listed(names, s, place[s], quotes[s])
      /\ InTime(names, s, place[s], quotes[s], U, A[s])
      /\ InTime(names, o, place[o], quotes[o], U, A[o])
  BY <1>1, <1>2 DEF Quoting, Balanced, Timely
<1> HIDE DEF pl, qu, aw, o
<1>5. InTime(names, s, pl[s], qu[s], U \ {k}, aw[s])
  <2>1. /\ U \ {k} \subseteq U \ {k} /\ A[s] \subseteq A[s] /\ A[s] \subseteq A[s] \cup {k}
        /\ Offers(s, names[k])
    BY DEF Offers
  <2> QED BY <1>1, <1>3, <1>4, <2>1, RowInTime
<1>6. InTime(names, o, pl[o], qu[o], U \ {k}, aw[o])
  BY <1>3, <1>4 DEF InTime, o
<1>7. Timely(names, pl, qu, U \ {k}, aw)
  BY <1>2, <1>5, <1>6 DEF Timely
<1> QED BY <1>7 DEF pl, qu, aw, o

LEMMA SimilarInTime ==
  ASSUME NEW names, NEW place, NEW quotes, NEW U, NEW A,
         Quoting(names, place, quotes, U, A), Timely(names, place, quotes, U, A),
         NEW s \in Store, NEW k \in A[s], NEW bare \in BOOLEAN,
         Candidates(s) # <<>>, Sells(Other(s), names[k])
  PROVE  Timely(names, [place EXCEPT ![s] = Append(@, k)],
                [quotes EXCEPT ![s] =
                   Added(@, MostSimilarRow(names[k], Candidates(s)), bare)],
                U, [A EXCEPT ![s] = @ \ {k}])
<1> DEFINE row == MostSimilarRow(names[k], Candidates(s))
           pl == [place EXCEPT ![s] = Append(@, k)]
           qu == [quotes EXCEPT ![s] = Added(@, row, bare)]
           aw == [A EXCEPT ![s] = @ \ {k}]
<1>1. /\ k \in DOMAIN names /\ quotes \in [Store -> Part]
      /\ place \in [Store -> Seq(DOMAIN names)] /\ A \in [Store -> SUBSET (DOMAIN names)]
  BY DEF Quoting
<1>2. /\ place[s] \in Seq(DOMAIN names) /\ quotes[s] \in Part
      /\ Listed(names, s, place[s], quotes[s])
      /\ InTime(names, s, place[s], quotes[s], U, A[s])
  BY <1>1 DEF Quoting, Balanced, Timely
<1>3. Offers(s, names[k]) /\ row = Offer(s, names[k])
  BY <1>2 DEF InTime, Offers, Offer
<1> HIDE DEF row
<1>4. /\ pl[s] = Append(place[s], k) /\ qu[s] = Added(quotes[s], row, bare)
      /\ aw[s] = A[s] \ {k}
      /\ \A t \in Store : t # s => pl[t] = place[t] /\ qu[t] = quotes[t] /\ aw[t] = A[t]
  BY <1>1
<1> HIDE DEF pl, qu, aw
<1>5. InTime(names, s, pl[s], qu[s], U, aw[s])
  <2>1. U \ {k} \subseteq U /\ aw[s] \subseteq A[s] /\ A[s] \subseteq aw[s] \cup {k}
    BY <1>4
  <2>2. InTime(names, s, Append(place[s], k),
               Added(quotes[s], Offer(s, names[k]), bare), U, aw[s])
    BY <1>1, <1>2, <1>3, <2>1, RowInTime
  <2> QED BY <1>3, <1>4, <2>2
<1>6. \A t \in Store : t # s => InTime(names, t, pl[t], qu[t], U, aw[t])
  BY <1>4 DEF Timely
<1>7. Timely(names, pl, qu, U, aw)
  BY <1>5, <1>6 DEF Timely
<1> QED BY <1>7 DEF pl, qu, aw, row

\* What cannot be replaced is not offered.
LEMMA MissingInTime ==
  ASSUME NEW names, NEW place, NEW quotes, NEW U, NEW A,
         Quoting(names, place, quotes, U, A), Timely(names, place, quotes, U, A),
         NEW s \in Store, NEW k \in A[s], Candidates(s) = <<>>
  PROVE  Timely(names, place, quotes, U, [A EXCEPT ![s] = @ \ {k}])
<1> DEFINE aw == [A EXCEPT ![s] = @ \ {k}]
<1>1. aw[s] = A[s] \ {k} /\ \A t \in Store : t # s => aw[t] = A[t]
  BY DEF Quoting
<1> HIDE DEF aw
<1>2. InTime(names, s, place[s], quotes[s], U, A[s])
  BY DEF Timely
<1>3. ~ Offers(s, names[k])
  BY <1>2 DEF InTime, Offers
<1>4. InTime(names, s, place[s], quotes[s], U, aw[s])
  BY <1>1, <1>2, <1>3 DEF InTime
<1>5. Timely(names, place, quotes, U, aw)
  BY <1>1, <1>4 DEF Timely
<1> QED BY <1>5 DEF aw

LEMMA NoneInTime ==
  ASSUME NEW names, NEW place, NEW quotes, NEW U, NEW A,
         Quoting(names, place, quotes, U, A), Timely(names, place, quotes, U, A),
         NEW k \in U, \A s \in Store : ~ Sells(s, names[k])
  PROVE  Timely(names, place, [s \in Store |-> [quotes[s] EXCEPT !.unknown = @ + 1]],
                U \ {k}, A)
<1> DEFINE qu == [s \in Store |-> [quotes[s] EXCEPT !.unknown = @ + 1]]
<1>1. \A s \in Store : qu[s].items = quotes[s].items
  BY DEF Quoting, Part
<1> HIDE DEF qu
<1>2. \A s \in Store : ~ Offers(s, names[k])
  BY TwoStores DEF Offers
<1>3. \A s \in Store : InTime(names, s, place[s], qu[s], U \ {k}, A[s])
  BY <1>1, <1>2 DEF Timely, InTime
<1>4. Timely(names, place, qu, U \ {k}, A)
  BY <1>3 DEF Timely
<1> QED BY <1>4 DEF qu

(***************************************************************************)
(* What the places of a quote say of its counts and its cost.              *)
(***************************************************************************)

\* Disjoint parts of a finite set.
Apart(S, W, X, Y, Z) ==
  /\ IsFiniteSet(S) /\ (W \cup X \cup Y \cup Z) \subseteq S
  /\ W \cap X = {} /\ (W \cup X) \cap Y = {} /\ (W \cup X \cup Y) \cap Z = {}

LEMMA FourParts ==
  ASSUME NEW S, NEW W, NEW X, NEW Y, NEW Z, Apart(S, W, X, Y, Z)
  PROVE  /\ Cardinality(W) + Cardinality(X) + Cardinality(Y) + Cardinality(Z)
              <= Cardinality(S)
         /\ S = W \cup X \cup Y \cup Z =>
              Cardinality(W) + Cardinality(X) + Cardinality(Y) + Cardinality(Z)
              = Cardinality(S)
<1> USE DEF Apart
<1>1. \A T \in SUBSET S : /\ IsFiniteSet(T) /\ Cardinality(T) \in Nat
                          /\ Cardinality(T) <= Cardinality(S)
  BY FS_Subset, FS_CardinalityType
<1>2. \A T, V \in SUBSET S :
        T \cap V = {} => Cardinality(T \cup V) = Cardinality(T) + Cardinality(V)
  <2> SUFFICES ASSUME NEW T \in SUBSET S, NEW V \in SUBSET S, T \cap V = {}
               PROVE  Cardinality(T \cup V) = Cardinality(T) + Cardinality(V)
    OBVIOUS
  <2>1. Cardinality(T \cap V) = 0
    BY FS_EmptySet
  <2>2. IsFiniteSet(T) /\ IsFiniteSet(V) /\ Cardinality(T) \in Nat /\ Cardinality(V) \in Nat
    BY <1>1
  <2>3. Cardinality(T \cup V) = Cardinality(T) + Cardinality(V) - Cardinality(T \cap V)
    BY <2>2, FS_Union
  <2> QED BY <2>1, <2>2, <2>3
<1>3. Cardinality(W \cup X) = Cardinality(W) + Cardinality(X)
  BY <1>2
<1>4. Cardinality((W \cup X) \cup Y) = Cardinality(W \cup X) + Cardinality(Y)
  BY <1>2
<1>5. Cardinality((W \cup X \cup Y) \cup Z) = Cardinality(W \cup X \cup Y) + Cardinality(Z)
  BY <1>2
<1>6. Cardinality((W \cup X \cup Y) \cup Z) <= Cardinality(S)
  BY <1>1
<1>7. /\ Cardinality(W) \in Nat /\ Cardinality(X) \in Nat
      /\ Cardinality(Y) \in Nat /\ Cardinality(Z) \in Nat
  BY <1>1
<1> QED BY <1>3, <1>4, <1>5, <1>6, <1>7

\* An item per row.
LEMMA PlacesCounted ==
  ASSUME NEW names \in Lists, NEW p \in Seq(DOMAIN names), IsInjective(p)
  PROVE  /\ p \in Bijection(DOMAIN p, Range(p)) /\ Range(p) \in SUBSET (DOMAIN names)
         /\ IsFiniteSet(DOMAIN p) /\ Cardinality(Range(p)) = Len(p)
<1>1. Len(p) \in Nat /\ DOMAIN p = 1 .. Len(p)
  OBVIOUS
<1>2. IsFiniteSet(DOMAIN p) /\ Cardinality(DOMAIN p) = Len(p)
  <2>1. PICK N \in Nat : N = Len(p)
    BY <1>1
  <2>2. IsFiniteSet(1 .. N) /\ Cardinality(1 .. N) = IF 1 > N THEN 0 ELSE N - 1 + 1
    BY FS_Interval
  <2>3. Cardinality(1 .. N) = N
    BY <2>2
  <2> QED BY <1>1, <2>1, <2>2, <2>3
<1>3. p \in Bijection(DOMAIN p, Range(p))
  BY DEF Bijection, Injection, Surjection, Range, IsInjective
<1>4. Range(p) \in SUBSET (DOMAIN names)
  <2>1. \A n \in DOMAIN p : p[n] \in DOMAIN names
    OBVIOUS
  <2> QED BY <2>1 DEF Range
<1>5. Cardinality(Range(p)) = Cardinality(DOMAIN p)
  BY <1>2, <1>3, FS_Bijection DEF ExistsBijection
<1> QED BY <1>2, <1>3, <1>4, <1>5

\* Every item is counted once.
LEMMA ItemsCounted ==
  ASSUME NEW names, NEW place, NEW quotes, NEW U, NEW A,
         Quoting(names, place, quotes, U, A), NEW s \in Store
  PROVE  LET count == Cardinality(U) + Len(quotes[s].items)
                      + quotes["Walmart"].unknown + Cardinality(A[s])
         IN count <= Len(names) /\ (Candidates(s) # <<>> => count = Len(names))
<1> DEFINE D == DOMAIN names
           P == Range(place[s])
           N == Unlisted(names, place, U)
<1>1. /\ names \in Lists /\ U \in SUBSET D /\ A[s] \in SUBSET D
      /\ place[s] \in Seq(D) /\ "Walmart" \in Store
  BY DEF Quoting, Store
<1>2. /\ Listed(names, s, place[s], quotes[s])
      /\ Settled(s, place[s], place[Other(s)], U, A[s])
      /\ quotes["Walmart"].unknown = Cardinality(N)
  BY <1>1 DEF Quoting, Balanced
<1>3. P \in SUBSET D /\ Cardinality(P) = Len(quotes[s].items)
  BY <1>1, <1>2, PlacesCounted DEF Listed
<1>4. N \in SUBSET D
  BY DEF Unlisted
<1>5. Other(s) \in Store /\ \A t \in Store : t = s \/ t = Other(s)
  BY TwoStores
<1>6. U \cap P = {} /\ (U \cup P) \cap N = {} /\ (U \cup P \cup N) \cap A[s] = {}
  <2>1. U \cap P = {} /\ P \cap A[s] = {} /\ A[s] \cap U = {}
        /\ A[s] \subseteq Range(place[Other(s)])
    BY Free
  <2>2. \A k \in N : k \notin U /\ k \notin P /\ k \notin Range(place[Other(s)])
    BY <1>5 DEF Unlisted
  <2> HIDE DEF P, N
  <2> QED BY <2>1, <2>2
<1>7. Candidates(s) # <<>> => D = U \cup P \cup N \cup A[s]
  <2> SUFFICES ASSUME Candidates(s) # <<>>, NEW k \in D, k \notin U, k \notin P, k \notin N
               PROVE  k \in A[s]
    BY <1>1, <1>3, <1>4
  <2>1. k \in Range(place[Other(s)])
    BY <1>5 DEF Unlisted
  <2> QED BY <1>2, <2>1 DEF Settled
<1>8. IsFiniteSet(D) /\ Cardinality(D) = Len(names)
  BY <1>1, ItemsFinite
<1> HIDE DEF D, P, N
<1>9. /\ Cardinality(U) + Cardinality(P) + Cardinality(N) + Cardinality(A[s])
           <= Cardinality(D)
      /\ D = U \cup P \cup N \cup A[s] =>
           Cardinality(U) + Cardinality(P) + Cardinality(N) + Cardinality(A[s])
           = Cardinality(D)
  <2>1. Apart(D, U, P, N, A[s])
    BY <1>1, <1>3, <1>4, <1>6, <1>8 DEF Apart
  <2> QED BY <2>1, FourParts
<1> QED BY <1>2, <1>3, <1>7, <1>8, <1>9

\* A reply that says of store s what the tables do (TimelyReply).
Truthful(names, s, told) ==
  LET offered == {k \in DOMAIN names : Offers(s, names[k])}
  IN /\ \A row \in Row :
          Cardinality({k \in DOMAIN told.items : told.items[k].row = row})
          = Cardinality({k \in offered : Offer(s, names[k]) = row})
     /\ told.cost = Total([k \in offered |-> Offer(s, names[k]).price])
     /\ told.unknown =
          Cardinality({k \in DOMAIN names : \A t \in Store : ~ Sells(t, names[k])})

\* All items are decided and no similar product is awaited.
Complete(names, place, quotes, U, A) ==
  /\ Quoting(names, place, quotes, U, A) /\ Timely(names, place, quotes, U, A)
  /\ U = {} /\ \A s \in Store : A[s] = {}

LEMMA AllOffered ==
  ASSUME NEW names, NEW place, NEW quotes, NEW U, NEW A,
         Complete(names, place, quotes, U, A), NEW s \in Store
  PROVE  /\ Range(place[s]) = {k \in DOMAIN names : Offers(s, names[k])}
         /\ \A n \in DOMAIN place[s] :
              quotes[s].items[n].row = Offer(s, names[place[s][n]])
<1>1. InTime(names, s, place[s], quotes[s], U, A[s])
  BY DEF Complete, Timely
<1>2. Range(place[s]) \subseteq DOMAIN names
  BY Free DEF Complete
<1>3. \A k \in Range(place[s]) : Offers(s, names[k])
  BY <1>1 DEF InTime, Range
<1>4. \A k \in DOMAIN names : Offers(s, names[k]) => k \in Range(place[s])
  BY <1>1 DEF InTime, Complete
<1> QED BY <1>1, <1>2, <1>3, <1>4 DEF InTime

LEMMA CompleteIsTruthful ==
  ASSUME NEW names, NEW place, NEW quotes, NEW U, NEW A,
         Complete(names, place, quotes, U, A), NEW s \in Store, NEW told,
         DOMAIN told.items = DOMAIN quotes[s].items,
         \A n \in DOMAIN quotes[s].items : told.items[n].row = quotes[s].items[n].row,
         told.cost = quotes[s].cost, told.unknown = quotes["Walmart"].unknown
  PROVE  Truthful(names, s, told)
<1> DEFINE p == place[s]
           items == quotes[s].items
           offered == {k \in DOMAIN names : Offers(s, names[k])}
<1>1. /\ names \in Lists /\ p \in Seq(DOMAIN names) /\ quotes[s] \in Part
      /\ Listed(names, s, p, quotes[s]) /\ IsInjective(p) /\ "Walmart" \in Store
  BY DEF Complete, Quoting, Balanced, Listed, Store
<1>2. Range(p) = offered /\ \A n \in DOMAIN p : items[n].row = Offer(s, names[p[n]])
  BY AllOffered
<1>3. DOMAIN items = DOMAIN p
  <2>1. items \in Seq(Entry) /\ Len(items) = Len(p)
    BY <1>1 DEF Part, Listed
  <2> QED BY <1>1, <2>1
<1>4. /\ p \in Bijection(DOMAIN p, Range(p)) /\ IsFiniteSet(DOMAIN p)
      /\ IsFiniteSet(Range(p))
  BY <1>1, PlacesCounted, ItemsFinite
<1>5. ASSUME NEW row \in Row
      PROVE  Cardinality({k \in DOMAIN told.items : told.items[k].row = row})
             = Cardinality({k \in offered : Offer(s, names[k]) = row})
  <2> DEFINE B == {n \in DOMAIN p : items[n].row = row}
             C == {k \in offered : Offer(s, names[k]) = row}
             m == [n \in B |-> p[n]]
  <2>1. B = {k \in DOMAIN told.items : told.items[k].row = row}
    BY <1>3
  <2>2. IsFiniteSet(B)
    BY <1>4, FS_Subset
  <2>3. m \in Bijection(B, C)
    <3>1. \A n \in B : m[n] \in C
      BY <1>2 DEF Range
    <3>2. \A a, b \in B : m[a] = m[b] => a = b
      BY <1>1 DEF IsInjective
    <3>3. \A k \in C : \E n \in B : m[n] = k
      <4> SUFFICES ASSUME NEW k \in C PROVE \E n \in B : m[n] = k
        OBVIOUS
      <4>1. PICK n \in DOMAIN p : p[n] = k
        BY <1>2 DEF Range
      <4>2. n \in B
        BY <1>2, <4>1
      <4> QED BY <4>1, <4>2
    <3>4. m \in [B -> C] /\ DOMAIN m = B
      BY <3>1
    <3> HIDE DEF m, B, C
    <3> QED BY <3>2, <3>3, <3>4 DEF Bijection, Injection, Surjection, IsInjective
  <2> HIDE DEF B, C, m
  <2>4. Cardinality(C) = Cardinality(B)
    BY <2>2, <2>3, FS_Bijection DEF ExistsBijection
  <2> QED BY <2>1, <2>4 DEF C
<1>6. told.cost = Total([k \in offered |-> Offer(s, names[k]).price])
  <2> DEFINE g == [k \in offered |-> Offer(s, names[k]).price]
             b == [n \in DOMAIN p |-> g[p[n]]]
  <2>1. ASSUME NEW k \in offered PROVE Offer(s, names[k]).price \in Nat
    <3>1. PICK n \in DOMAIN p : p[n] = k
      BY <1>2 DEF Range
    <3>2. items \in Seq(Entry)
      BY <1>1 DEF Part
    <3>3. items[n].row \in Row
      <4>1. items[n] \in Entry
        <5> HIDE DEF items
        <5> QED BY <1>3, <3>1, <3>2
      <4> QED BY <4>1 DEF Entry
    <3>4. \A x \in Row : x.price \in Nat
      BY ScoreAssumption DEF Row
    <3>5. Offer(s, names[k]) = items[n].row
      BY <1>2, <3>1
    <3> QED BY <3>3, <3>4, <3>5
  <2>2. g \in [Range(p) -> Nat]
    BY <1>2, <2>1
  <2>3. [n \in DOMAIN items |-> items[n].row.price] = b
    <3>1. \A n \in DOMAIN p : p[n] \in offered
      BY <1>2 DEF Range
    <3> QED BY <1>2, <1>3, <3>1
  <2>4. told.cost = Total(b)
    BY <1>1, <2>3 DEF Listed, Cost
  <2>5. Total(b) = Total(g)
    <3> HIDE DEF g
    <3> QED BY <1>4, <2>2, TotalRenamed
  <2> QED BY <2>4, <2>5
<1>7. told.unknown = Cardinality({k \in DOMAIN names : \A t \in Store : ~ Sells(t, names[k])})
  <2>1. told.unknown = Cardinality(Unlisted(names, place, U))
    BY <1>1 DEF Complete, Quoting, Balanced
  <2>2. ASSUME NEW k \in DOMAIN names
        PROVE  (\A t \in Store : k \notin Range(place[t]))
               <=> (\A t \in Store : ~ Sells(t, names[k]))
    <3>1. \A t \in Store : k \in Range(place[t]) <=> Offers(t, names[k])
      BY AllOffered
    <3>2. (\A t \in Store : ~ Offers(t, names[k]))
          <=> (\A t \in Store : ~ Sells(t, names[k]))
      BY TwoStores DEF Offers
    <3> QED BY <3>1, <3>2
  <2>3. Unlisted(names, place, U)
        = {k \in DOMAIN names : \A t \in Store : ~ Sells(t, names[k])}
    BY <2>2 DEF Unlisted, Complete
  <2> QED BY <2>1, <2>3
<1> QED BY <1>5, <1>6, <1>7 DEF Truthful

-----------------------------------------------------------------------------
(* The invariant.                                                          *)

SimilarIn(r, k, s) == [req |-> r, item |-> k, kind |-> "similar", store |-> s]

\* The items of r whose timers are to come, and those for which a similar
\* product of a store is sought.
Timer(r, k) == <<r, k>> \in Range(due)

Undecided(r) == {k \in DOMAIN list[r].names : Timer(r, k)}

IsQueued(q) == q \in Range(dbq)

Awaited(r) ==
  [s \in Store |-> {k \in DOMAIN list[r].names : IsQueued(SimilarIn(r, k, s))}]

\* The rows of r's quote have places in its list, those of what is offered
\* unless an answer was late.
Accounted(r) ==
  \E place \in [Store -> Seq(DOMAIN list[r].names)] :
    /\ Quoting(list[r].names, place, quote[r], Undecided(r), Awaited(r))
    /\ r \notin late => Timely(list[r].names, place, quote[r], Undecided(r), Awaited(r))

\* Whether s sells an item has been answered, or is to be.
LookedUp(r, k, s) ==
  \/ found[r][k][s] = Places(s, list[r].names[k])
  \/ found[r][k][s] = {} /\ IsQueued(LookupIn(r, k, s))

AllLookedUp(r) == \A k \in DOMAIN list[r].names, s \in Store : LookedUp(r, k, s)

\* Similar products are sought for what the other store sells, and what is
\* searched for has no reply.
Sought ==
  /\ \A n \in DOMAIN dbq :
       /\ dbq[n].kind = "similar" =>
            Compared(dbq[n].req) /\ Sells(Other(dbq[n].store), Asked(dbq[n]))
       /\ dbq[n].kind = "search" => reply[dbq[n].req] = NoReply
  /\ \A m, n \in DOMAIN dbq : dbq[m] = dbq[n] /\ dbq[m].kind # "lookup" => m = n

\* Timers are those of comparisons; one per request is for its reply, to come.
Timed ==
  /\ \A n \in DOMAIN due : Compared(due[n][1])
  /\ \A n \in DOMAIN replyq : reply[replyq[n]] = NoReply
  /\ IsInjective(replyq)

Rested ==
  /\ \A r \in Requests : reply[r].kind = "none" => reply[r] = NoReply
  /\ \A r \in Requests : ~ Compared(r) => quote[r] = EmptyQuote
  /\ ~ up => dbq = <<>> /\ due = <<>> /\ replyq = <<>>

Accounts ==
  \A r \in Requests : Compared(r) => Accounted(r) /\ AllLookedUp(r)

BInv ==
  /\ QInv /\ IInv /\ Rested /\ TimelyReply
  /\ up => Sought /\ Timed /\ Accounts

LEMMA InitBInv == Init => BInv
<1> SUFFICES ASSUME Init PROVE BInv
  OBVIOUS
<1>1. QInv /\ IInv
  BY QStarted, InitIInv
<1>2. /\ dbq = <<>> /\ due = <<>> /\ replyq = <<>> /\ up = TRUE
      /\ \A r \in Requests : ~ Compared(r) /\ reply[r] = NoReply /\ quote[r] = EmptyQuote
  BY DEF Init, Compared, Unsent
<1>3. Rested /\ TimelyReply
  BY <1>2 DEF Rested, TimelyReply
<1>4. Sought /\ Timed /\ Accounts
  BY <1>2 DEF Sought, Timed, Accounts, IsInjective
<1> QED BY <1>1, <1>3, <1>4 DEF BInv

-----------------------------------------------------------------------------
(* The quotes add up.                                                      *)

LEMMA SimilarQuery ==
  ASSUME RequestsOK, NEW n \in DOMAIN dbq, dbq[n].kind = "similar"
  PROVE  /\ dbq[n] = SimilarIn(dbq[n].req, dbq[n].item, dbq[n].store)
         /\ dbq[n].store \in Store
<1>1. dbq[n] \in Query
  BY DEF RequestsOK
<1>2. dbq[n] \in [req : Requests, item : 1 .. MaxItems, kind : {"lookup", "similar"},
                  store : Store]
  BY <1>1 DEF Query
<1> QED BY <1>2 DEF SimilarIn

LEMMA ListOfRequest ==
  ASSUME RequestsOK, NEW r \in Requests
  PROVE  list[r].names \in Lists /\ DOMAIN list[r].names = 1 .. Len(list[r].names)
         /\ Len(list[r].names) \in Nat
BY ListLength DEF RequestsOK

\* A timer per undecided item.
LEMMA TimersCounted ==
  ASSUME QInv, NEW r \in Requests
  PROVE  Cardinality({n \in DOMAIN due : due[n][1] = r}) = Cardinality(Undecided(r))
<1> DEFINE B == {n \in DOMAIN due : due[n][1] = r}
           m == [n \in B |-> due[n][2]]
<1>1. /\ due \in Seq(Requests \X Nat) /\ Len(due) \in Nat /\ DOMAIN due = 1 .. Len(due)
      /\ \A n \in DOMAIN due : due[n][2] \in 1 .. Len(list[due[n][1]].names)
  BY DEF QInv, RequestsOK
<1>2. DOMAIN list[r].names = 1 .. Len(list[r].names)
  BY ListOfRequest DEF QInv
<1>3. IsFiniteSet(B)
  <2>1. IsFiniteSet(1 .. Len(due)) /\ B \in SUBSET (1 .. Len(due))
    BY <1>1, FS_Interval
  <2> QED BY <2>1, FS_Subset
<1>4. ASSUME NEW n \in B PROVE due[n] = <<r, m[n]>> /\ m[n] \in Undecided(r)
  <2>1. due[n] \in Requests \X Nat
    BY <1>1
  <2>2. due[n] = <<r, m[n]>>
    BY <2>1
  <2> QED BY <1>1, <1>2, <2>2 DEF Undecided, Timer, Range
<1>5. \A a, b \in B : m[a] = m[b] => a = b
  <2> SUFFICES ASSUME NEW a \in B, NEW b \in B, m[a] = m[b], a # b PROVE FALSE
    OBVIOUS
  <2>1. a < b \/ b < a
    BY <1>1
  <2>2. due[a][2] < due[b][2] \/ due[b][2] < due[a][2]
    BY <2>1 DEF QInv, Counted
  <2>3. due[a][2] = due[b][2] /\ due[a][2] \in Nat
    BY <1>1
  <2> QED BY <2>2, <2>3
<1>6. \A k \in Undecided(r) : \E n \in B : m[n] = k
  BY DEF Undecided, Timer, Range
<1>7. m \in [B -> Undecided(r)] /\ DOMAIN m = B
  BY <1>4
<1> HIDE DEF m, B
<1>8. m \in Bijection(B, Undecided(r))
  BY <1>5, <1>6, <1>7 DEF Bijection, Injection, Surjection, IsInjective
<1>9. Cardinality(Undecided(r)) = Cardinality(B)
  BY <1>3, <1>8, FS_Bijection DEF ExistsBijection
<1> QED BY <1>9 DEF B

\* A query per awaited product.
LEMMA QueriesCounted ==
  ASSUME RequestsOK, Sought, NEW r \in Requests, NEW s \in Store
  PROVE  Cardinality({n \in DOMAIN dbq : /\ dbq[n].req = r /\ dbq[n].store = s
                                         /\ dbq[n].kind = "similar"})
         = Cardinality(Awaited(r)[s])
<1> DEFINE B == {n \in DOMAIN dbq : dbq[n].req = r /\ dbq[n].store = s
                                    /\ dbq[n].kind = "similar"}
           C == Awaited(r)[s]
           m == [n \in B |-> dbq[n].item]
<1>1. dbq \in Seq(Query) /\ Len(dbq) \in Nat /\ DOMAIN dbq = 1 .. Len(dbq)
  BY DEF RequestsOK
<1>2. DOMAIN list[r].names = 1 .. Len(list[r].names)
  BY ListOfRequest
<1>3. IsFiniteSet(B)
  <2>1. IsFiniteSet(1 .. Len(dbq))
    BY <1>1, FS_Interval
  <2> QED BY <1>1, <2>1, FS_Subset
<1>4. ASSUME NEW n \in B PROVE dbq[n] = SimilarIn(r, m[n], s) /\ m[n] \in C
  <2>1. dbq[n] = SimilarIn(r, dbq[n].item, s)
    BY SimilarQuery
  <2>2. dbq[n].item \in DOMAIN list[r].names
    BY <1>2 DEF RequestsOK
  <2> QED BY <2>1, <2>2 DEF Awaited, IsQueued, Range
<1>5. \A a, b \in B : m[a] = m[b] => a = b
  BY <1>4 DEF Sought
<1>6. ASSUME NEW k \in C PROVE \E n \in B : m[n] = k
  <2>1. PICK n \in DOMAIN dbq : dbq[n] = SimilarIn(r, k, s)
    BY DEF Awaited, IsQueued, Range
  <2>2. n \in B /\ dbq[n].item = k
    BY <2>1 DEF SimilarIn
  <2> QED BY <2>2
<1>7. m \in [B -> C] /\ DOMAIN m = B
  BY <1>4
<1> HIDE DEF m, B, C
<1>8. m \in Bijection(B, C)
  BY <1>5, <1>6, <1>7 DEF Bijection, Injection, Surjection, IsInjective
<1>9. Cardinality(C) = Cardinality(B)
  BY <1>3, <1>8, FS_Bijection DEF ExistsBijection
<1> QED BY <1>9 DEF B, C

LEMMA QuotesAddUp == BInv => QuoteAddsUp
<1> SUFFICES ASSUME BInv, NEW r \in Requests, up, Compared(r), NEW s \in Store
             PROVE  LET told == quote[r][s]
                        undecided == {n \in DOMAIN due : due[n][1] = r}
                        awaited == {n \in DOMAIN dbq : dbq[n].req = r /\ dbq[n].store = s
                                                       /\ dbq[n].kind = "similar"}
                        count == Cardinality(undecided) + Len(told.items)
                                 + quote[r]["Walmart"].unknown + Cardinality(awaited)
                    IN /\ count <= Len(list[r].names)
                       /\ Candidates(s) # <<>> => count = Len(list[r].names)
                       /\ told.cost =
                            Total([k \in DOMAIN told.items |-> told.items[k].row.price])
  BY DEF QuoteAddsUp
<1>1. QInv /\ RequestsOK /\ Sought /\ Accounted(r)
  BY DEF BInv, QInv, Accounts
<1>2. PICK place \in [Store -> Seq(DOMAIN list[r].names)] :
        Quoting(list[r].names, place, quote[r], Undecided(r), Awaited(r))
  BY <1>1 DEF Accounted
<1>3. quote[r][s].cost = Cost(quote[r][s].items)
  BY <1>2 DEF Quoting, Balanced, Listed
<1>4. LET count == Cardinality(Undecided(r)) + Len(quote[r][s].items)
                   + quote[r]["Walmart"].unknown + Cardinality(Awaited(r)[s])
      IN count <= Len(list[r].names) /\ (Candidates(s) # <<>> => count = Len(list[r].names))
  BY <1>2, ItemsCounted
<1> QED BY <1>1, <1>3, <1>4, TimersCounted, QueriesCounted DEF Cost

-----------------------------------------------------------------------------
(* What a step leaves as it is.                                            *)

LEMMA StillAccounted ==
  ASSUME NEW r \in Requests, Accounted(r), list'[r] = list[r], quote'[r] = quote[r],
         Undecided(r)' = Undecided(r), Awaited(r)' = Awaited(r), late \subseteq late'
  PROVE  Accounted(r)'
<1>1. PICK place \in [Store -> Seq(DOMAIN list[r].names)] :
        /\ Quoting(list[r].names, place, quote[r], Undecided(r), Awaited(r))
        /\ r \notin late =>
             Timely(list[r].names, place, quote[r], Undecided(r), Awaited(r))
  BY DEF Accounted
<1>2. /\ Quoting(list'[r].names, place, quote'[r], Undecided(r)', Awaited(r)')
      /\ r \notin late' =>
           Timely(list'[r].names, place, quote'[r], Undecided(r)', Awaited(r)')
  BY <1>1
<1>3. place \in [Store -> Seq(DOMAIN list'[r].names)]
  BY <1>1
<1> QED BY <1>2, <1>3 DEF Accounted

\* A reply that is not late is truthful.
LEMMA TruthfulReply ==
  ASSUME TimelyReply, NEW r \in Requests \ late, Compared(r), reply[r] # NoReply,
         NEW s \in Store
  PROVE  Truthful(list[r].names, s, reply[r].quote[s])
BY DEF TimelyReply, Truthful

\* Replies stay, and only more of them are late.
LEMMA StillTimely ==
  ASSUME TimelyReply, late \subseteq late',
         \A r \in Requests : Compared(r)' /\ reply'[r] # NoReply =>
           \/ list'[r] = list[r] /\ reply'[r] = reply[r]
           \/ r \notin late' =>
                \A s \in Store : Truthful(list'[r].names, s, reply'[r].quote[s])
  PROVE  TimelyReply'
<1>1. ASSUME NEW r \in Requests \ late', Compared(r)', reply'[r] # NoReply, NEW s \in Store
      PROVE  Truthful(list'[r].names, s, reply'[r].quote[s])
  <2>1. CASE list'[r] = list[r] /\ reply'[r] = reply[r]
    <3>1. r \notin late /\ Compared(r) /\ reply[r] # NoReply
      BY <1>1, <2>1 DEF Compared
    <3> QED BY <2>1, <3>1, TruthfulReply
  <2> QED BY <1>1, <2>1
<1> QED BY <1>1 DEF TimelyReply, Truthful

\* The tail has the elements of the queue, the head only if it is repeated.
LEMMA TailRange ==
  ASSUME NEW S, NEW q \in Seq(S), q # <<>>
  PROVE  /\ Range(q) = Range(Tail(q)) \cup {Head(q)}
         /\ (\A n \in DOMAIN q : n # 1 => q[n] # Head(q)) => Head(q) \notin Range(Tail(q))
<1>1. /\ Len(q) \in Nat /\ DOMAIN q = 1 .. Len(q) /\ DOMAIN Tail(q) = 1 .. Len(q) - 1
      /\ \A n \in DOMAIN Tail(q) : Tail(q)[n] = q[n + 1]
      /\ 1 \in DOMAIN q /\ Head(q) = q[1]
  OBVIOUS
<1>2. ASSUME NEW n \in DOMAIN q, n # 1 PROVE q[n] \in Range(Tail(q))
  <2>1. n - 1 \in DOMAIN Tail(q) /\ n - 1 + 1 = n
    BY <1>1, <1>2
  <2>2. Tail(q)[n - 1] = q[n]
    BY <1>1, <2>1
  <2> QED BY <2>1, <2>2 DEF Range
<1>3. ASSUME NEW n \in DOMAIN Tail(q)
      PROVE  n + 1 \in DOMAIN q /\ n + 1 # 1 /\ Tail(q)[n] = q[n + 1]
  BY <1>1
<1>4. \A e \in Range(q) : e = Head(q) \/ e \in Range(Tail(q))
  BY <1>1, <1>2 DEF Range
<1>5. \A e \in Range(Tail(q)) : \E n \in DOMAIN q : n # 1 /\ q[n] = e
  BY <1>3 DEF Range
<1>6. Head(q) \in Range(q) /\ \A n \in DOMAIN q : q[n] \in Range(q)
  BY <1>1 DEF Range
<1> QED BY <1>4, <1>5, <1>6

\* The next timer's item is decided.
LEMMA DueTail ==
  ASSUME QInv, due # <<>>, due' = Tail(due), list' = list,
         NEW r, NEW k, Head(due)[1] = r, Head(due)[2] = k
  PROVE  /\ r \in Requests /\ k \in Undecided(r)
         /\ Undecided(r)' = Undecided(r) \ {k}
         /\ \A t \in Requests \ {r} : Undecided(t)' = Undecided(t)
<1>1. /\ due \in Seq(Requests \X Nat) /\ Len(due) \in Nat /\ DOMAIN due = 1 .. Len(due)
      /\ \A n \in DOMAIN due : due[n][2] \in 1 .. Len(list[due[n][1]].names)
  BY DEF QInv, RequestsOK
<1>2. /\ 1 \in DOMAIN due /\ Head(due) = due[1] /\ due[1] \in Requests \X Nat
  BY <1>1
<1>3. r \in Requests /\ due[1] = <<r, k>> /\ k \in Nat
  BY <1>2
<1>4. k \in Undecided(r)
  <2>1. k \in DOMAIN list[r].names
    BY <1>1, <1>2, <1>3, ListOfRequest DEF QInv
  <2> QED BY <1>2, <1>3, <2>1 DEF Undecided, Timer, Range
<1>5. \A n \in DOMAIN due : n # 1 => due[n] # <<r, k>>
  <2> SUFFICES ASSUME NEW n \in DOMAIN due, n # 1, due[n] = <<r, k>> PROVE FALSE
    OBVIOUS
  <2>1. due[1][2] < due[n][2]
    <3>1. 1 < n /\ due[1][1] = due[n][1]
      BY <1>1, <1>3
    <3> QED BY <1>2, <3>1 DEF QInv, Counted
  <2> QED BY <1>3, <2>1
<1>6. ASSUME NEW t, NEW j
      PROVE  Timer(t, j)' <=> Timer(t, j) /\ ~ (t = r /\ j = k)
  <2>1. PICK d, e : d = <<t, j>> /\ e = <<r, k>>
    OBVIOUS
  <2>2. d = e <=> t = r /\ j = k
    BY <2>1
  <2>3. Head(due) = e /\ \A n \in DOMAIN due : n # 1 => due[n] # Head(due)
    BY <1>2, <1>3, <1>5, <2>1
  <2>4. due \in Seq(Requests \X Nat) /\ due # <<>> /\ due' = Tail(due)
    BY <1>1
  <2>5. Range(due) = Range(due') \cup {e} /\ e \notin Range(due')
    BY <2>3, <2>4, TailRange
  <2>6. Timer(t, j)' <=> d \in Range(due')
    BY <2>1 DEF Timer
  <2>7. Timer(t, j) <=> d \in Range(due)
    BY <2>1 DEF Timer
  <2>8. d \in Range(due') <=> d \in Range(due) /\ d # e
    BY <2>5
  <2> QED BY <2>2, <2>6, <2>7, <2>8
<1>7. Undecided(r)' = Undecided(r) \ {k}
  BY <1>6 DEF Undecided
<1>8. \A t \in Requests \ {r} : Undecided(t)' = Undecided(t)
  BY <1>6 DEF Undecided
<1> QED BY <1>3, <1>4, <1>7, <1>8

LEMMA SimilarInIs ==
  ASSUME NEW r, NEW k, NEW s, NEW t, NEW j, NEW u
  PROVE  SimilarIn(r, k, s) = SimilarIn(t, j, u) <=> r = t /\ k = j /\ s = u
<1>1. /\ SimilarIn(r, k, s).req = r /\ SimilarIn(r, k, s).item = k
      /\ SimilarIn(r, k, s).store = s
      /\ SimilarIn(t, j, u).req = t /\ SimilarIn(t, j, u).item = j
      /\ SimilarIn(t, j, u).store = u
  BY DEF SimilarIn
<1> QED BY <1>1

\* A query has been answered: nothing else is awaited than before.
LEMMA AwaitedSame ==
  ASSUME RequestsOK, dbq # <<>>, dbq' = Tail(dbq), list' = list,
         Head(dbq).kind # "similar", NEW r \in Requests
  PROVE  Awaited(r)' = Awaited(r)
<1>1. Range(dbq) = Range(dbq') \cup {Head(dbq)}
  BY TailRange DEF RequestsOK
<1>2. ASSUME NEW k, NEW s
      PROVE  IsQueued(SimilarIn(r, k, s))' <=> IsQueued(SimilarIn(r, k, s))
  <2>1. PICK q : q = SimilarIn(r, k, s)
    OBVIOUS
  <2>2. q # Head(dbq)
    BY <2>1 DEF SimilarIn
  <2>3. q \in Range(dbq') <=> q \in Range(dbq)
    BY <1>1, <2>2
  <2> QED BY <2>1, <2>3 DEF IsQueued
<1> QED BY <1>2 DEF Awaited

LEMMA AwaitedTail ==
  ASSUME RequestsOK, Sought, dbq # <<>>, dbq' = Tail(dbq), list' = list,
         NEW r, NEW k, NEW s, Head(dbq).kind = "similar",
         Head(dbq).req = r, Head(dbq).item = k, Head(dbq).store = s
  PROVE  /\ r \in Requests /\ s \in Store /\ k \in Awaited(r)[s]
         /\ Awaited(r)' = [Awaited(r) EXCEPT ![s] = @ \ {k}]
         /\ \A t \in Requests \ {r} : Awaited(t)' = Awaited(t)
<1>1. PICK q : q = Head(dbq)
  OBVIOUS
<1>2. 1 \in DOMAIN dbq /\ q = dbq[1]
  BY <1>1, Tailed DEF RequestsOK
<1>3. Range(dbq) = Range(dbq') \cup {q} /\ q \notin Range(dbq')
  <2>1. dbq \in Seq(Query)
    BY DEF RequestsOK
  <2>2. \A n \in DOMAIN dbq : n # 1 => dbq[n] # Head(dbq)
    BY <1>1, <1>2 DEF Sought
  <2> QED BY <1>1, <2>1, <2>2, TailRange
<1>4. q = SimilarIn(r, k, s) /\ s \in Store
  BY <1>1, <1>2, SimilarQuery
<1>5. r \in Requests /\ k \in DOMAIN list[r].names
  BY <1>1, <1>2, QueryOf, ListOfRequest
<1>6. k \in Awaited(r)[s]
  BY <1>3, <1>4, <1>5 DEF Awaited, IsQueued
<1>7. ASSUME NEW t, NEW j, NEW u
      PROVE  IsQueued(SimilarIn(t, j, u))'
             <=> IsQueued(SimilarIn(t, j, u)) /\ ~ (t = r /\ j = k /\ u = s)
  <2>1. PICK e : e = SimilarIn(t, j, u)
    OBVIOUS
  <2>2. e = q <=> t = r /\ j = k /\ u = s
    BY <1>4, <2>1, SimilarInIs
  <2>3. e \in Range(dbq') <=> e \in Range(dbq) /\ e # q
    BY <1>3
  <2> QED BY <2>1, <2>2, <2>3 DEF IsQueued
<1>8. \A t \in Requests \ {r} : Awaited(t)' = Awaited(t)
  BY <1>7 DEF Awaited
<1>9. ASSUME NEW u \in Store
      PROVE  Awaited(r)'[u] = IF u = s THEN Awaited(r)[s] \ {k} ELSE Awaited(r)[u]
  BY <1>7 DEF Awaited
<1>10. /\ Awaited(r)' = [u \in Store |-> Awaited(r)'[u]]
       /\ Awaited(r) = [u \in Store |-> Awaited(r)[u]]
  BY DEF Awaited
<1>11. Awaited(r)' = [Awaited(r) EXCEPT ![s] = @ \ {k}]
  BY <1>9, <1>10
<1> QED BY <1>4, <1>5, <1>6, <1>8, <1>11

\* A query for a similar product joins the queue.
LEMMA AwaitedMore ==
  ASSUME RequestsOK, list' = list, NEW r \in Requests, NEW k \in DOMAIN list[r].names,
         NEW s \in Store, SimilarIn(r, k, s) \in Query, dbq' = Append(dbq, SimilarIn(r, k, s))
  PROVE  /\ Awaited(r)' = [Awaited(r) EXCEPT ![s] = @ \cup {k}]
         /\ \A t \in Requests \ {r} : Awaited(t)' = Awaited(t)
<1>1. Range(dbq') = Range(dbq) \cup {SimilarIn(r, k, s)}
  BY RangeAppended DEF RequestsOK
<1>2. ASSUME NEW t, NEW j, NEW u
      PROVE  IsQueued(SimilarIn(t, j, u))'
             <=> IsQueued(SimilarIn(t, j, u)) \/ (t = r /\ j = k /\ u = s)
  <2>1. PICK e, q : e = SimilarIn(t, j, u) /\ q = SimilarIn(r, k, s)
    OBVIOUS
  <2>2. e = q <=> t = r /\ j = k /\ u = s
    BY <2>1, SimilarInIs
  <2>3. e \in Range(dbq') <=> e \in Range(dbq) \/ e = q
    BY <1>1, <2>1
  <2> QED BY <2>1, <2>2, <2>3 DEF IsQueued
<1>3. \A t \in Requests \ {r} : Awaited(t)' = Awaited(t)
  BY <1>2 DEF Awaited
<1>4. ASSUME NEW u \in Store
      PROVE  Awaited(r)'[u] = IF u = s THEN Awaited(r)[s] \cup {k} ELSE Awaited(r)[u]
  BY <1>2 DEF Awaited
<1>5. /\ Awaited(r)' = [u \in Store |-> Awaited(r)'[u]]
      /\ Awaited(r) = [u \in Store |-> Awaited(r)[u]]
  BY DEF Awaited
<1>6. Awaited(r)' = [Awaited(r) EXCEPT ![s] = @ \cup {k}]
  BY <1>4, <1>5
<1> QED BY <1>3, <1>6

LEMMA AwaitedUnchanged ==
  ASSUME list' = list, dbq' = dbq, NEW r
  PROVE  Awaited(r)' = Awaited(r)
BY DEF Awaited, IsQueued

LEMMA UndecidedUnchanged ==
  ASSUME list' = list, due' = due, NEW r
  PROVE  Undecided(r)' = Undecided(r)
BY DEF Undecided, Timer

LEMMA NowAccounted ==
  ASSUME NEW r \in Requests, NEW place,
         Quoting(list'[r].names, place, quote'[r], Undecided(r)', Awaited(r)'),
         r \notin late' => Timely(list'[r].names, place, quote'[r], Undecided(r)', Awaited(r)')
  PROVE  Accounted(r)'
<1>1. place \in [Store -> Seq(DOMAIN list'[r].names)]
  BY DEF Quoting
<1> QED BY <1>1 DEF Accounted

\* Lookups that are not answered stay in the queue.
LEMMA StillLookedUp ==
  ASSUME NEW r \in Requests, AllLookedUp(r), list'[r] = list[r], found'[r] = found[r],
         \A k, s : IsQueued(LookupIn(r, k, s)) => IsQueued(LookupIn(r, k, s))'
  PROVE  AllLookedUp(r)'
BY DEF AllLookedUp, LookedUp

LEMMA LookupsRest ==
  ASSUME RequestsOK, dbq # <<>>, dbq' = Tail(dbq), NEW r, NEW k, NEW s,
         Head(dbq) # LookupIn(r, k, s), IsQueued(LookupIn(r, k, s))
  PROVE  IsQueued(LookupIn(r, k, s))'
<1>1. Range(dbq) = Range(dbq') \cup {Head(dbq)}
  BY TailRange DEF RequestsOK
<1> QED BY <1>1 DEF IsQueued

\* The process runs as long as there is something to answer.
LEMMA Running ==
  ASSUME BInv, dbq # <<>> \/ due # <<>> \/ replyq # <<>>
  PROVE  up /\ Sought /\ Timed /\ Accounts
BY DEF BInv, Rested

\* A query has been answered, the others are those that they were.
LEMMA TailSought ==
  ASSUME RequestsOK, Sought, dbq # <<>>, dbq' = Tail(dbq), list' = list,
         \A n \in DOMAIN dbq : n # 1 /\ dbq[n].kind = "search"
                                 => reply'[dbq[n].req] = reply[dbq[n].req]
  PROVE  Sought'
<1>1. /\ Len(dbq) \in Nat /\ DOMAIN dbq = 1 .. Len(dbq) /\ DOMAIN dbq' = 1 .. Len(dbq) - 1
      /\ \A n \in DOMAIN dbq' : n + 1 \in DOMAIN dbq /\ n + 1 # 1 /\ dbq'[n] = dbq[n + 1]
  <2>1. dbq \in Seq(Query)
    BY DEF RequestsOK
  <2> QED BY <2>1
<1>2. ASSUME NEW n \in DOMAIN dbq'
      PROVE  /\ dbq'[n].kind = "similar" =>
                  Compared(dbq[n].req)' /\ Sells(Other(dbq'[n].store), Asked(dbq[n])')
             /\ dbq'[n].kind = "search" => reply'[dbq'[n].req] = NoReply
  <2>1. PICK m \in DOMAIN dbq : m # 1 /\ m = n + 1 /\ dbq'[n] = dbq[m]
    BY <1>1
  <2> QED BY <2>1 DEF Sought, Compared, Asked
<1>3. ASSUME NEW m \in DOMAIN dbq', NEW n \in DOMAIN dbq', dbq'[m] = dbq'[n],
             dbq'[m].kind # "lookup"
      PROVE  m = n
  <2>1. m + 1 = n + 1
    BY <1>1, <1>3 DEF Sought
  <2> QED BY <1>1, <2>1
<1> QED BY <1>2, <1>3 DEF Sought

LEMMA StillTimed ==
  ASSUME Timed, list' = list, due' = due, replyq' = replyq,
         \A n \in DOMAIN replyq : reply'[replyq[n]] = reply[replyq[n]]
  PROVE  Timed'
BY DEF Timed, Compared

-----------------------------------------------------------------------------
(* Every step keeps the invariant.                                         *)

LEMMA LookupBalanced ==
  ASSUME BInv, LookupAnswered
  PROVE  Rested' /\ TimelyReply' /\ Sought' /\ Timed' /\ Accounts'
<1>1. /\ dbq # <<>> /\ dbq' = Tail(dbq) /\ Head(dbq).kind = "lookup"
      /\ UNCHANGED <<up, list, quote, reply, due, replyq, late>>
      /\ found' = [found EXCEPT ![Head(dbq).req][Head(dbq).item][Head(dbq).store] =
                     Places(Head(dbq).store, Asked(Head(dbq)))]
  BY DEF LookupAnswered, Answered
<1>2. RequestsOK /\ QInv /\ up /\ Sought /\ Timed /\ Accounts /\ Rested /\ TimelyReply
  BY <1>1, Running DEF BInv, QInv
<1>3. PICK r, k, s : r = Head(dbq).req /\ k = Head(dbq).item /\ s = Head(dbq).store
  OBVIOUS
<1>4. r \in Requests /\ k \in 1 .. Len(list[r].names) /\ s \in Store
  BY <1>1, <1>2, <1>3, HeadIsQuery DEF Query
<1>5. ASSUME NEW t \in Requests, NEW j \in DOMAIN list[t].names, NEW u \in Store
      PROVE  \/ found'[t][j][u] = Places(u, list[t].names[j])
             \/ found'[t][j][u] = found[t][j][u] /\ Head(dbq) # LookupIn(t, j, u)
  <2>1. found' = [found EXCEPT ![r][k][s] = Places(s, list[r].names[k])]
    BY <1>1, <1>3 DEF Asked
  <2>2. /\ DOMAIN found = Requests /\ j \in 1 .. Len(list[t].names)
        /\ \A x \in Requests :
             found[x] \in [1 .. Len(list[x].names) -> [Store -> SUBSET Nat]]
    BY <1>2, ListOfRequest DEF RequestsOK
  <2>3. CASE t = r /\ j = k /\ u = s
    BY <1>4, <2>1, <2>2, <2>3
  <2>4. CASE ~ (t = r /\ j = k /\ u = s)
    <3>1. found'[t][j][u] = found[t][j][u]
      BY <1>4, <2>1, <2>2, <2>4
    <3>2. LookupIn(t, j, u).req = t /\ LookupIn(t, j, u).item = j
          /\ LookupIn(t, j, u).store = u
      BY DEF LookupIn
    <3> QED BY <1>3, <2>4, <3>1, <3>2
  <2> QED BY <2>3, <2>4
<1>6. ASSUME NEW t \in Requests, Compared(t)' PROVE Accounted(t)' /\ AllLookedUp(t)'
  <2>1. Accounted(t) /\ AllLookedUp(t)
    BY <1>1, <1>2, <1>6 DEF Accounts, Compared
  <2>2. Awaited(t)' = Awaited(t) /\ Undecided(t)' = Undecided(t)
    BY <1>1, <1>2, AwaitedSame, UndecidedUnchanged
  <2>3. Accounted(t)'
    BY <1>1, <2>1, <2>2, StillAccounted
  <2>4. ASSUME NEW j \in DOMAIN list'[t].names, NEW u \in Store
        PROVE  LookedUp(t, j, u)'
    <3>1. list' = list /\ LookedUp(t, j, u)
      BY <1>1, <2>1 DEF AllLookedUp
    <3>2. IsQueued(LookupIn(t, j, u)) /\ Head(dbq) # LookupIn(t, j, u)
          => IsQueued(LookupIn(t, j, u))'
      BY <1>1, <1>2, LookupsRest
    <3> QED BY <1>5, <3>1, <3>2 DEF LookedUp
  <2> QED BY <2>3, <2>4 DEF AllLookedUp
<1>7. Accounts'
  BY <1>6 DEF Accounts
<1>8. Sought' /\ Timed'
  BY <1>1, <1>2, TailSought, StillTimed
<1>9. TimelyReply'
  BY <1>1, <1>2, StillTimely
<1>10. Rested'
  BY <1>1, <1>2 DEF Rested, Compared
<1> QED BY <1>7, <1>8, <1>9, <1>10

LEMMA SearchBalanced ==
  ASSUME BInv, SearchAnswered
  PROVE  Rested' /\ TimelyReply' /\ Sought' /\ Timed' /\ Accounts'
<1>1. /\ dbq # <<>> /\ dbq' = Tail(dbq) /\ Head(dbq).kind = "search"
      /\ UNCHANGED <<up, list, found, quote, due, replyq, late>>
      /\ reply' = [reply EXCEPT ![Head(dbq).req] =
                     [kind |-> "search", names |-> Matching(Asked(Head(dbq)))]]
  BY DEF SearchAnswered, Answered
<1>2. RequestsOK /\ QInv /\ up /\ Sought /\ Timed /\ Accounts /\ Rested /\ TimelyReply
  BY <1>1, Running DEF BInv, QInv
<1>3. PICK r : r = Head(dbq).req
  OBVIOUS
<1>4. /\ Head(dbq) = dbq[1] /\ 1 \in DOMAIN dbq /\ r \in Requests
      /\ list[r].kind = "search"
  <2>1. Head(dbq) = dbq[1] /\ 1 \in DOMAIN dbq
    BY <1>1, <1>2, Tailed DEF RequestsOK
  <2> QED BY <1>1, <1>2, <1>3, <2>1, HeadIsQuery DEF QInv, Replied
<1>5. \A t \in Requests \ {r} : reply'[t] = reply[t]
  BY <1>1, <1>2, <1>3 DEF QInv, Replied
<1>6. Sought'
  <2>1. ASSUME NEW n \in DOMAIN dbq, n # 1, dbq[n].kind = "search"
        PROVE  dbq[n].req \in Requests \ {r}
    <3>1. /\ dbq[n] \in Query /\ dbq[1] \in Query
          /\ dbq[1].kind = "search" /\ dbq[1].req = r
      BY <1>1, <1>2, <1>3, <1>4 DEF RequestsOK
    <3>2. ASSUME NEW q \in Query, q.kind = "search"
          PROVE  q = [req |-> q.req, item |-> 1, kind |-> "search", store |-> "both"]
                 /\ q.req \in Requests
      BY <3>2 DEF Query
    <3>3. dbq[n] # dbq[1]
      BY <1>2, <1>4, <2>1 DEF Sought
    <3> QED BY <2>1, <3>1, <3>2, <3>3
  <2> QED BY <1>1, <1>2, <1>5, <2>1, TailSought
<1>7. Timed'
  <2>1. \A n \in DOMAIN replyq : replyq[n] \in Requests \ {r}
    BY <1>2, <1>4 DEF QInv, Replied, RequestsOK
  <2> QED BY <1>1, <1>2, <1>5, <2>1, StillTimed
<1>8. ASSUME NEW t \in Requests, Compared(t)' PROVE Accounted(t)' /\ AllLookedUp(t)'
  <2>1. Accounted(t) /\ AllLookedUp(t)
    BY <1>1, <1>2, <1>8 DEF Accounts, Compared
  <2>2. Awaited(t)' = Awaited(t) /\ Undecided(t)' = Undecided(t)
    BY <1>1, <1>2, AwaitedSame, UndecidedUnchanged
  <2>3. ASSUME NEW k, NEW s, IsQueued(LookupIn(t, k, s)) PROVE IsQueued(LookupIn(t, k, s))'
    <3>1. Head(dbq) # LookupIn(t, k, s)
      BY <1>1 DEF LookupIn
    <3> QED BY <1>1, <1>2, <2>3, <3>1, LookupsRest
  <2> QED BY <1>1, <2>1, <2>2, <2>3, StillAccounted, StillLookedUp
<1>9. Accounts'
  BY <1>8 DEF Accounts
<1>10. TimelyReply'
  BY <1>1, <1>2, <1>4, <1>5, StillTimely DEF Compared
<1>11. Rested'
  <2>1. reply'[r].kind = "search"
    BY <1>1, <1>2, <1>3, <1>4 DEF QInv, Replied
  <2> QED BY <1>1, <1>2, <1>5, <2>1 DEF Rested, Compared
<1> QED BY <1>6, <1>7, <1>9, <1>10, <1>11

\* The most similar of the candidates may be listed for what the other store
\* sells, if Safeway does so only for what it does not sell itself.
LEMMA SimilarMayBeListed ==
  ASSUME NEW s \in Store, NEW name \in Name, Candidates(s) # <<>>,
         Sells(Other(s), name), s = "Safeway" => ~ Sells(s, name)
  PROVE  MostSimilarRow(name, Candidates(s)) \in Service!MayList(s, name)
<1> DEFINE rows == Candidates(s)
           row == MostSimilarRow(name, rows)
<1>1. row \in Range(rows)
  <2>1. rows \in Seq(Row)
    BY CandidatesAreRows
  <2> DEFINE B == Best(name, rows)
  <2>2. B # {} /\ B \in SUBSET Nat /\ B \subseteq DOMAIN rows
    BY <2>1, BestExists DEF Best
  <2>3. Min(B) \in DOMAIN rows
    <3> HIDE DEF B
    <3> QED BY <2>2, LeastExists
  <2>4. row = rows[Min(B)]
    BY DEF MostSimilarRow
  <2> HIDE DEF B, row, rows
  <2> QED BY <2>3, <2>4 DEF Range
<1> HIDE DEF row
<1>2. row \in Range(Table[s])
  BY <1>1, CatalogAssumption DEF Candidates, Store
<1>3. CASE ~ Sells(s, name)
  <2>1. Offers(s, name) /\ row = Offer(s, name)
    BY <1>3 DEF Offers, Offer, row
  <2> QED BY <1>2, <2>1, MayListIs DEF row
<1>4. CASE Sells(s, name)
  <2>1. s = "Walmart" /\ (\A t \in Store : Sells(t, name)) /\ row = MostSimilarRow(name, Table[s])
    BY <1>4, TwoStores DEF Store, Candidates, row
  <2> QED BY <1>2, <2>1, MayListIs DEF row
<1> QED BY <1>3, <1>4

\* What the answer makes of the quote of its request.
LEMMA SimilarAccounted ==
  ASSUME BInv, SimilarAnswered, NEW r, NEW k, NEW s,
         Head(dbq).req = r, Head(dbq).item = k, Head(dbq).store = s
  PROVE  r \in Requests /\ Accounted(r)'
<1>1. /\ dbq # <<>> /\ dbq' = Tail(dbq) /\ Head(dbq).kind = "similar"
      /\ UNCHANGED <<up, list, found, reply, due, replyq, late>>
  BY DEF SimilarAnswered, Answered
<1>2. RequestsOK /\ QInv /\ IInv /\ up /\ Sought /\ Accounts
  BY <1>1, Running DEF BInv, QInv
<1>3. /\ r \in Requests /\ s \in Store /\ k \in Awaited(r)[s]
      /\ Awaited(r)' = [Awaited(r) EXCEPT ![s] = @ \ {k}]
  BY <1>1, <1>2, AwaitedTail
<1> DEFINE names == list[r].names
<1>4. names \in Lists /\ k \in DOMAIN names /\ names[k] \in Name
  <2>1. names \in Lists /\ k \in DOMAIN names
    BY <1>2, <1>3, ListOfRequest DEF Awaited
  <2> QED BY <2>1, ListLength
<1>5. /\ Head(dbq) = dbq[1] /\ 1 \in DOMAIN dbq /\ Asked(Head(dbq)) = names[k]
  BY <1>1, <1>2, Tailed DEF RequestsOK, Asked
<1>6. /\ Compared(r) /\ Sells(Other(s), names[k])
      /\ s = "Safeway" => ~ Sells(s, names[k])
  BY <1>1, <1>2, <1>5 DEF Sought, IInv, NoFalseSubstitute
<1>7. PICK place :
        /\ Quoting(names, place, quote[r], Undecided(r), Awaited(r))
        /\ r \notin late => Timely(names, place, quote[r], Undecided(r), Awaited(r))
  BY <1>2, <1>3, <1>6 DEF Accounts, Accounted
<1>8. list' = list /\ late' = late /\ Undecided(r)' = Undecided(r)
  BY <1>1, UndecidedUnchanged
<1>9. quote \in [Requests -> [Store -> Part]]
  BY <1>2 DEF QInv, Quoted
<1>10. CASE Candidates(s) = <<>>
  <2>1. quote' = quote
    BY <1>10 DEF SimilarAnswered
  <2>2. Quoting(names, place, quote[r], Undecided(r), [Awaited(r) EXCEPT ![s] = @ \ {k}])
    BY <1>3, <1>7, <1>10, SimilarMissing
  <2>3. r \notin late =>
          Timely(names, place, quote[r], Undecided(r), [Awaited(r) EXCEPT ![s] = @ \ {k}])
    BY <1>3, <1>7, <1>10, MissingInTime
  <2>4. /\ Quoting(list'[r].names, place, quote'[r], Undecided(r)', Awaited(r)')
        /\ r \notin late' =>
             Timely(list'[r].names, place, quote'[r], Undecided(r)', Awaited(r)')
    BY <1>3, <1>8, <2>1, <2>2, <2>3
  <2> QED BY <1>3, <2>4, NowAccounted
<1>11. CASE Candidates(s) # <<>>
  <2> DEFINE row == MostSimilarRow(names[k], Candidates(s))
             more == [quote[r] EXCEPT ![s] = Added(@, row, FALSE)]
             now == [place EXCEPT ![s] = Append(@, k)]
  <2>1. quote'[r] = more
    <3>1. quote' = [quote EXCEPT ![r][s] = Added(@, row, FALSE)]
      BY <1>5, <1>11 DEF SimilarAnswered, Asker
    <3> QED BY <1>3, <1>9, <3>1
  <2>2. Quoting(names, now, more, Undecided(r), [Awaited(r) EXCEPT ![s] = @ \ {k}])
    <3>1. row \in Service!MayList(s, names[k])
      BY <1>3, <1>4, <1>6, <1>11, SimilarMayBeListed
    <3> HIDE DEF row
    <3> QED BY <1>3, <1>7, <3>1, SimilarListed
  <2>3. r \notin late =>
          Timely(names, now, more, Undecided(r), [Awaited(r) EXCEPT ![s] = @ \ {k}])
    BY <1>3, <1>6, <1>7, <1>11, SimilarInTime
  <2> HIDE DEF more, now
  <2>4. /\ Quoting(list'[r].names, now, quote'[r], Undecided(r)', Awaited(r)')
        /\ r \notin late' =>
             Timely(list'[r].names, now, quote'[r], Undecided(r)', Awaited(r)')
    BY <1>3, <1>8, <2>1, <2>2, <2>3
  <2> QED BY <1>3, <2>4, NowAccounted
<1> QED BY <1>3, <1>10, <1>11

LEMMA SimilarBalanced ==
  ASSUME BInv, SimilarAnswered
  PROVE  Rested' /\ TimelyReply' /\ Sought' /\ Timed' /\ Accounts'
<1>1. /\ dbq # <<>> /\ dbq' = Tail(dbq) /\ Head(dbq).kind = "similar"
      /\ UNCHANGED <<up, list, found, reply, due, replyq, late>>
  BY DEF SimilarAnswered, Answered
<1>2. RequestsOK /\ QInv /\ up /\ Sought /\ Timed /\ Accounts /\ Rested /\ TimelyReply
  BY <1>1, Running DEF BInv, QInv
<1>3. PICK r, k, s : r = Head(dbq).req /\ k = Head(dbq).item /\ s = Head(dbq).store
  OBVIOUS
<1>4. Compared(r)
  <2>1. Head(dbq) = dbq[1] /\ 1 \in DOMAIN dbq
    BY <1>1, <1>2, Tailed DEF RequestsOK
  <2> QED BY <1>1, <1>2, <1>3, <2>1 DEF Sought
<1>5. r \in Requests /\ s \in Store /\ \A t \in Requests \ {r} : Awaited(t)' = Awaited(t)
  BY <1>1, <1>2, <1>3, AwaitedTail
<1>6. \A t \in Requests \ {r} : quote'[t] = quote[t]
  <2>1. quote \in [Requests -> [Store -> Part]]
    BY <1>2 DEF QInv, Quoted
  <2> QED BY <1>3, <1>5, <2>1 DEF SimilarAnswered, Asker
<1>7. ASSUME NEW t \in Requests, Compared(t)' PROVE Accounted(t)' /\ AllLookedUp(t)'
  <2>1. Accounted(t) /\ AllLookedUp(t)
    BY <1>1, <1>2, <1>7 DEF Accounts, Compared
  <2>2. Accounted(t)'
    <3>1. CASE t = r
      BY <1>3, <3>1, SimilarAccounted
    <3>2. CASE t # r
      BY <1>1, <1>5, <1>6, <2>1, <3>2, UndecidedUnchanged, StillAccounted
    <3> QED BY <3>1, <3>2
  <2>3. ASSUME NEW j, NEW u, IsQueued(LookupIn(t, j, u)) PROVE IsQueued(LookupIn(t, j, u))'
    <3>1. Head(dbq) # LookupIn(t, j, u)
      BY <1>1 DEF LookupIn
    <3> QED BY <1>1, <1>2, <2>3, <3>1, LookupsRest
  <2> QED BY <1>1, <2>1, <2>2, <2>3, StillLookedUp
<1>8. Accounts'
  BY <1>7 DEF Accounts
<1>9. Sought' /\ Timed'
  BY <1>1, <1>2, TailSought, StillTimed
<1>10. TimelyReply'
  BY <1>1, <1>2, StillTimely
<1>11. Rested'
  BY <1>1, <1>2, <1>4, <1>6 DEF Rested, Compared
<1> QED BY <1>8, <1>9, <1>10, <1>11

\* No timer and no query of its own is left when a reply in time is sent.
LEMMA ReplyComplete ==
  ASSUME BInv, Respond, NEW r, r = Head(replyq), r \notin late'
  PROVE  \E place : Complete(list[r].names, place, quote[r], Undecided(r), Awaited(r))
<1>1. /\ replyq # <<>> /\ ReplyDue(r)
      /\ late' = IF \E k \in 1 .. Len(list[r].names) : Pending(r, k, "similar")
                   THEN late \cup {r} ELSE late
  BY DEF Respond
<1>2. QInv /\ RequestsOK /\ Accounts
  BY <1>1, Running DEF BInv, QInv
<1>3. r \in Requests /\ Compared(r)
  <2>1. r = replyq[1] /\ 1 \in DOMAIN replyq /\ r \in Requests
    BY <1>1, <1>2, Tailed DEF RequestsOK
  <2> QED BY <1>2, <2>1 DEF QInv, Replied, Compared
<1>4. Undecided(r) = {}
  BY <1>1 DEF ReplyDue, Undecided, Timer, Range
<1>5. r \notin late /\ \A k \in 1 .. Len(list[r].names) : ~ Pending(r, k, "similar")
  BY <1>1
<1>6. ASSUME NEW s \in Store PROVE Awaited(r)[s] = {}
  <2> SUFFICES ASSUME NEW k \in DOMAIN list[r].names, IsQueued(SimilarIn(r, k, s))
               PROVE  FALSE
    BY DEF Awaited
  <2>1. PICK n \in DOMAIN dbq : dbq[n] = SimilarIn(r, k, s)
    BY DEF IsQueued, Range
  <2>2. dbq[n].req = r /\ dbq[n].item = k /\ dbq[n].kind = "similar"
    BY <2>1 DEF SimilarIn
  <2>3. k \in 1 .. Len(list[r].names)
    BY <1>2, <1>3, ListOfRequest
  <2> QED BY <1>5, <2>2, <2>3 DEF Pending
<1>7. PICK place :
        /\ Quoting(list[r].names, place, quote[r], Undecided(r), Awaited(r))
        /\ Timely(list[r].names, place, quote[r], Undecided(r), Awaited(r))
  BY <1>2, <1>3, <1>5 DEF Accounts, Accounted
<1> QED BY <1>4, <1>6, <1>7 DEF Complete

\* What is sent lists the rows of the quote.
LEMMA ConvertedIs ==
  ASSUME NEW info \in [Store -> Part], NEW s \in Store
  PROVE  LET part == ConvertToJson(info)[s] IN
         /\ part.cost = info[s].cost /\ part.unknown = info["Walmart"].unknown
         /\ DOMAIN part.items = DOMAIN info[s].items
         /\ \A n \in DOMAIN info[s].items : part.items[n].row = info[s].items[n].row
<1> DEFINE items == info[s].items
<1>1. /\ ConvertToJson(info)[s].cost = info[s].cost
      /\ ConvertToJson(info)[s].unknown = info["Walmart"].unknown
      /\ ConvertToJson(info)[s].items = JsonItems(items)
  BY DEF ConvertToJson
<1>2. DOMAIN items = 1 .. Len(items)
  BY DEF Part
<1> HIDE DEF items
<1>3. /\ DOMAIN JsonItems(items) = DOMAIN items
      /\ \A n \in DOMAIN items : JsonItems(items)[n].row = items[n].row
  BY <1>2 DEF JsonItems
<1> QED BY <1>1, <1>3 DEF items

LEMMA RespondBalanced ==
  ASSUME BInv, Respond
  PROVE  Rested' /\ TimelyReply' /\ Sought' /\ Timed' /\ Accounts'
<1>1. PICK r : r = Head(replyq)
  OBVIOUS
<1>2. /\ replyq # <<>> /\ replyq' = Tail(replyq)
      /\ reply' = [reply EXCEPT ![r] =
                     [kind |-> "compare", quote |-> ConvertToJson(quote[r])]]
      /\ UNCHANGED <<up, list, found, quote, dbq, due>> /\ late \subseteq late'
  BY <1>1 DEF Respond, Expired
<1>3. RequestsOK /\ QInv /\ up /\ Sought /\ Timed /\ Accounts /\ Rested /\ TimelyReply
  BY <1>2, Running DEF BInv, QInv
<1>4. /\ r = replyq[1] /\ 1 \in DOMAIN replyq /\ r \in Requests /\ Compared(r)
  <2>1. r = replyq[1] /\ 1 \in DOMAIN replyq /\ r \in Requests
    BY <1>1, <1>2, <1>3, Tailed DEF RequestsOK
  <2> QED BY <1>3, <2>1 DEF QInv, Replied, Compared
<1>5. /\ reply'[r] = [kind |-> "compare", quote |-> ConvertToJson(quote[r])]
      /\ \A t \in Requests \ {r} : reply'[t] = reply[t]
  BY <1>2, <1>3, <1>4 DEF QInv, Replied
<1>6. ASSUME r \notin late', NEW s \in Store
      PROVE  Truthful(list[r].names, s, reply'[r].quote[s])
  <2>1. PICK place : Complete(list[r].names, place, quote[r], Undecided(r), Awaited(r))
    BY <1>1, <1>6, ReplyComplete
  <2>2. quote[r] \in [Store -> Part]
    BY <1>3, <1>4 DEF QInv, Quoted
  <2>3. PICK part : part = ConvertToJson(quote[r])[s]
    OBVIOUS
  <2>4. Truthful(list[r].names, s, part)
    BY <2>1, <2>2, <2>3, ConvertedIs, CompleteIsTruthful
  <2> QED BY <1>5, <2>3, <2>4
<1>7. TimelyReply'
  BY <1>2, <1>3, <1>5, <1>6, StillTimely
<1>8. Sought'
  <2>1. \A n \in DOMAIN dbq : dbq[n].kind = "search" => dbq[n].req \in Requests \ {r}
    BY <1>3, <1>4, QueryOf DEF QInv, Replied, Compared
  <2> QED BY <1>2, <1>3, <1>5, <2>1 DEF Sought, Compared, Asked
<1>9. Timed'
  <2>1. replyq \in Seq(Requests)
    BY <1>3 DEF RequestsOK
  <2>2. /\ Len(replyq) \in Nat /\ DOMAIN replyq = 1 .. Len(replyq)
        /\ DOMAIN replyq' = 1 .. Len(replyq) - 1
        /\ \A n \in DOMAIN replyq' : n + 1 \in DOMAIN replyq /\ replyq'[n] = replyq[n + 1]
    BY <1>2, <2>1
  <2>3. ASSUME NEW m \in DOMAIN replyq', NEW n \in DOMAIN replyq', replyq'[m] = replyq'[n]
        PROVE  m = n
    <3>1. m + 1 = n + 1
      BY <1>3, <2>2, <2>3 DEF Timed, IsInjective
    <3> QED BY <2>2, <3>1
  <2>4. ASSUME NEW n \in DOMAIN replyq' PROVE reply'[replyq'[n]] = NoReply
    <3>1. PICK m \in DOMAIN replyq : m = n + 1 /\ m # 1 /\ replyq'[n] = replyq[m]
      BY <2>2
    <3>2. replyq[m] \in Requests \ {r}
      BY <1>3, <1>4, <2>1, <3>1 DEF Timed, IsInjective
    <3> QED BY <1>3, <1>5, <3>1, <3>2 DEF Timed
  <2>5. IsInjective(replyq')
    BY <2>3 DEF IsInjective
  <2> QED BY <1>2, <1>3, <2>4, <2>5 DEF Timed, Compared
<1>10. ASSUME NEW t \in Requests, Compared(t)' PROVE Accounted(t)' /\ AllLookedUp(t)'
  <2>1. Accounted(t) /\ AllLookedUp(t)
    BY <1>2, <1>3, <1>10 DEF Accounts, Compared
  <2>2. Awaited(t)' = Awaited(t) /\ Undecided(t)' = Undecided(t)
    BY <1>2, AwaitedUnchanged, UndecidedUnchanged
  <2>3. \A k, s : IsQueued(LookupIn(t, k, s)) => IsQueued(LookupIn(t, k, s))'
    BY <1>2 DEF IsQueued
  <2> QED BY <1>2, <2>1, <2>2, <2>3, StillAccounted, StillLookedUp
<1>11. Accounts'
  BY <1>10 DEF Accounts
<1>12. Rested'
  BY <1>2, <1>3, <1>5 DEF Rested, Compared
<1> QED BY <1>7, <1>8, <1>9, <1>11, <1>12

LEMMA CrashBalanced ==
  ASSUME BInv, Crash
  PROVE  Rested' /\ TimelyReply' /\ ~ up'
<1>1. /\ up' = FALSE /\ dbq' = <<>> /\ due' = <<>> /\ replyq' = <<>>
      /\ UNCHANGED <<list, found, quote, reply, late>>
  BY DEF Crash
<1>2. Rested /\ TimelyReply
  BY DEF BInv
<1>3. TimelyReply'
  BY <1>1, <1>2, StillTimely
<1>4. Rested'
  BY <1>1, <1>2 DEF Rested, Compared
<1> QED BY <1>1, <1>3, <1>4

\* A timer finds what the table has, or nothing because the answer is late.
LEMMA WhatIsFound ==
  ASSUME RequestsOK, NEW r \in Requests, NEW k \in DOMAIN list[r].names, AllLookedUp(r),
         NEW s \in Store
  PROVE  /\ IsIn(r, k, s) =>
              /\ Sells(s, list[r].names[k]) /\ Found(r, k, s) = Offer(s, list[r].names[k])
              /\ Offers(s, list[r].names[k])
              /\ Found(r, k, s) \in Service!MayList(s, list[r].names[k])
         /\ ~ Pending(r, k, "lookup") => (IsIn(r, k, s) <=> Sells(s, list[r].names[k]))
<1> DEFINE name == list[r].names[k]
<1>1. LookedUp(r, k, s)
  BY DEF AllLookedUp
<1>2. ASSUME IsIn(r, k, s)
      PROVE  /\ Sells(s, name) /\ Offers(s, name) /\ Found(r, k, s) = Offer(s, name)
  BY <1>1, <1>2 DEF LookedUp, IsIn, Sells, Offers, Offer, Found
<1>3. ASSUME Sells(s, name) PROVE Offer(s, name) \in Service!MayList(s, name)
  <2> DEFINE P == Places(s, name)
  <2>1. P \in SUBSET Nat /\ P # {} /\ P \subseteq DOMAIN Table[s]
    BY <1>3, PlacesAreNats DEF Sells, Places
  <2>2. Offer(s, name) = Table[s][Min(P)]
    BY <1>3 DEF Offer, First
  <2> HIDE DEF P
  <2>3. Offer(s, name) \in Range(Table[s])
    BY <2>1, <2>2, LeastExists DEF Range
  <2>4. Offers(s, name)
    BY <1>3 DEF Offers
  <2> QED BY <2>3, <2>4, MayListIs
<1>4. ASSUME ~ Pending(r, k, "lookup") PROVE found[r][k][s] = Places(s, name)
  <2>1. ~ IsQueued(LookupIn(r, k, s))
    BY <1>4 DEF IsQueued, Range, Pending, LookupIn
  <2> QED BY <1>1, <2>1 DEF LookedUp
<1>5. ~ Pending(r, k, "lookup") => (IsIn(r, k, s) <=> Sells(s, name))
  BY <1>4 DEF IsIn, Sells
<1> QED BY <1>2, <1>3, <1>5

\* The quote of the item's request after its timer.
LEMMA DeadlineAccounted ==
  ASSUME BInv, Deadline, NEW r, NEW k, Head(due)[1] = r, Head(due)[2] = k
  PROVE  Accounted(r)'
<1>1. /\ due # <<>> /\ due' = Tail(due) /\ UNCHANGED <<up, list, found, reply, replyq>>
      /\ late' = IF Pending(r, k, "lookup") THEN late \cup {r} ELSE late
      /\ InBoth(r, k) \/ (\E s \in Store : InOne(r, k, s)) \/ InNeither(r, k)
  BY DEF Deadline
<1>2. QInv /\ RequestsOK /\ Timed /\ Accounts
  BY <1>1, Running DEF BInv, QInv
<1>3. r \in Requests /\ k \in Undecided(r) /\ Undecided(r)' = Undecided(r) \ {k}
  BY <1>1, <1>2, DueTail
<1> DEFINE names == list[r].names
<1>4. names \in Lists /\ k \in DOMAIN names
  BY <1>2, <1>3, ListOfRequest DEF Undecided
<1>5. Compared(r)
  <2>1. Head(due) = due[1] /\ 1 \in DOMAIN due
    BY <1>1, <1>2, Tailed DEF RequestsOK
  <2> QED BY <1>2, <2>1 DEF Timed
<1>6. Accounted(r) /\ AllLookedUp(r)
  BY <1>2, <1>3, <1>5 DEF Accounts
<1>7. PICK place :
        /\ Quoting(names, place, quote[r], Undecided(r), Awaited(r))
        /\ r \notin late => Timely(names, place, quote[r], Undecided(r), Awaited(r))
  BY <1>6 DEF Accounted
<1>8. /\ quote \in [Requests -> [Store -> Part]]
      /\ r \notin late' => r \notin late /\ ~ Pending(r, k, "lookup")
  BY <1>1, <1>2 DEF QInv, Quoted
<1>9. \A s \in Store :
        /\ IsIn(r, k, s) =>
             /\ Sells(s, names[k]) /\ Found(r, k, s) = Offer(s, names[k])
             /\ Offers(s, names[k]) /\ Found(r, k, s) \in Service!MayList(s, names[k])
        /\ ~ Pending(r, k, "lookup") => (IsIn(r, k, s) <=> Sells(s, names[k]))
  BY <1>2, <1>3, <1>4, <1>6, WhatIsFound
<1>10. CASE InBoth(r, k)
  <2> DEFINE rows == [s \in Store |-> Found(r, k, s)]
             more == AddedToBoth(quote[r], rows, TRUE)
             now == PlacedInBoth(place, k)
  <2>1. quote'[r] = more /\ dbq' = dbq
    <3>1. more = [s \in Store |-> Added(quote[r][s], Found(r, k, s), TRUE)]
      BY DEF AddedToBoth
    <3> HIDE DEF more
    <3> QED BY <1>3, <1>8, <1>10, <3>1 DEF InBoth
  <2>2. \A s \in Store :
          /\ rows[s] = Offer(s, names[k]) /\ Offers(s, names[k])
          /\ rows[s] \in Service!MayList(s, names[k])
    BY <1>9, <1>10 DEF InBoth
  <2> HIDE DEF rows
  <2>3. Quoting(names, now, more, Undecided(r) \ {k}, Awaited(r))
    <3>1. \A s \in Store : rows[s] \in Service!MayList(s, names[k])
      BY <2>2
    <3>2. Quoting(names, place, quote[r], Undecided(r), Awaited(r)) /\ TRUE \in BOOLEAN
      BY <1>7
    <3> QED BY <1>3, <3>1, <3>2, BothListed
  <2>4. r \notin late' => Timely(names, now, more, Undecided(r) \ {k}, Awaited(r))
    <3> SUFFICES ASSUME r \notin late'
                 PROVE  Timely(names, now, more, Undecided(r) \ {k}, Awaited(r))
      OBVIOUS
    <3>1. \A s \in Store : Offers(s, names[k]) /\ rows[s] = Offer(s, names[k])
      BY <2>2
    <3>2. /\ Quoting(names, place, quote[r], Undecided(r), Awaited(r))
          /\ Timely(names, place, quote[r], Undecided(r), Awaited(r)) /\ TRUE \in BOOLEAN
      BY <1>7, <1>8
    <3> QED BY <1>3, <3>1, <3>2, BothInTime
  <2>5. Awaited(r)' = Awaited(r)
    BY <1>1, <2>1, AwaitedUnchanged
  <2> HIDE DEF more, now
  <2>6. /\ Quoting(list'[r].names, now, quote'[r], Undecided(r)', Awaited(r)')
        /\ r \notin late' =>
             Timely(list'[r].names, now, quote'[r], Undecided(r)', Awaited(r)')
    BY <1>1, <1>3, <2>1, <2>3, <2>4, <2>5
  <2> QED BY <1>3, <2>6, NowAccounted
<1>11. ASSUME NEW s \in Store, InOne(r, k, s) PROVE Accounted(r)'
  <2> DEFINE row == Found(r, k, s)
             more == [quote[r] EXCEPT ![s] = Added(@, row, FALSE)]
             now == [place EXCEPT ![s] = Append(@, k)]
             aw == [Awaited(r) EXCEPT ![Other(s)] = @ \cup {k}]
  <2>1. quote'[r] = more
    <3>1. quote' = [quote EXCEPT ![r][s] = Added(@, row, FALSE)]
      BY <1>11 DEF InOne
    <3> QED BY <1>3, <1>8, <3>1
  <2>2. /\ row = Offer(s, names[k]) /\ Sells(s, names[k])
        /\ row \in Service!MayList(s, names[k])
        /\ r \notin late' => ~ Sells(Other(s), names[k])
    BY <1>8, <1>9, <1>11, TwoStores DEF InOne
  <2>3. Awaited(r)' = aw
    <3>1. SimilarIn(r, k, Other(s)) \in Query
      <4>1. k \in 1 .. MaxItems
        BY <1>4, ListLength, ServerAssumption
      <4> QED BY <1>3, <4>1, TwoStores DEF SimilarIn, Query
    <3>2. dbq' = Append(dbq, SimilarIn(r, k, Other(s)))
      BY <1>11 DEF InOne, SimilarIn
    <3> QED BY <1>1, <1>2, <1>3, <1>4, <3>1, <3>2, TwoStores, AwaitedMore
  <2> HIDE DEF row
  <2>4. Quoting(names, now, more, Undecided(r) \ {k}, aw)
    BY <1>3, <1>7, <2>2, OneListed
  <2>5. r \notin late' => Timely(names, now, more, Undecided(r) \ {k}, aw)
    BY <1>3, <1>7, <1>8, <2>2, OneInTime
  <2> HIDE DEF more, now, aw
  <2>6. /\ Quoting(list'[r].names, now, quote'[r], Undecided(r)', Awaited(r)')
        /\ r \notin late' =>
             Timely(list'[r].names, now, quote'[r], Undecided(r)', Awaited(r)')
    BY <1>1, <1>3, <2>1, <2>3, <2>4, <2>5
  <2> QED BY <1>3, <2>6, NowAccounted
<1>12. CASE InNeither(r, k)
  <2> DEFINE more == [s \in Store |-> [quote[r][s] EXCEPT !.unknown = @ + 1]]
  <2>1. quote'[r] = more /\ dbq' = dbq
    <3>1. quote' = [quote EXCEPT ![r] = more]
      BY <1>12 DEF InNeither, UnknownIn
    <3> HIDE DEF more
    <3> QED BY <1>3, <1>8, <1>12, <3>1 DEF InNeither
  <2>2. r \notin late' => \A s \in Store : ~ Sells(s, names[k])
    BY <1>8, <1>9, <1>12 DEF InNeither
  <2>3. Quoting(names, place, more, Undecided(r) \ {k}, Awaited(r))
    BY <1>3, <1>7, NoneListed
  <2>4. r \notin late' => Timely(names, place, more, Undecided(r) \ {k}, Awaited(r))
    BY <1>3, <1>7, <1>8, <2>2, NoneInTime
  <2>5. Awaited(r)' = Awaited(r)
    BY <1>1, <2>1, AwaitedUnchanged
  <2> HIDE DEF more
  <2>6. /\ Quoting(list'[r].names, place, quote'[r], Undecided(r)', Awaited(r)')
        /\ r \notin late' =>
             Timely(list'[r].names, place, quote'[r], Undecided(r)', Awaited(r)')
    BY <1>1, <1>3, <2>1, <2>3, <2>4, <2>5
  <2> QED BY <1>3, <2>6, NowAccounted
<1> QED BY <1>1, <1>10, <1>11, <1>12

\* What the timer asks for is sold by the store that was found to, and is not
\* sought already.
LEMMA DeadlineSought ==
  ASSUME BInv, Deadline
  PROVE  Sought'
<1>1. PICK r, k : r = Head(due)[1] /\ k = Head(due)[2]
  OBVIOUS
<1>2. /\ due # <<>> /\ UNCHANGED <<list, reply>>
      /\ InBoth(r, k) \/ (\E s \in Store : InOne(r, k, s)) \/ InNeither(r, k)
  BY <1>1 DEF Deadline
<1>3. QInv /\ RequestsOK /\ Sought /\ Timed /\ Accounts
  BY <1>2, Running DEF BInv, QInv
<1>4. /\ Head(due) = due[1] /\ 1 \in DOMAIN due /\ r \in Requests
      /\ k \in 1 .. Len(list[r].names) /\ Timer(r, k)
  <2>1. /\ Head(due) = due[1] /\ 1 \in DOMAIN due /\ due[1] \in Requests \X Nat
        /\ due[1][2] \in 1 .. Len(list[due[1][1]].names)
    BY <1>2, <1>3, Tailed DEF RequestsOK
  <2>2. due[1] = <<r, k>>
    BY <1>1, <2>1
  <2> QED BY <1>1, <2>1, <2>2 DEF Timer, Range
<1>5. Compared(r) /\ Accounted(r) /\ AllLookedUp(r)
  BY <1>1, <1>3, <1>4 DEF Timed, Accounts
<1>6. k \in DOMAIN list[r].names /\ k \in Undecided(r)
  BY <1>3, <1>4, ListOfRequest DEF Undecided
<1>7. CASE dbq' = dbq
  BY <1>2, <1>3, <1>7 DEF Sought, Compared, Asked
<1>8. ASSUME NEW s \in Store, InOne(r, k, s) PROVE Sought'
  <2>1. PICK q : q = SimilarIn(r, k, Other(s))
    OBVIOUS
  <2>2. /\ q.req = r /\ q.item = k /\ q.kind = "similar" /\ q.store = Other(s)
    BY <2>1 DEF SimilarIn
  <2>3. dbq' = Append(dbq, q)
    BY <1>8, <2>1 DEF InOne, SimilarIn
  <2>4. q \in Query
    <3>1. k \in 1 .. MaxItems
      BY <1>3, <1>4, ListOfRequest, ListLength, ServerAssumption
    <3> QED BY <1>4, <2>1, <3>1, TwoStores DEF SimilarIn, Query
  <2>5. \A n \in DOMAIN dbq : dbq[n] # q
    <3>1. ~ IsQueued(q)
      <4>1. PICK place : Quoting(list[r].names, place, quote[r], Undecided(r), Awaited(r))
        BY <1>5 DEF Accounted
      <4>2. k \notin Awaited(r)[Other(s)] /\ Other(s) \in Store
        BY <1>6, <4>1, TwoStores, Free
      <4> QED BY <1>6, <2>1, <4>2 DEF Awaited
    <3> QED BY <3>1 DEF IsQueued, Range
  <2>6. Sells(Other(q.store), list[r].names[k])
    BY <1>3, <1>4, <1>5, <1>6, <1>8, <2>2, TwoStores, WhatIsFound DEF InOne
  <2>7. /\ dbq \in Seq(Query) /\ Len(dbq) \in Nat /\ DOMAIN dbq = 1 .. Len(dbq)
        /\ DOMAIN dbq' = 1 .. Len(dbq) + 1
        /\ \A n \in DOMAIN dbq' :
             \/ n \in DOMAIN dbq /\ dbq'[n] = dbq[n]
             \/ n = Len(dbq) + 1 /\ dbq'[n] = q
    <3>1. dbq \in Seq(Query) /\ Len(dbq) \in Nat /\ DOMAIN dbq = 1 .. Len(dbq)
      BY <1>3 DEF RequestsOK
    <3>2. DOMAIN dbq' = 1 .. Len(dbq) + 1
      BY <2>3, <2>4, <3>1
    <3>3. ASSUME NEW n \in DOMAIN dbq'
          PROVE  \/ n \in DOMAIN dbq /\ dbq'[n] = dbq[n]
                 \/ n = Len(dbq) + 1 /\ dbq'[n] = q
      BY <2>3, <2>4, <3>1, Appended
    <3>4. \A n \in DOMAIN dbq' :
            \/ n \in DOMAIN dbq /\ dbq'[n] = dbq[n]
            \/ n = Len(dbq) + 1 /\ dbq'[n] = q
      BY <3>3
    <3> QED BY <3>1, <3>2, <3>4, Zenon
  <2>8. ASSUME NEW n \in DOMAIN dbq'
        PROVE  /\ dbq'[n].kind = "similar" =>
                    Compared(dbq[n].req)' /\ Sells(Other(dbq'[n].store), Asked(dbq[n])')
               /\ dbq'[n].kind = "search" => reply'[dbq'[n].req] = NoReply
    <3>1. CASE n \in DOMAIN dbq /\ dbq'[n] = dbq[n]
      BY <1>2, <1>3, <3>1 DEF Sought, Compared, Asked
    <3>2. CASE dbq'[n] = q
      BY <1>2, <1>5, <2>2, <2>6, <3>2 DEF Compared, Asked
    <3> QED BY <2>7, <3>1, <3>2
  <2>9. ASSUME NEW m \in DOMAIN dbq', NEW n \in DOMAIN dbq', dbq'[m] = dbq'[n],
               dbq'[m].kind # "lookup"
        PROVE  m = n
    <3>1. CASE m \in DOMAIN dbq /\ n \in DOMAIN dbq
      <4>1. dbq'[m] = dbq[m] /\ dbq'[n] = dbq[n]
        BY <2>7, <3>1
      <4> QED BY <1>3, <2>9, <3>1, <4>1 DEF Sought
    <3>2. CASE m \in DOMAIN dbq /\ n \notin DOMAIN dbq
      BY <2>5, <2>7, <2>9, <3>2
    <3>3. CASE m \notin DOMAIN dbq /\ n \in DOMAIN dbq
      BY <2>5, <2>7, <2>9, <3>3
    <3>4. CASE m \notin DOMAIN dbq /\ n \notin DOMAIN dbq
      BY <2>7, <3>4
    <3> QED BY <3>1, <3>2, <3>3, <3>4
  <2> QED BY <2>8, <2>9 DEF Sought
<1> QED BY <1>2, <1>7, <1>8 DEF InBoth, InNeither

LEMMA DeadlineBalanced ==
  ASSUME BInv, Deadline
  PROVE  Rested' /\ TimelyReply' /\ Sought' /\ Timed' /\ Accounts'
<1>1. PICK r, k : r = Head(due)[1] /\ k = Head(due)[2]
  OBVIOUS
<1>2. /\ due # <<>> /\ due' = Tail(due) /\ UNCHANGED <<up, list, found, reply, replyq>>
      /\ late' = IF Pending(r, k, "lookup") THEN late \cup {r} ELSE late
      /\ InBoth(r, k) \/ (\E s \in Store : InOne(r, k, s)) \/ InNeither(r, k)
  BY <1>1 DEF Deadline
<1>3. QInv /\ RequestsOK /\ up /\ Sought /\ Timed /\ Accounts /\ Rested /\ TimelyReply
  BY <1>2, Running DEF BInv, QInv
<1>4. /\ r \in Requests /\ k \in Undecided(r)
      /\ \A t \in Requests \ {r} : Undecided(t)' = Undecided(t)
  BY <1>1, <1>2, <1>3, DueTail
<1>5. Compared(r)
  <2>1. Head(due) = due[1] /\ 1 \in DOMAIN due
    BY <1>2, <1>3, Tailed DEF RequestsOK
  <2> QED BY <1>1, <1>3, <2>1 DEF Timed
<1>6. \A t \in Requests \ {r} : quote'[t] = quote[t]
  <2>1. quote \in [Requests -> [Store -> Part]]
    BY <1>3 DEF QInv, Quoted
  <2> QED BY <1>2, <1>4, <2>1 DEF InBoth, InOne, InNeither
<1>7. \/ dbq' = dbq
      \/ \E s \in Store : SimilarIn(r, k, s) \in Query /\ dbq' = Append(dbq, SimilarIn(r, k, s))
  <2>1. ASSUME NEW s \in Store, InOne(r, k, s)
        PROVE  /\ Other(s) \in Store /\ SimilarIn(r, k, Other(s)) \in Query
               /\ dbq' = Append(dbq, SimilarIn(r, k, Other(s)))
    <3>1. k \in 1 .. MaxItems
      BY <1>3, <1>4, ListOfRequest, ListLength, ServerAssumption DEF Undecided
    <3> QED BY <1>4, <2>1, <3>1, TwoStores DEF InOne, SimilarIn, Query
  <2> QED BY <1>2, <2>1 DEF InBoth, InNeither
<1>8. /\ \A t \in Requests \ {r} : Awaited(t)' = Awaited(t)
      /\ \A q : IsQueued(q) => IsQueued(q)'
  <2>1. CASE dbq' = dbq
    BY <1>2, <2>1, AwaitedUnchanged DEF IsQueued
  <2>2. ASSUME NEW s \in Store, SimilarIn(r, k, s) \in Query,
               dbq' = Append(dbq, SimilarIn(r, k, s))
        PROVE  /\ \A t \in Requests \ {r} : Awaited(t)' = Awaited(t)
               /\ \A q : IsQueued(q) => IsQueued(q)'
    <3>1. k \in DOMAIN list[r].names
      BY <1>4 DEF Undecided
    <3>2. \A t \in Requests \ {r} : Awaited(t)' = Awaited(t)
      BY <1>2, <1>3, <1>4, <2>2, <3>1, AwaitedMore
    <3>3. Range(dbq') = Range(dbq) \cup {SimilarIn(r, k, s)}
      BY <1>3, <2>2, RangeAppended DEF RequestsOK
    <3> QED BY <3>2, <3>3 DEF IsQueued
  <2> QED BY <1>7, <2>1, <2>2
<1>9. ASSUME NEW t \in Requests, Compared(t)' PROVE Accounted(t)' /\ AllLookedUp(t)'
  <2>1. Accounted(t) /\ AllLookedUp(t)
    BY <1>2, <1>3, <1>9 DEF Accounts, Compared
  <2>2. Accounted(t)'
    <3>1. CASE t = r
      BY <1>1, <3>1, DeadlineAccounted
    <3>2. CASE t # r
      BY <1>2, <1>4, <1>6, <1>8, <2>1, <3>2, StillAccounted
    <3> QED BY <3>1, <3>2
  <2> QED BY <1>2, <1>8, <2>1, <2>2, StillLookedUp
<1>10. Accounts'
  BY <1>9 DEF Accounts
<1>11. TimelyReply'
  BY <1>2, <1>3, StillTimely
<1>12. Rested'
  BY <1>2, <1>3, <1>4, <1>5, <1>6 DEF Rested, Compared
<1>13. Timed'
  <2>1. \A n \in DOMAIN due' : n + 1 \in DOMAIN due /\ due'[n] = due[n + 1]
    BY <1>2, <1>3, Tailed DEF RequestsOK
  <2> QED BY <1>2, <1>3, <2>1 DEF Timed, Compared
<1> QED BY <1>10, <1>11, <1>12, <1>13, DeadlineSought

LEMMA ConcatenatedRange ==
  ASSUME NEW S, NEW a \in Seq(S), NEW b \in Seq(S)
  PROVE  Range(a \o b) = Range(a) \cup Range(b)
<1> DEFINE c == a \o b
<1>1. /\ Len(a) \in Nat /\ Len(b) \in Nat
      /\ DOMAIN a = 1 .. Len(a) /\ DOMAIN b = 1 .. Len(b) /\ DOMAIN c = 1 .. Len(a) + Len(b)
  OBVIOUS
<1>2. \A n \in DOMAIN a : n \in DOMAIN c /\ c[n] = a[n]
  OBVIOUS
<1>3. \A n \in DOMAIN b : n + Len(a) \in DOMAIN c /\ c[n + Len(a)] = b[n]
  BY <1>1
<1>4. \A n \in DOMAIN c :
        \/ n \in DOMAIN a /\ c[n] = a[n]
        \/ n - Len(a) \in DOMAIN b /\ c[n] = b[n - Len(a)]
  BY Concatenated
<1> HIDE DEF c
<1>5. Range(c) = Range(a) \cup Range(b)
  BY <1>2, <1>3, <1>4 DEF Range
<1> QED BY <1>5 DEF c

\* A request of this kind arrives with these queries and timers.
Arrives(r, kind, names, qs, ts) ==
  /\ r \in Requests /\ list[r].kind = "no" /\ kind \in {"compare", "search"} /\ names \in Lists
  /\ qs \in Seq(Query) /\ ts \in Seq({r} \X (1 .. Len(names)))
  /\ \A n \in DOMAIN qs : qs[n].req = r /\ qs[n].kind \in {"lookup", "search"}
  /\ \A m, n \in DOMAIN qs : qs[m].kind = "search" => m = n
  /\ kind = "compare" => /\ \A k \in DOMAIN names : <<r, k>> \in Range(ts)
                         /\ \A k \in DOMAIN names, s \in Store : LookupIn(r, k, s) \in Range(qs)
  /\ kind = "search" => ts = <<>>
  /\ list' = [list EXCEPT ![r] = [kind |-> kind, names |-> names]]
  /\ found' = [found EXCEPT ![r] = [k \in 1 .. Len(names) |-> [s \in Store |-> {}]]]
  /\ dbq' = dbq \o qs /\ due' = due \o ts
  /\ replyq' = IF kind = "compare" THEN Append(replyq, r) ELSE replyq
  /\ UNCHANGED <<up, quote, reply, late>>

\* What the queues hold of the requests then.
LEMMA ArrivalQueues ==
  ASSUME RequestsOK, NEW r, NEW kind, NEW names, NEW qs, NEW ts,
         Arrives(r, kind, names, qs, ts)
  PROVE  /\ list'[r] = [kind |-> kind, names |-> names]
         /\ \A t \in Requests \ {r} : list'[t] = list[t] /\ found'[t] = found[t]
         /\ \A k \in DOMAIN names, s \in Store : found'[r][k][s] = {}
         /\ \A t \in Requests \ {r} : Undecided(t)' = Undecided(t) /\ Awaited(t)' = Awaited(t)
         /\ \A q : IsQueued(q) => IsQueued(q)'
         /\ Awaited(r)' = [s \in Store |-> {}]
         /\ kind = "compare" =>
              /\ Undecided(r)' = DOMAIN names
              /\ \A k \in DOMAIN names, s \in Store : IsQueued(LookupIn(r, k, s))'
<1> USE DEF Arrives
<1>1. /\ DOMAIN list = Requests /\ DOMAIN found = Requests /\ DOMAIN names = 1 .. Len(names)
      /\ dbq \in Seq(Query) /\ due \in Seq(Requests \X Nat) /\ ts \in Seq(Requests \X Nat)
  <2>1. ts \in Seq(Requests \X Nat)
    OBVIOUS
  <2> QED BY <2>1, ListLength DEF RequestsOK
<1>2. /\ list'[r] = [kind |-> kind, names |-> names]
      /\ \A t \in Requests \ {r} : list'[t] = list[t] /\ found'[t] = found[t]
      /\ found'[r] = [k \in 1 .. Len(names) |-> [s \in Store |-> {}]]
  BY <1>1
<1>3. \A k \in DOMAIN names, s \in Store : found'[r][k][s] = {}
  BY <1>1, <1>2
<1>4. Range(dbq') = Range(dbq) \cup Range(qs) /\ Range(due') = Range(due) \cup Range(ts)
  BY <1>1, ConcatenatedRange
<1>5. \A q : IsQueued(q)' <=> IsQueued(q) \/ q \in Range(qs)
  BY <1>4 DEF IsQueued
<1>6. \A t, k, s : ~ SimilarIn(t, k, s) \in Range(qs)
  <2>1. \A t, k, s : SimilarIn(t, k, s).kind = "similar"
    BY DEF SimilarIn
  <2>2. \A q \in Range(qs) : q.kind \in {"lookup", "search"}
    BY DEF Range
  <2> QED BY <2>1, <2>2
<1>7. \A t, k, s : IsQueued(SimilarIn(t, k, s))' <=> IsQueued(SimilarIn(t, k, s))
  BY <1>5, <1>6
<1>8. ASSUME NEW t \in Requests \ {r}
      PROVE  Undecided(t)' = Undecided(t) /\ Awaited(t)' = Awaited(t)
  <2>1. Awaited(t)' = Awaited(t)
    BY <1>2, <1>7 DEF Awaited
  <2>2. ASSUME NEW k PROVE Timer(t, k)' <=> Timer(t, k)
    <3>1. <<t, k>> \notin Range(ts)
      <4>1. \A d \in Range(ts) : d[1] = r
        BY DEF Range
      <4> QED BY <4>1
    <3> QED BY <1>4, <3>1 DEF Timer
  <2>3. Undecided(t)' = Undecided(t)
    BY <1>2, <2>2 DEF Undecided
  <2> QED BY <2>1, <2>3
<1>9. Awaited(r)' = [s \in Store |-> {}]
  <2>1. ASSUME NEW k, NEW s PROVE ~ IsQueued(SimilarIn(r, k, s))'
    <3>1. \A n \in DOMAIN dbq : dbq[n].req # r
      BY NewRequest
    <3>2. SimilarIn(r, k, s).req = r
      BY DEF SimilarIn
    <3>3. SimilarIn(r, k, s) \notin Range(dbq)
      BY <3>1, <3>2 DEF Range
    <3> QED BY <1>7, <3>3 DEF IsQueued
  <2> QED BY <2>1 DEF Awaited
<1>10. ASSUME kind = "compare"
       PROVE  /\ Undecided(r)' = DOMAIN names
              /\ \A k \in DOMAIN names, s \in Store : IsQueued(LookupIn(r, k, s))'
  <2>1. \A k \in DOMAIN names : Timer(r, k)'
    BY <1>4, <1>10 DEF Timer
  <2>2. list'[r].names = names
    BY <1>2
  <2>3. Undecided(r)' = {k \in DOMAIN list'[r].names : Timer(r, k)'}
    BY DEF Undecided
  <2>4. Undecided(r)' = DOMAIN names
    BY <2>1, <2>2, <2>3
  <2> QED BY <1>5, <1>10, <2>4
<1> QED BY <1>2, <1>3, <1>5, <1>8, <1>9, <1>10

\* Nothing of the quote of a new comparison is decided.
LEMMA NothingDecided ==
  ASSUME NEW names \in Lists
  PROVE  LET place == [s \in Store |-> <<>>]
             none == [s \in Store |-> {}]
         IN /\ Quoting(names, place, EmptyQuote, DOMAIN names, none)
            /\ Timely(names, place, EmptyQuote, DOMAIN names, none)
<1> DEFINE place == [s \in Store |-> <<>>]
           none == [s \in Store |-> {}]
<1>1. \A s \in Store : place[s] = <<>> /\ Range(place[s]) = {} /\ none[s] = {}
  BY DEF Range
<1>2. \A s \in Store : /\ EmptyQuote[s].cost = 0 /\ EmptyQuote[s].items = <<>>
                       /\ EmptyQuote[s].unknown = 0
  BY DEF EmptyQuote
<1>3. /\ EmptyQuote \in [Store -> Part] /\ place \in [Store -> Seq(DOMAIN names)]
      /\ none \in [Store -> SUBSET (DOMAIN names)]
  <2>1. [cost |-> 0, items |-> <<>>, unknown |-> 0] \in Part
    BY DEF Part
  <2> QED BY <2>1 DEF EmptyQuote
<1> HIDE DEF place, none
<1>4. ASSUME NEW s \in Store PROVE Listed(names, s, place[s], EmptyQuote[s])
  <2>1. IsInjective(place[s]) /\ DOMAIN place[s] = {} /\ Len(place[s]) = 0
    BY <1>1 DEF IsInjective
  <2>2. Cost(EmptyQuote[s].items) = 0
    <3> DEFINE g == [n \in DOMAIN EmptyQuote[s].items |-> EmptyQuote[s].items[n].row.price]
    <3>1. g \in [{} -> Nat]
      BY <1>2
    <3> HIDE DEF g
    <3>2. Total(g) = 0
      BY <3>1, TotalEmpty
    <3> QED BY <3>2 DEF Cost, g
  <2> QED BY <1>2, <2>1, <2>2 DEF Listed
<1>5. \A s \in Store : Settled(s, place[s], place[Other(s)], DOMAIN names, none[s])
  BY <1>1, TwoStores DEF Settled
<1>6. Cardinality(Unlisted(names, place, DOMAIN names)) = 0
  <2>1. Unlisted(names, place, DOMAIN names) = {}
    BY DEF Unlisted
  <2> QED BY <2>1, FS_EmptySet
<1>7. Balanced(names, place, EmptyQuote, DOMAIN names, none)
  BY <1>2, <1>4, <1>5, <1>6 DEF Balanced
<1>8. Timely(names, place, EmptyQuote, DOMAIN names, none)
  BY <1>1 DEF Timely, InTime
<1>9. Quoting(names, place, EmptyQuote, DOMAIN names, none)
  BY <1>3, <1>7 DEF Quoting
<1> QED BY <1>8, <1>9 DEF place, none

LEMMA ArrivalBalanced ==
  ASSUME BInv, up, NEW r, NEW kind, NEW names, NEW qs, NEW ts,
         Arrives(r, kind, names, qs, ts)
  PROVE  Rested' /\ TimelyReply' /\ Sought' /\ Timed' /\ Accounts'
<1>1. QInv /\ RequestsOK /\ Sought /\ Timed /\ Accounts /\ Rested /\ TimelyReply
  BY DEF BInv, QInv
<1>2. /\ r \in Requests /\ list[r].kind = "no" /\ kind \in {"compare", "search"}
      /\ names \in Lists /\ up' = up
      /\ dbq' = dbq \o qs /\ due' = due \o ts /\ UNCHANGED <<quote, reply, late>>
      /\ replyq' = IF kind = "compare" THEN Append(replyq, r) ELSE replyq
      /\ qs \in Seq(Query) /\ dbq \in Seq(Query)
      /\ ts \in Seq(Requests \X Nat) /\ due \in Seq(Requests \X Nat)
      /\ replyq \in Seq(Requests)
  <2>1. names \in Lists /\ ts \in Seq({r} \X (1 .. Len(names)))
    BY DEF Arrives
  <2>2. ts \in Seq(Requests \X Nat)
    BY <2>1 DEF Arrives
  <2> QED BY <1>1, <2>2 DEF Arrives, RequestsOK
<1>3. /\ list'[r] = [kind |-> kind, names |-> names]
      /\ \A t \in Requests \ {r} : list'[t] = list[t] /\ found'[t] = found[t]
      /\ \A k \in DOMAIN names, s \in Store : found'[r][k][s] = {}
      /\ \A t \in Requests \ {r} : Undecided(t)' = Undecided(t) /\ Awaited(t)' = Awaited(t)
      /\ \A q : IsQueued(q) => IsQueued(q)'
      /\ Awaited(r)' = [s \in Store |-> {}]
      /\ kind = "compare" =>
           /\ Undecided(r)' = DOMAIN names
           /\ \A k \in DOMAIN names, s \in Store : IsQueued(LookupIn(r, k, s))'
  BY <1>1, ArrivalQueues
<1>4. ~ Compared(r) /\ reply[r] = NoReply /\ quote[r] = EmptyQuote
  BY <1>1, <1>2 DEF Compared, QInv, Replied, Rested
<1>5. \A t \in Requests \ {r} : Compared(t)' <=> Compared(t)
  BY <1>3 DEF Compared
<1>6. TimelyReply'
  BY <1>1, <1>2, <1>3, <1>4, StillTimely
<1>7. Rested'
  BY <1>1, <1>2, <1>4, <1>5 DEF Rested
<1>8. ASSUME NEW t \in Requests, Compared(t)' PROVE Accounted(t)' /\ AllLookedUp(t)'
  <2>1. CASE t = r
    <3>1. kind = "compare" /\ list'[r].names = names /\ quote'[r] = EmptyQuote
      BY <1>2, <1>3, <1>4, <1>8, <2>1 DEF Compared
    <3>2. Undecided(r)' = DOMAIN names /\ Awaited(r)' = [s \in Store |-> {}]
      BY <1>3, <3>1
    <3>3. PICK place : /\ Quoting(names, place, EmptyQuote, DOMAIN names, [s \in Store |-> {}])
                       /\ Timely(names, place, EmptyQuote, DOMAIN names, [s \in Store |-> {}])
      BY <1>2, NothingDecided
    <3>4. /\ Quoting(list'[r].names, place, quote'[r], Undecided(r)', Awaited(r)')
          /\ Timely(list'[r].names, place, quote'[r], Undecided(r)', Awaited(r)')
      BY <3>1, <3>2, <3>3
    <3>5. Accounted(r)'
      BY <1>2, <3>4, NowAccounted
    <3>6. AllLookedUp(r)'
      BY <1>3, <3>1 DEF AllLookedUp, LookedUp
    <3> QED BY <2>1, <3>5, <3>6
  <2>2. CASE t # r
    <3>1. Accounted(t) /\ AllLookedUp(t)
      BY <1>1, <1>5, <1>8, <2>2 DEF Accounts
    <3>2. Accounted(t)'
      BY <1>2, <1>3, <2>2, <3>1, StillAccounted
    <3>3. AllLookedUp(t)'
      BY <1>3, <2>2, <3>1, StillLookedUp
    <3> QED BY <3>2, <3>3
  <2> QED BY <2>1, <2>2
<1>9. Accounts'
  BY <1>8 DEF Accounts
\* Queries and timers are old ones of other requests, or new ones of r.
<1>10. ASSUME NEW n \in DOMAIN dbq'
       PROVE  \/ n \in DOMAIN dbq /\ dbq'[n] = dbq[n] /\ dbq[n].req \in Requests \ {r}
              \/ /\ n \notin DOMAIN dbq /\ n - Len(dbq) \in DOMAIN qs
                 /\ dbq'[n] = qs[n - Len(dbq)] /\ dbq'[n].req = r
                 /\ dbq'[n].kind \in {"lookup", "search"}
  <2>1. CASE n \in DOMAIN dbq
    <3>1. dbq'[n] = dbq[n]
      BY <1>2, <2>1
    <3> QED BY <1>1, <1>2, <2>1, <3>1, NewRequest
  <2>2. CASE n \notin DOMAIN dbq
    <3>1. n - Len(dbq) \in DOMAIN qs /\ dbq'[n] = qs[n - Len(dbq)]
      BY <1>2, <2>2, Concatenated
    <3>2. \A m \in DOMAIN qs : qs[m].req = r /\ qs[m].kind \in {"lookup", "search"}
      BY DEF Arrives
    <3> QED BY <2>2, <3>1, <3>2
  <2> QED BY <2>1, <2>2
<1>11. ASSUME NEW n \in DOMAIN dbq'
       PROVE  /\ dbq'[n].kind = "similar" =>
                   Compared(dbq[n].req)' /\ Sells(Other(dbq'[n].store), Asked(dbq[n])')
              /\ dbq'[n].kind = "search" => reply'[dbq'[n].req] = NoReply
  <2>1. CASE n \in DOMAIN dbq /\ dbq'[n] = dbq[n] /\ dbq[n].req \in Requests \ {r}
    <3>1. PICK t \in Requests \ {r} : t = dbq[n].req /\ t = dbq'[n].req
      BY <2>1
    <3>2. list'[t] = list[t] /\ reply' = reply
      BY <1>2, <1>3
    <3>3. dbq'[n].kind = "search" => reply'[dbq'[n].req] = NoReply
      BY <1>1, <2>1, <3>2 DEF Sought
    <3>4. dbq'[n].kind = "similar" =>
            list[t].kind = "compare" /\ Sells(Other(dbq'[n].store), list[t].names[dbq'[n].item])
      BY <1>1, <2>1, <3>1 DEF Sought, Compared, Asked
    <3> QED BY <3>1, <3>2, <3>3, <3>4 DEF Compared, Asked
  <2>2. CASE dbq'[n].req = r /\ dbq'[n].kind \in {"lookup", "search"}
    BY <1>2, <1>4, <2>2
  <2> QED BY <1>10, <2>1, <2>2
<1>12. ASSUME NEW m \in DOMAIN dbq', NEW n \in DOMAIN dbq', dbq'[m] = dbq'[n],
              dbq'[m].kind # "lookup"
       PROVE  m = n
  <2>1. CASE m \in DOMAIN dbq /\ n \in DOMAIN dbq
    <3>1. dbq'[m] = dbq[m] /\ dbq'[n] = dbq[n]
      BY <1>2, <2>1
    <3> QED BY <1>1, <1>12, <2>1, <3>1 DEF Sought
  <2>2. CASE m \notin DOMAIN dbq /\ n \notin DOMAIN dbq
    <3>1. /\ m - Len(dbq) \in DOMAIN qs /\ n - Len(dbq) \in DOMAIN qs
          /\ qs[m - Len(dbq)].kind = "search"
      BY <1>10, <1>12, <2>2
    <3>2. m - Len(dbq) = n - Len(dbq)
      BY <3>1 DEF Arrives
    <3>3. Len(dbq) \in Nat /\ DOMAIN dbq' = 1 .. Len(dbq) + Len(qs) /\ Len(qs) \in Nat
      BY <1>2
    <3> QED BY <3>2, <3>3
  <2>3. CASE ~ (m \in DOMAIN dbq <=> n \in DOMAIN dbq)
    BY <1>10, <1>12, <2>3
  <2> QED BY <2>1, <2>2, <2>3
<1>13. Sought'
  BY <1>11, <1>12 DEF Sought
<1>14. ASSUME NEW n \in DOMAIN due' PROVE list'[due'[n][1]].kind = "compare"
  <2>1. CASE n \in DOMAIN due
    <3>1. due'[n] = due[n]
      BY <1>2, <2>1
    <3>2. due[n][1] \in Requests \ {r} /\ Compared(due[n][1])
      BY <1>1, <1>2, <2>1, NewRequest DEF Timed
    <3> QED BY <1>3, <3>1, <3>2 DEF Compared
  <2>2. CASE n \notin DOMAIN due
    <3>1. n - Len(due) \in DOMAIN ts /\ due'[n] = ts[n - Len(due)]
      BY <1>2, <2>2, Concatenated
    <3>2. ts \in Seq({r} \X (1 .. Len(names))) /\ (kind = "search" => ts = <<>>)
      BY DEF Arrives
    <3>3. kind = "compare" /\ due'[n][1] = r
      BY <1>2, <3>1, <3>2
    <3> QED BY <1>3, <3>3 DEF Compared
  <2> QED BY <2>1, <2>2
<1>15. \A n \in DOMAIN replyq : replyq[n] \in Requests \ {r} /\ reply[replyq[n]] = NoReply
  BY <1>1, <1>2 DEF Timed, QInv, Replied
<1>16. (\A n \in DOMAIN replyq' : reply'[replyq'[n]] = NoReply) /\ IsInjective(replyq')
  <2>1. CASE replyq' = replyq
    BY <1>1, <1>2, <2>1 DEF Timed
  <2>2. CASE replyq' = Append(replyq, r)
    <3>1. ASSUME NEW n \in DOMAIN replyq'
          PROVE  \/ n \in DOMAIN replyq /\ replyq'[n] = replyq[n]
                 \/ n = Len(replyq) + 1 /\ replyq'[n] = r
      BY <1>2, <2>2, Appended
    <3>2. \A m, n \in DOMAIN replyq' : replyq'[m] = replyq'[n] => m = n
      BY <1>1, <1>15, <3>1 DEF Timed, IsInjective
    <3> QED BY <1>2, <1>4, <1>15, <3>1, <3>2 DEF IsInjective
  <2> QED BY <1>2, <2>1, <2>2
<1>17. Timed'
  BY <1>14, <1>16 DEF Timed, Compared
<1> QED BY <1>6, <1>7, <1>9, <1>13, <1>17

\* The two queries of an item are an odd one and the even one after it.
LEMMA OddAndEven ==
  ASSUME NEW N \in Nat, NEW k \in 1 .. N
  PROVE  \E m, n \in 1 .. 2 * N :
           (m + 1) \div 2 = k /\ m % 2 = 1 /\ (n + 1) \div 2 = k /\ n % 2 # 1
<1> DEFINE m == k + k - 1
           n == k + k
<1>1. m \in 1 .. 2 * N /\ n \in 1 .. 2 * N
  OBVIOUS
<1>2. (m + 1) \div 2 = k /\ m % 2 = 1
  OBVIOUS
<1>3. (n + 1) \div 2 = k /\ n % 2 # 1
  OBVIOUS
<1> HIDE DEF m, n
<1> QED BY <1>1, <1>2, <1>3

\* The queries and timers of a comparison.
LEMMA CompareArrives ==
  ASSUME RequestsOK, NEW r \in Requests, NEW names \in Lists, ArriveCompare(r, names)
  PROVE  Arrives(r, "compare", names, Lookups(r, names), Deadlines(r, names))
<1> DEFINE qs == Lookups(r, names)
           ts == Deadlines(r, names)
           N == Len(names)
<1>1. N \in Nat /\ DOMAIN names = 1 .. N
  BY ListLength
<1>2. qs \in Seq(Query) /\ \A n \in DOMAIN qs : qs[n].req = r /\ qs[n].kind = "lookup"
  BY NewLookups
<1>3. /\ ts = [k \in 1 .. N |-> <<r, k>>] /\ ts \in Seq({r} \X (1 .. N))
  BY <1>1 DEF Deadlines
<1>4. \A k \in DOMAIN names : <<r, k>> \in Range(ts)
  BY <1>1, <1>3 DEF Range
<1>5. ASSUME NEW k \in DOMAIN names, NEW s \in Store PROVE LookupIn(r, k, s) \in Range(qs)
  <2>1. /\ DOMAIN qs = 1 .. 2 * N
        /\ \A n \in 1 .. 2 * N :
             qs[n] = LookupIn(r, (n + 1) \div 2, IF n % 2 = 1 THEN "Safeway" ELSE "Walmart")
    BY DEF Lookups
  <2> HIDE DEF qs, N
  <2>2. N \in Nat /\ k \in 1 .. N
    BY <1>1
  <2>4. PICK m \in 1 .. 2 * N, n \in 1 .. 2 * N :
          (m + 1) \div 2 = k /\ m % 2 = 1 /\ (n + 1) \div 2 = k /\ n % 2 # 1
    BY <2>2, OddAndEven
  <2>6. qs[m] = LookupIn(r, k, "Safeway") /\ qs[n] = LookupIn(r, k, "Walmart")
    BY <2>1, <2>4
  <2>5. s = "Safeway" \/ s = "Walmart"
    BY DEF Store
  <2> QED BY <2>1, <2>4, <2>5, <2>6 DEF Range
<1>6. /\ list[r].kind = "no"
      /\ list' = [list EXCEPT ![r] = [kind |-> "compare", names |-> names]]
      /\ found' = [found EXCEPT ![r] = [k \in 1 .. Len(names) |-> [s \in Store |-> {}]]]
      /\ dbq' = dbq \o qs /\ due' = due \o ts /\ replyq' = Append(replyq, r)
      /\ UNCHANGED <<up, quote, reply, late>>
  BY DEF ArriveCompare
<1>7. /\ \A n \in DOMAIN qs : qs[n].req = r /\ qs[n].kind \in {"lookup", "search"}
      /\ \A m, n \in DOMAIN qs : qs[m].kind = "search" => m = n
  BY <1>2
<1> HIDE DEF qs, ts
<1>8. Arrives(r, "compare", names, qs, ts)
  BY <1>2, <1>3, <1>4, <1>5, <1>6, <1>7 DEF Arrives
<1> QED BY <1>8 DEF qs, ts

\* A search is for a name, or for nothing.
LEMMA SearchedList ==
  ASSUME NEW name \in Name \cup {NoItem}
  PROVE  (IF name = NoItem THEN <<>> ELSE <<name>>) \in Lists
<1>1. CASE name # NoItem
  <2>1. <<name>> \in [1 .. 1 -> Name] /\ 1 \in 0 .. MaxItems
    BY <1>1, ServerAssumption
  <2> QED BY <1>1, <2>1 DEF Lists
<1> QED BY <1>1, EmptyList

\* The query of a search, unless its parameter is missing.
LEMMA SearchArrives ==
  ASSUME RequestsOK, NEW r \in Requests, NEW name \in Name \cup {NoItem},
         ArriveSearch(r, name)
  PROVE  \E names, qs : Arrives(r, "search", names, qs, <<>>)
<1> DEFINE names == IF name = NoItem THEN <<>> ELSE <<name>>
           q == [req |-> r, item |-> 1, kind |-> "search", store |-> "both"]
           qs == IF Searchable(name) THEN <<q>> ELSE <<>>
<1>1. names \in Lists
  BY SearchedList
<1>2. q \in Query /\ q.req = r /\ q.kind = "search"
  BY DEF Query
<1>3. /\ qs \in Seq(Query)
      /\ \A n \in DOMAIN qs : qs[n].req = r /\ qs[n].kind \in {"lookup", "search"}
      /\ \A m, n \in DOMAIN qs : qs[m].kind = "search" => m = n
  BY <1>2
<1>4. /\ <<>> \in Seq({r} \X (1 .. Len(names))) /\ dbq \in Seq(Query)
      /\ due \in Seq(Requests \X Nat)
  BY DEF RequestsOK
<1>5. dbq' = dbq \o qs /\ due' = due \o <<>>
  BY <1>2, <1>4 DEF ArriveSearch
<1>6. /\ list[r].kind = "no" /\ replyq' = replyq
      /\ list' = [list EXCEPT ![r] = [kind |-> "search", names |-> names]]
      /\ found' = [found EXCEPT ![r] = [k \in 1 .. Len(names) |-> [s \in Store |-> {}]]]
      /\ UNCHANGED <<up, quote, reply, late>>
  BY DEF ArriveSearch
<1> HIDE DEF names, qs
<1>7. Arrives(r, "search", names, qs, <<>>)
  BY <1>1, <1>3, <1>4, <1>5, <1>6 DEF Arrives
<1> QED BY <1>7

LEMMA StepBInv == BInv /\ [Next]_vars => BInv'
<1> SUFFICES ASSUME BInv, [Next]_vars PROVE BInv'
  OBVIOUS
<1>1. QInv' /\ IInv'
  BY QStep, StepIInv DEF BInv
<1>2. CASE UNCHANGED vars
  <2>1. /\ UNCHANGED <<up, list, found, quote, reply, dbq, due, replyq, late>>
        /\ Rested /\ TimelyReply /\ (up => Sought /\ Timed /\ Accounts)
    BY <1>2 DEF vars, BInv
  <2>2. Rested' /\ TimelyReply'
    BY <2>1, StillTimely DEF Rested, Compared
  <2>3. up' => Sought' /\ Timed' /\ Accounts'
    <3>1. SUFFICES ASSUME up PROVE Sought' /\ Timed' /\ Accounts'
      BY <2>1
    <3>2. Sought' /\ Timed'
      BY <2>1, <3>1 DEF Sought, Timed, Compared, Asked
    <3>3. ASSUME NEW r \in Requests, Compared(r)' PROVE Accounted(r)' /\ AllLookedUp(r)'
      <4>1. Accounted(r) /\ AllLookedUp(r)
        BY <2>1, <3>1, <3>3 DEF Accounts, Compared
      <4>2. Undecided(r)' = Undecided(r) /\ Awaited(r)' = Awaited(r)
        BY <2>1, AwaitedUnchanged, UndecidedUnchanged
      <4>3. Accounted(r)'
        BY <2>1, <4>1, <4>2, StillAccounted
      <4>4. \A q : IsQueued(q)' <=> IsQueued(q)
        BY <2>1 DEF IsQueued
      <4> QED BY <2>1, <4>1, <4>3, <4>4, StillLookedUp
    <3> QED BY <3>2, <3>3 DEF Accounts
  <2> QED BY <1>1, <2>2, <2>3 DEF BInv
<1>3. CASE Arrive
  <2>1. up /\ RequestsOK
    BY <1>3 DEF Arrive, ArriveCompare, ArriveSearch, BInv, QInv
  <2>2. \E r, kind, names, qs, ts : Arrives(r, kind, names, qs, ts)
    BY <1>3, <2>1, PostedLists, CompareArrives, SearchArrives DEF Arrive
  <2> QED BY <1>1, <2>1, <2>2, ArrivalBalanced DEF BInv
<1>4. CASE Database
  <2>1. CASE QueryRefused
    BY <1>1, <2>1, CrashBalanced DEF QueryRefused, BInv
  <2> QED BY <1>1, <1>4, <2>1, LookupBalanced, SimilarBalanced, SearchBalanced
          DEF Database, BInv
<1>5. CASE ConnectionLost
  BY <1>1, <1>5, CrashBalanced DEF ConnectionLost, BInv
<1>6. CASE Deadline
  BY <1>1, <1>6, DeadlineBalanced DEF BInv
<1>7. CASE Respond
  BY <1>1, <1>7, RespondBalanced DEF BInv
<1> QED BY <1>2, <1>3, <1>4, <1>5, <1>6, <1>7 DEF Next

\* What every callback of eg_server.js keeps of its quotes, timers and queries.
THEOREM Balance == Spec => []BInv
  BY InitBInv, StepBInv, PTL DEF Spec

\* No item of a comparison is lost or counted twice, whatever answers are late,
\* and the price of a store is that of its products.
THEOREM EveryQuoteAddsUp == Spec => []QuoteAddsUp
  BY Balance, QuotesAddUp, PTL

\* A reply none of whose queries missed its timer lists what the stores offer, at
\* its price, and counts what neither sells.
THEOREM TimelyRepliesAreTrue == Spec => []TimelyReply
<1>1. BInv => TimelyReply
  BY DEF BInv
<1> QED BY <1>1, Balance, PTL

-----------------------------------------------------------------------------
(* PriceService is implemented.                                            *)

\* A client is told the rows, the cost and the unknown items of this quote.
Tells(part, quotes, s) ==
  /\ part.cost = quotes[s].cost /\ part.unknown = quotes["Walmart"].unknown
  /\ DOMAIN part.rows = DOMAIN quotes[s].items
  /\ \A n \in DOMAIN quotes[s].items : part.rows[n] = quotes[s].items[n].row

LEMMA PartAccounted ==
  ASSUME NEW names, NEW place, NEW quotes, NEW U, NEW A,
         Quoting(names, place, quotes, U, A), NEW s \in Store, NEW part,
         Tells(part, quotes, s)
  PROVE  Service!Accounts(s, names, place[s], part)
<1> DEFINE p == place[s]
           items == quotes[s].items
<1>1. p \in Seq(DOMAIN names) /\ items \in Seq(Entry) /\ Listed(names, s, p, quotes[s])
  BY DEF Quoting, Balanced, Part
<1>2. DOMAIN items = DOMAIN p
  <2>1. DOMAIN items = 1 .. Len(items) /\ DOMAIN p = 1 .. Len(p)
    BY <1>1
  <2> QED BY <1>1, <2>1 DEF Listed
<1>3. /\ part.cost = Cost(items) /\ DOMAIN part.rows = DOMAIN items
      /\ \A n \in DOMAIN items : part.rows[n] = items[n].row
  BY <1>1 DEF Tells, Listed
<1>4. \A n \in DOMAIN p : part.rows[n] \in Service!MayList(s, names[p[n]])
  BY <1>1, <1>2, <1>3 DEF Listed
<1> HIDE DEF p, items
<1>5. [n \in DOMAIN items |-> items[n].row.price] = [n \in DOMAIN p |-> part.rows[n].price]
  BY <1>2, <1>3
<1>6. part.cost = Service!Total([n \in DOMAIN p |-> part.rows[n].price])
  BY <1>3, <1>5, SameCatalog DEF Cost
<1>7. Service!Accounts(s, names, p, part)
  BY <1>2, <1>3, <1>4, <1>6 DEF Service!Accounts
<1> QED BY <1>7 DEF p

\* What is told when no item is undecided is a quote of the list, whether or not
\* similar products are still awaited.
LEMMA QuoteIsTold ==
  ASSUME NEW names, NEW place, NEW quotes, NEW A, Quoting(names, place, quotes, {}, A),
         NEW told, \A s \in Store : Tells(told[s], quotes, s)
  PROVE  Service!IsQuote(names, told)
<1> DEFINE D == DOMAIN names
           Placing == UNION {Service!Injection(1 .. n, D) : n \in 0 .. Len(names)}
           unknown == D \ UNION {Service!Range(place[s]) : s \in Store}
<1>1. names \in Lists /\ place \in [Store -> Seq(D)] /\ Balanced(names, place, quotes, {}, A)
  BY DEF Quoting
<1>2. ASSUME NEW s \in Store PROVE place[s] \in Placing
  <2>1. PICK p \in Seq(D) : p = place[s]
    BY <1>1
  <2>2. IsInjective(p)
    BY <1>1, <2>1 DEF Balanced, Listed
  <2>3. Len(p) <= Len(names)
    <3>1. Range(p) \in SUBSET D /\ Cardinality(Range(p)) = Len(p)
      BY <1>1, <2>2, PlacesCounted
    <3>2. IsFiniteSet(D) /\ Cardinality(D) = Len(names)
      BY <1>1, ItemsFinite
    <3>3. Cardinality(Range(p)) <= Cardinality(D)
      BY <3>1, <3>2, FS_Subset
    <3> QED BY <3>1, <3>2, <3>3
  <2>4. PICK n \in Nat : n = Len(p)
    OBVIOUS
  <2>5. n \in 0 .. Len(names)
    <3>1. Len(names) \in Nat
      BY <1>1, ListLength
    <3> QED BY <2>3, <2>4, <3>1
  <2>6. p \in [1 .. n -> D]
    BY <2>4
  <2>7. p \in Service!Injection(1 .. n, D)
    BY <2>2, <2>6 DEF Service!Injection, Service!IsInjective, IsInjective
  <2> QED BY <2>1, <2>5, <2>7
<1>3. \A s \in Store : Service!Accounts(s, names, place[s], told[s])
  BY PartAccounted
<1>4. unknown = Unlisted(names, place, {})
  BY SameCatalog DEF Unlisted
<1>5. ASSUME NEW s \in Store PROVE told[s].unknown = Cardinality(unknown)
  <2>1. "Walmart" \in Store
    BY DEF Store
  <2> QED BY <1>1, <1>4, <2>1 DEF Balanced, Tells
<1>6. place \in [Store -> Placing]
  BY <1>1, <1>2
<1>7. Service!IsQuote(names, told) <=>
        \E pl \in [Service!Store -> Placing] :
          /\ \A s \in Service!Store : Service!Accounts(s, names, pl[s], told[s])
          /\ \A s \in Service!Store : told[s].unknown
                = Service!Cardinality(D \ UNION {Service!Range(pl[t]) : t \in Service!Store})
  BY DEF Service!IsQuote
<1> HIDE DEF Placing
<1>8. \E pl \in [Store -> Placing] :
        /\ \A s \in Store : Service!Accounts(s, names, pl[s], told[s])
        /\ \A s \in Store : told[s].unknown
              = Cardinality(D \ UNION {Service!Range(pl[t]) : t \in Store})
  BY <1>3, <1>5, <1>6
<1>9. Service!Store = Store /\ \A S : Service!Cardinality(S) = Cardinality(S)
  BY SameCatalog
<1> QED BY <1>7, <1>8, <1>9

\* What PriceService sees of the server.
Seen == <<up, list, [r \in Requests |-> Told(r)]>>

\* A step that neither replies nor takes a request shows nothing.
LEMMA NothingSeen ==
  ASSUME UNCHANGED <<up, list, reply>>
  PROVE  UNCHANGED Seen
<1>1. \A r : Told(r)' = Told(r)
  BY DEF Told
<1> QED BY <1>1 DEF Seen

\* A reply is told to the client of its request only.
LEMMA OneIsTold ==
  ASSUME NEW r \in Requests, \A t \in Requests \ {r} : reply'[t] = reply[t]
  PROVE  [t \in Requests |-> Told(t)]' =
           [[t \in Requests |-> Told(t)] EXCEPT ![r] = Told(r)']
<1>1. \A t \in Requests \ {r} : Told(t)' = Told(t)
  BY DEF Told
<1> QED BY <1>1

LEMMA RespondTells ==
  ASSUME BInv, Respond
  PROVE  \E r \in Requests : Service!TellPrices(r)
<1>1. PICK r : r = Head(replyq)
  OBVIOUS
<1>2. /\ replyq # <<>> /\ ReplyDue(r) /\ UNCHANGED <<up, list>>
      /\ reply' = [reply EXCEPT ![r] =
                     [kind |-> "compare", quote |-> ConvertToJson(quote[r])]]
  BY <1>1 DEF Respond
<1>3. RequestsOK /\ QInv /\ up /\ Timed /\ Accounts
  BY <1>2, Running DEF BInv, QInv
<1>4. r \in Requests /\ Compared(r) /\ reply[r] = NoReply
  <2>1. r = replyq[1] /\ 1 \in DOMAIN replyq /\ r \in Requests
    BY <1>1, <1>2, <1>3, Tailed DEF RequestsOK
  <2> QED BY <1>3, <2>1 DEF QInv, Replied, Compared, Timed
<1>5. /\ reply'[r] = [kind |-> "compare", quote |-> ConvertToJson(quote[r])]
      /\ \A t \in Requests \ {r} : reply'[t] = reply[t]
  BY <1>2, <1>3, <1>4 DEF QInv, Replied
<1>6. Undecided(r) = {}
  BY <1>2 DEF ReplyDue, Undecided, Timer, Range
<1>7. PICK place : Quoting(list[r].names, place, quote[r], {}, Awaited(r))
  BY <1>3, <1>4, <1>6 DEF Accounts, Accounted
<1>8. PICK new : new = Told(r)'
  OBVIOUS
<1>9. /\ new.kind = "compare"
      /\ \A s \in Store : LET part == ConvertToJson(quote[r])[s] IN
           new.quote[s] = [cost |-> part.cost, unknown |-> part.unknown,
                           rows |-> [k \in DOMAIN part.items |-> part.items[k].row]]
  BY <1>5, <1>8 DEF Told
<1>10. ASSUME NEW s \in Store PROVE Tells(new.quote[s], quote[r], s)
  <2>1. PICK part : part = ConvertToJson(quote[r])[s]
    OBVIOUS
  <2>2. quote[r] \in [Store -> Part]
    BY <1>7 DEF Quoting
  <2>3. /\ part.cost = quote[r][s].cost /\ part.unknown = quote[r]["Walmart"].unknown
        /\ DOMAIN part.items = DOMAIN quote[r][s].items
        /\ \A n \in DOMAIN quote[r][s].items : part.items[n].row = quote[r][s].items[n].row
    BY <2>1, <2>2, ConvertedIs
  <2>4. new.quote[s] = [cost |-> part.cost, unknown |-> part.unknown,
                        rows |-> [k \in DOMAIN part.items |-> part.items[k].row]]
    BY <1>9, <2>1
  <2> QED BY <2>3, <2>4 DEF Tells
<1>11. Service!IsQuote(list[r].names, new.quote)
  <2>1. PICK names, told, quotes, A :
          names = list[r].names /\ told = new.quote /\ quotes = quote[r] /\ A = Awaited(r)
    OBVIOUS
  <2>2. Quoting(names, place, quotes, {}, A) /\ \A s \in Store : Tells(told[s], quotes, s)
    BY <1>7, <1>10, <2>1
  <2> QED BY <2>1, <2>2, QuoteIsTold
<1>12. Told(r) = NoReply
  BY <1>4 DEF Told, NoReply
<1>13. [t \in Requests |-> Told(t)]' = [[t \in Requests |-> Told(t)] EXCEPT ![r] = new]
  BY <1>4, <1>5, <1>8, OneIsTold
<1>14. [t \in Requests |-> Told(t)]'[r] = new /\ [t \in Requests |-> Told(t)][r] = NoReply
  BY <1>4, <1>8, <1>12
<1>15. Service!TellPrices(r)
  BY <1>2, <1>3, <1>4, <1>9, <1>11, <1>13, <1>14
     DEF Service!TellPrices, Service!NoReply, NoReply, Compared
<1> QED BY <1>4, <1>15

LEMMA SearchTells ==
  ASSUME BInv, SearchAnswered
  PROVE  \E r \in Requests : Service!TellNames(r)
<1>1. PICK q : q = Head(dbq)
  OBVIOUS
<1>2. /\ dbq # <<>> /\ q.kind = "search" /\ UNCHANGED <<up, list>>
      /\ reply' = [reply EXCEPT ![q.req] =
                     [kind |-> "search", names |-> Matching(Asked(q))]]
  BY <1>1 DEF SearchAnswered, Answered
<1>3. RequestsOK /\ QInv /\ up /\ Sought
  BY <1>2, Running DEF BInv, QInv
<1>4. PICK r : r = q.req
  OBVIOUS
<1>5. /\ q = dbq[1] /\ 1 \in DOMAIN dbq /\ r \in Requests
      /\ list[r].kind = "search" /\ reply[r] = NoReply
  <2>1. q = dbq[1] /\ 1 \in DOMAIN dbq
    BY <1>1, <1>2, <1>3, Tailed DEF RequestsOK
  <2> QED BY <1>1, <1>2, <1>3, <1>4, <2>1, HeadIsQuery DEF QInv, Replied, Sought
<1>6. q.item = 1 /\ 1 \in 1 .. Len(list[r].names)
  <2>1. q \in Query /\ q.item \in 1 .. Len(list[r].names)
    BY <1>1, <1>2, <1>3, <1>4, HeadIsQuery
  <2>2. q.item = 1
    BY <1>2, <2>1 DEF Query
  <2> QED BY <2>1, <2>2
<1>7. list[r].names # <<>> /\ Asked(q) = list[r].names[1]
  BY <1>4, <1>6 DEF Asked
<1>8. PICK new : new = [kind |-> "search", names |-> Matching(Asked(q))]
  OBVIOUS
<1>9. reply'[r] = new /\ \A t \in Requests \ {r} : reply'[t] = reply[t]
  BY <1>2, <1>3, <1>4, <1>5, <1>8 DEF QInv, Replied
<1>10. Told(r)' = new /\ Told(r) = NoReply
  <2>1. new.kind # "compare"
    BY <1>8
  <2> QED BY <1>5, <1>9, <2>1 DEF Told, NoReply
<1>11. [t \in Requests |-> Told(t)]' = [[t \in Requests |-> Told(t)] EXCEPT ![r] = new]
  BY <1>5, <1>9, <1>10, OneIsTold
<1>12. [t \in Requests |-> Told(t)][r] = NoReply
  BY <1>5, <1>10
<1>13. new = [kind |-> "search", names |-> Service!Matching(list[r].names[1])]
  BY <1>7, <1>8, SameCatalog
<1>14. Service!TellNames(r)
  BY <1>2, <1>3, <1>5, <1>7, <1>11, <1>12, <1>13
     DEF Service!TellNames, Service!NoReply, NoReply
<1> QED BY <1>5, <1>14

LEMMA ArrivalAsks ==
  ASSUME BInv, Arrive
  PROVE  \E r \in Requests : Service!Ask(r)
<1>1. up /\ RequestsOK
  BY DEF Arrive, ArriveCompare, ArriveSearch, BInv, QInv
<1>2. PICK r \in Requests : \/ \E names \in Posted[r] : ArriveCompare(r, names)
                            \/ \E name \in Name \cup {NoItem} : ArriveSearch(r, name)
  BY DEF Arrive
<1>3. list[r].kind = "no" /\ UNCHANGED <<up, reply>>
  BY <1>2 DEF ArriveCompare, ArriveSearch
<1>4. \E kind \in {"compare", "search"}, names \in Lists :
        list' = [list EXCEPT ![r] = [kind |-> kind, names |-> names]]
  <2>1. CASE \E names \in Posted[r] : ArriveCompare(r, names)
    BY <2>1, PostedLists DEF ArriveCompare
  <2>2. CASE \E name \in Name \cup {NoItem} : ArriveSearch(r, name)
    <3>1. PICK name \in Name \cup {NoItem} : ArriveSearch(r, name)
      BY <2>2
    <3>2. PICK names : names = IF name = NoItem THEN <<>> ELSE <<name>>
      OBVIOUS
    <3>3. list' = [list EXCEPT ![r] = [kind |-> "search", names |-> names]]
      BY <3>1, <3>2 DEF ArriveSearch
    <3>4. names \in Lists
      BY <3>2, SearchedList
    <3> QED BY <3>3, <3>4
  <2> QED BY <1>2, <2>1, <2>2
<1>5. \A t : Told(t)' = Told(t)
  BY <1>3 DEF Told
<1>6. Service!Ask(r)
  BY <1>1, <1>3, <1>4, <1>5 DEF Service!Ask
<1> QED BY <1>6

LEMMA CrashEnds ==
  ASSUME BInv, Crash
  PROVE  [Service!Next]_Seen
<1>1. up' = FALSE /\ UNCHANGED <<list, reply>>
  BY DEF Crash
<1>2. \A t : Told(t)' = Told(t)
  BY <1>1 DEF Told
<1>3. CASE up
  <2>1. Service!End
    BY <1>1, <1>2, <1>3 DEF Service!End
  <2> QED BY <2>1 DEF Service!Next
<1>4. CASE ~ up
  <2>1. up = FALSE
    BY <1>4 DEF BInv, QInv, RequestsOK
  <2> QED BY <1>1, <2>1, NothingSeen
<1> QED BY <1>3, <1>4

LEMMA InitServes == Init => Service!Init
<1> SUFFICES ASSUME Init PROVE Service!Init
  OBVIOUS
<1>1. up = TRUE /\ list = [r \in Requests |-> Unsent] /\ \A r \in Requests : reply[r] = NoReply
  BY DEF Init
<1>2. \A r \in Requests : Told(r) = NoReply
  BY <1>1 DEF Told, NoReply
<1> QED BY <1>1, <1>2 DEF Service!Init, Service!Unsent, Unsent, Service!NoReply, NoReply

LEMMA StepServes == BInv /\ [Next]_vars => [Service!Next]_Seen
<1> SUFFICES ASSUME BInv, [Next]_vars PROVE [Service!Next]_Seen
  OBVIOUS
<1>1. CASE Arrive
  BY <1>1, ArrivalAsks DEF Service!Next
<1>2. CASE Respond
  BY <1>2, RespondTells DEF Service!Next
<1>3. CASE SearchAnswered
  BY <1>3, SearchTells DEF Service!Next
<1>4. CASE QueryRefused \/ ConnectionLost
  BY <1>4, CrashEnds DEF QueryRefused, ConnectionLost
<1>5. CASE LookupAnswered \/ SimilarAnswered \/ Deadline \/ UNCHANGED vars
  <2>1. UNCHANGED <<up, list, reply>>
    BY <1>5 DEF LookupAnswered, SimilarAnswered, Deadline, vars
  <2> QED BY <2>1, NothingSeen
<1> QED BY <1>1, <1>2, <1>3, <1>4, <1>5 DEF Next, Database

\* A request is answered once, for good, with the names that match or with a
\* quote that accounts for every item of the list, whatever answers of the
\* database are late (eg_server.js implements PriceService).
THEOREM PromiseKept == Spec => ServesAsPromised
<1>1. BInv /\ [Next]_vars =>
        [Service!Next]_<<up, list, [r \in Requests |-> Told(r)]>>
  BY StepServes DEF Seen
<1> QED BY <1>1, Balance, InitServes, PTL DEF Spec, ServesAsPromised, Service!Spec
=============================================================================
