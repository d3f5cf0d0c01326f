-------------------------- MODULE SearchListProofs --------------------------
(* The types of SearchList, and what its list holds.                       *)
EXTENDS SearchList, TLAPS

\* A longer list still shows what a shorter one did, and the end of a list is
\* part of it.
LEMMA RangeOfConcat ==
  ASSUME NEW s \in Seq(Item), NEW t \in Seq(Item)
  PROVE  Range(s) \subseteq Range(s \o t) /\ Range(t) \subseteq Range(s \o t)
<1>1. Len(s) \in Nat /\ Len(t) \in Nat /\ Len(s \o t) = Len(s) + Len(t)
      /\ DOMAIN s = 1 .. Len(s) /\ DOMAIN t = 1 .. Len(t)
      /\ DOMAIN (s \o t) = 1 .. Len(s) + Len(t)
  OBVIOUS
<1>2. \A i \in 1 .. Len(s) : i \in DOMAIN (s \o t) /\ (s \o t)[i] = s[i]
  BY <1>1
<1>3. \A i \in 1 .. Len(t) :
        Len(s) + i \in DOMAIN (s \o t) /\ (s \o t)[Len(s) + i] = t[i]
  BY <1>1
<1> QED BY <1>1, <1>2, <1>3 DEF Range

LEMMA Typed ==
  TypeOK /\ [Next]_vars => TypeOK'
<1> SUFFICES ASSUME TypeOK, [Next]_vars PROVE TypeOK'
  OBVIOUS
<1> USE SearchAssumption
<1>t. /\ searchString \in Query \cup {NoQuery}
      /\ searchList \in Seq(Item) /\ rows \in Seq(Item)
      /\ searched \in Seq(Query) /\ Len(searched) <= MaxSearches
      /\ pending \subseteq 1 .. Len(searched)
      /\ lost \subseteq 1 .. Len(searched) /\ lost \cap pending = {}
      /\ Len(searched) \in Nat
  BY DEF TypeOK
<1>b. cleared \in BOOLEAN /\ overlapped \in BOOLEAN
  BY Zenon DEF TypeOK
<1>e. <<>> \in Seq(Item) /\ <<>> \in Seq(Query) /\ Len(<<>>) = 0
  OBVIOUS
<1>1. ASSUME NEW query \in Query \cup {NoQuery}, Type(query) PROVE TypeOK'
  <2>1. cleared' \in BOOLEAN /\ overlapped' \in BOOLEAN
    BY <1>1, <1>b, Zenon DEF Type
  <2> QED BY <1>1, <1>t, <2>1 DEF Type, TypeOK
<1>2. CASE TapField
  <2>1. cleared' \in BOOLEAN /\ overlapped' \in BOOLEAN
    BY <1>2, <1>b, Zenon DEF TapField
  <2> QED BY <1>2, <1>t, <1>e, <2>1 DEF TapField, TypeOK
<1>3. CASE SearchAgain
  <2>1. cleared' \in BOOLEAN /\ overlapped' \in BOOLEAN
    BY <1>3, Zenon DEF SearchAgain
  <2>2. searched' \in Seq(Query) /\ Len(searched') = Len(searched) + 1
    BY <1>3, <1>t DEF SearchAgain
  <2>3. searchList' \in Seq(Item) /\ rows' \in Seq(Item)
    BY <1>3, <1>e DEF SearchAgain, NewList
  <2>4. Len(searched') <= MaxSearches
    BY <1>3, <1>t, <2>2 DEF SearchAgain
  <2>5. /\ pending' \subseteq 1 .. Len(searched')
        /\ lost' \subseteq 1 .. Len(searched') /\ lost' \cap pending' = {}
        /\ searchString' = searchString
    <3>1. \A n \in 1 .. Len(searched) : n \in 1 .. Len(searched) + 1 /\ n # Len(searched) + 1
      BY <1>t
    <3>2. Len(searched) + 1 \in 1 .. Len(searched) + 1
      BY <1>t
    <3>3. /\ pending' = pending \cup {Len(searched) + 1}
          /\ lost' = lost /\ searchString' = searchString
      BY <1>3 DEF SearchAgain
    <3>4. pending \subseteq 1 .. Len(searched) /\ lost \subseteq 1 .. Len(searched)
          /\ lost \cap pending = {}
      BY <1>t
    <3>5. 1 .. Len(searched') = 1 .. Len(searched) + 1
      BY <2>2
    <3> QED BY <3>1, <3>2, <3>3, <3>4, <3>5, Zenon
  <2> QED BY <1>t, <2>1, <2>2, <2>3, <2>4, <2>5 DEF TypeOK
<1>4. CASE SearchNothing
  <2>1. cleared' \in BOOLEAN /\ overlapped' \in BOOLEAN
    BY <1>4, <1>b, Zenon DEF SearchNothing
  <2> QED BY <1>4, <1>t, <1>e, <2>1 DEF SearchNothing, NewList, TypeOK
<1>5. CASE Leave
  <2>1. cleared' \in BOOLEAN /\ overlapped' \in BOOLEAN
    BY <1>5, Zenon DEF Leave
  <2> QED BY <1>5, <1>e, <2>1 DEF Leave, TypeOK
<1>6. ASSUME NEW n \in 1 .. MaxSearches, Answered(n) PROVE TypeOK'
  <2>1. cleared' \in BOOLEAN /\ overlapped' \in BOOLEAN
    BY <1>6, <1>b, Zenon DEF Answered
  <2>2. searched[n] \in Query
    BY <1>6, <1>t DEF Answered
  <2>3. searchList' \in Seq(Item) /\ rows' \in Seq(Item)
    BY <1>6, <1>t, <2>2 DEF Answered
  <2> QED BY <1>6, <1>t, <2>1, <2>3 DEF Answered, TypeOK
<1>7. ASSUME NEW n \in 1 .. MaxSearches, Failed(n) PROVE TypeOK'
  <2>1. cleared' \in BOOLEAN /\ overlapped' \in BOOLEAN
    BY <1>7, <1>b, Zenon DEF Failed
  <2> QED BY <1>7, <1>t, <2>1 DEF Failed, TypeOK
<1>8. ASSUME NEW item \in Item, AddItem(item) PROVE TypeOK'
  <2>1. cleared' \in BOOLEAN /\ overlapped' \in BOOLEAN
    BY <1>8, <1>b, Zenon DEF AddItem
  <2> QED BY <1>8, <1>t, <2>1 DEF AddItem, Copy, Emptied, TypeOK
<1>9. CASE UNCHANGED vars
  <2>1. cleared' \in BOOLEAN /\ overlapped' \in BOOLEAN
    BY <1>9, <1>b, Zenon DEF vars
  <2> QED BY <1>9, <1>t, <2>1 DEF vars, TypeOK
<1> QED
  BY <1>1, <1>2, <1>3, <1>4, <1>5, <1>6, <1>7, <1>8, <1>9 DEF Next

LEMMA TypedAtStart == Init => TypeOK
<1> SUFFICES ASSUME Init PROVE TypeOK
  OBVIOUS
<1>1. cleared \in BOOLEAN /\ overlapped \in BOOLEAN
  BY Zenon DEF Init
<1>2. <<>> \in Seq(Item) /\ <<>> \in Seq(Query) /\ Len(<<>>) = 0
  OBVIOUS
<1> QED BY <1>1, <1>2, SearchAssumption DEF Init, TypeOK

\* The variables keep their types, and no search is both lost and under way
\* (the state of search.dart).
THEOREM TypeCorrect == Spec => []TypeOK
<1> QED BY Typed, TypedAtStart, PTL DEF Spec

-----------------------------------------------------------------------------

LEMMA NothingLostStep ==
  ASSUME TypeOK, NothingLost, [Next]_vars PROVE NothingLost'
<1> USE SearchAssumption
<1>t. /\ searchList \in Seq(Item)
      /\ searched \in Seq(Query) /\ Len(searched) \in Nat
      /\ pending \subseteq 1 .. Len(searched)
  BY DEF TypeOK
<1>1. CASE TapField \/ SearchNothing \/ Leave
  <2>1. cleared' \/ searched' = <<>>
    BY <1>1 DEF TapField, SearchNothing, Leave
  <2>2. Len(<<>>) = 0
    OBVIOUS
  <2> QED BY <2>1, <2>2 DEF NothingLost
<1>2. CASE SearchAgain
  <2>1. Len(searched') = Len(searched) + 1 /\ Len(searched) + 1 \in pending'
    BY <1>2, <1>t DEF SearchAgain
  <2> QED BY <2>1 DEF NothingLost
<1>3. ASSUME NEW n \in 1 .. MaxSearches, Answered(n) PROVE NothingLost'
  <2>1. /\ searched' = searched /\ lost' = lost /\ cleared' = cleared
        /\ pending' = pending \ {n} /\ n \in pending
        /\ searchList' = searchList \o Products[searched[n]]
    BY <1>3 DEF Answered
  <2>2. Products[searched[n]] \in Seq(Item)
    BY <1>t, <2>1
  <2>3. /\ Range(searchList) \subseteq Range(searchList')
        /\ Range(Products[searched[n]]) \subseteq Range(searchList')
    BY <1>t, <2>1, <2>2, RangeOfConcat
  <2> QED BY <2>1, <2>3 DEF NothingLost
<1>4. CASE \/ \E query \in Query \cup {NoQuery} : Type(query)
           \/ \E n \in 1 .. MaxSearches : Failed(n)
           \/ \E item \in Item : AddItem(item)
           \/ UNCHANGED vars
  <2>1. /\ searchList' = searchList /\ searched' = searched /\ cleared' = cleared
        /\ pending \cup lost \subseteq pending' \cup lost'
    BY <1>4 DEF Type, Failed, AddItem, Copy, vars
  <2> QED BY <2>1 DEF NothingLost
<1> QED BY <1>1, <1>2, <1>3, <1>4 DEF Next

\* What the last search found stays in the list until the user clears it
\* (_addRequest and _addItem of search.dart).
THEOREM LastSearchKept == Spec => []NothingLost
<1>1. Init => NothingLost
  <2>1. Len(<<>>) = 0
    OBVIOUS
  <2> QED BY <2>1 DEF Init, NothingLost
<1>2. TypeOK /\ NothingLost /\ [Next]_vars => NothingLost'
  BY NothingLostStep
<1> QED BY <1>1, <1>2, TypeCorrect, PTL DEF Spec

-----------------------------------------------------------------------------

\* When the last search began alone, no other is under way, and one that is
\* finds the list empty.
AloneFindsEmpty ==
  ~ overlapped =>
    /\ pending \subseteq {Len(searched)}
    /\ pending # {} => searchList = <<>>

LEMMA AloneStep ==
  ASSUME TypeOK, AloneFindsEmpty, ExactlyFound, [Next]_vars
  PROVE  AloneFindsEmpty' /\ ExactlyFound'
<1> USE SearchAssumption
<1>t. /\ searchList \in Seq(Item)
      /\ searched \in Seq(Query) /\ Len(searched) \in Nat
      /\ pending \subseteq 1 .. Len(searched)
  BY DEF TypeOK
<1>1. CASE TapField \/ SearchNothing
  BY <1>1 DEF TapField, SearchNothing, NewList, AloneFindsEmpty, ExactlyFound
<1>2. CASE Leave
  BY <1>2 DEF Leave, AloneFindsEmpty, ExactlyFound
<1>3. CASE SearchAgain
  <2>1. searchList' = <<>> /\ searched' = Append(searched, searchString)
        /\ pending' = pending \cup {Len(searched) + 1}
        /\ overlapped' = (pending # {})
    BY <1>3 DEF SearchAgain, NewList
  <2>2. Len(searched') = Len(searched) + 1
    BY <1>t, <2>1
  <2>3. ~ overlapped' => pending' = {Len(searched')}
    BY <2>1, <2>2
  <2> QED BY <2>1, <2>3, Zenon DEF AloneFindsEmpty, ExactlyFound
<1>4. ASSUME NEW n \in 1 .. MaxSearches, Answered(n)
      PROVE  AloneFindsEmpty' /\ ExactlyFound'
  <2>1. /\ searched' = searched /\ pending' = pending \ {n} /\ n \in pending
        /\ searchList' = searchList \o Products[searched[n]]
        /\ overlapped' = overlapped
    BY <1>4 DEF Answered
  <2>2. CASE overlapped
    BY <2>1, <2>2, Zenon DEF AloneFindsEmpty, ExactlyFound
  <2>3. CASE ~ overlapped
    <3>1. n = Len(searched) /\ searchList = <<>> /\ pending' = {} /\ searched # <<>>
      BY <1>t, <2>1, <2>3 DEF AloneFindsEmpty
    <3>2. Products[searched[n]] \in Seq(Item)
      BY <1>t, <2>1
    <3>3. searchList' = Products[searched[n]]
      BY <2>1, <3>1, <3>2
    <3> QED BY <2>1, <3>1, <3>3 DEF AloneFindsEmpty, ExactlyFound
  <2> QED BY <2>2, <2>3
<1>5. CASE \/ \E query \in Query \cup {NoQuery} : Type(query)
           \/ \E n \in 1 .. MaxSearches : Failed(n)
           \/ \E item \in Item : AddItem(item)
           \/ UNCHANGED vars
  <2>1. /\ searchList' = searchList /\ searched' = searched
        /\ pending' \subseteq pending /\ overlapped' = overlapped
    BY <1>5 DEF Type, Failed, AddItem, Copy, vars
  <2> QED BY <2>1 DEF AloneFindsEmpty, ExactlyFound
<1> QED BY <1>1, <1>2, <1>3, <1>4, <1>5 DEF Next

\* A user who lets each search end before the next sees what the last one found
\* and nothing else (_search and _addRequest of search.dart).
THEOREM AloneSeesLastSearch == Spec => []ExactlyFound
<1>1. Init => AloneFindsEmpty /\ ExactlyFound
  BY DEF Init, AloneFindsEmpty, ExactlyFound
<1>2. TypeOK /\ AloneFindsEmpty /\ ExactlyFound /\ [Next]_vars
        => AloneFindsEmpty' /\ ExactlyFound'
  BY AloneStep
<1> QED BY <1>1, <1>2, TypeCorrect, PTL DEF Spec
=============================================================================
