------------------------- MODULE GroceryListProofs --------------------------
(***************************************************************************)
(* Theorems about the grocery list page: for any number of devices, any    *)
(* set of products and any bounds.                                         *)
(***************************************************************************)
EXTENDS GroceryList, SequenceTheorems, WellFoundedInduction, TLAPS

-----------------------------------------------------------------------------
(***************************************************************************)
(* Lemmas about sequences.                                                 *)
(***************************************************************************)

\* A set of positions that is not empty has a first one.
LEMMA FirstExists ==
  ASSUME NEW I \in SUBSET Nat, I # {}
  PROVE  /\ Min(I) \in I
         /\ \A j \in I : Min(I) <= j
<1> DEFINE R == {p \in Nat \X Nat : p[1] < p[2]}
<1>1. IsWellFoundedOn(R, Nat)
  BY NatLessThanWellFounded DEF OpToRel
<1>2. PICK x \in I : \A y \in I : <<y, x>> \notin R
  <2> HIDE DEF R
  <2> QED
    BY <1>1, WFMin
<1>3. \A y \in I : x <= y
  <2> SUFFICES ASSUME NEW y \in I
               PROVE  x <= y
    OBVIOUS
  <2>1. ~ (y < x)
    BY <1>2
  <2> QED
    BY <2>1
<1> QED
  BY <1>3 DEF Min

Dropped(s, k) == SubSeq(s, 1, k - 1) \o SubSeq(s, k + 1, Len(s))

\* List.remove gives back a list of the same things, whether it finds the
\* item or not, and drops one occurrence if it does (list.dart:123, 186).
LEMMA RemoveFirstIsSeq ==
  ASSUME NEW S, NEW s \in Seq(S), NEW e
  PROVE  /\ RemoveFirst(s, e) \in Seq(S)
         /\ \/ RemoveFirst(s, e) = s
            \/ \E j \in 1 .. Len(s) :
                 s[j] = e /\ RemoveFirst(s, e) = Dropped(s, j)
<1> DEFINE I == {j \in 1 .. Len(s) : s[j] = e}
           k == SelectInSeq(s, LAMBDA v : v = e)
<1>1. CASE I # {}
  <2>1. Min(I) \in I
    <3>1. I \in SUBSET Nat
      OBVIOUS
    <3> HIDE DEF I
    <3> QED
      BY <1>1, <3>1, FirstExists
  <2>2. k = Min(I)
    BY <1>1 DEF SelectInSeq
  <2>3. k \in 1 .. Len(s)
    BY <2>1, <2>2
  <2> HIDE DEF k
  <2>4. RemoveAt(s, k) = Dropped(s, k)
    BY DEF RemoveAt, Dropped
  <2>5. s[k] = e
    BY <2>1, <2>2
  <2>6. RemoveAt(s, k) \in Seq(S)
    <3>1. SubSeq(s, 1, k - 1) \in Seq(S)
      BY <2>3, SubSeqProperties, ElementOfSeq
    <3>2. SubSeq(s, k + 1, Len(s)) \in Seq(S)
      BY <2>3, SubSeqProperties, ElementOfSeq
    <3> QED
      BY <3>1, <3>2, ConcatProperties DEF RemoveAt
  <2> QED
    BY <1>1, <2>3, <2>4, <2>5, <2>6 DEF RemoveFirst, k
<1>2. CASE I = {}
  BY <1>2 DEF RemoveFirst
<1> QED
  BY <1>1, <1>2

\* The calls a page leaves behind are calls, in the same order.
LEMMA LeftBehindIsSeq ==
  ASSUME NEW calls \in Seq(Call)
  PROVE  /\ LeftBehind(calls) \in Seq(Call)
         /\ Len(LeftBehind(calls)) = Len(calls)
         /\ \A k \in 1 .. Len(calls) :
              LeftBehind(calls)[k].op # "get"
<1>1. \A k \in 1 .. Len(calls) : calls[k] \in Call
  BY ElementOfSeq
<1>2. LeftBehind(calls) \in [1 .. Len(calls) -> Call]
  BY <1>1 DEF LeftBehind, Call
<1>3. /\ LeftBehind(calls) \in Seq(Call)
      /\ Len(LeftBehind(calls)) = Len(calls)
  BY <1>2, LenProperties
<1>4. ASSUME NEW k \in 1 .. Len(calls)
      PROVE  LeftBehind(calls)[k].op # "get"
  BY <1>1 DEF LeftBehind, Call, IsWrite
<1> QED
  BY <1>3, <1>4
-----------------------------------------------------------------------------
(***************************************************************************)
(* Type correctness.                                                       *)
(***************************************************************************)

LEMMA InitTypeOK == Init => TypeOK
  BY BoundsAssumption DEF Init, TypeOK, SearchPage, NoSearch

LEMMA StepTypeOK ==
  ASSUME TypeOK, [Next]_vars
  PROVE  TypeOK'
<1> USE DEF TypeOK
<1>a. ASSUME NEW d \in Devices
      PROVE  /\ link[d] \in Seq(Call)
             /\ link[d] # <<>> => /\ Head(link[d]) \in Call
                                 /\ Tail(link[d]) \in Seq(Call)
             /\ \A c \in Call : Append(link[d], c) \in Seq(Call)
  BY HeadTailProperties, AppendProperties
<1>b. /\ NoSearch \in SearchPage
      /\ FreshSearch \in SearchPage
      /\ \A list \in Seq(Item) : StaleSearch(list) \in SearchPage
  BY DEF SearchPage, NoSearch, FreshSearch, StaleSearch
<1>1. ASSUME NEW d \in Devices, NonEdit(d)
      PROVE  TypeOK'
  <2>1. CASE Mount(d)
    BY <2>1, <1>a, LeftBehindIsSeq DEF Mount
  <2>2. CASE Unmount(d)
    BY <2>2 DEF Unmount
  <2>3. CASE Kill(d)
    BY <2>3, <1>b DEF Kill
  <2>4. CASE OpenSearch(d)
    BY <2>4, <1>b DEF OpenSearch
  <2>5. CASE RebuildSearch(d)
    BY <2>5, <1>b DEF RebuildSearch
  <2>6. CASE CloseSearch(d)
    BY <2>6, <1>b DEF CloseSearch
  <2>7. CASE UidArrives(d)
    <3>1. [op |-> "get", list |-> <<>>] \in Call
      BY DEF Call
    <3> QED
      BY <2>7, <3>1, <1>a DEF UidArrives, Suspended, WithRead
  <2>8. CASE GetAnswered(d)
    <3>1. /\ link' \in [Devices -> Seq(Call)]
          /\ items' \in [Devices -> Seq(Item)]
          /\ behind' \subseteq Devices
      BY <2>8, <1>a DEF GetAnswered
    <3>2. /\ groceryList' \in [Devices -> Seq(Item)]
          /\ search' \in [Devices -> SearchPage]
      <4>1. CASE Shows(d, cloud) /\ search[d].open /\ search[d].fresh
        <5>1. StaleSearch(groceryList[d]) \in SearchPage
          BY <1>b
        <5>2. /\ groceryList' = [groceryList EXCEPT ![d] = cloud]
              /\ search' = [search EXCEPT ![d] = StaleSearch(groceryList[d])]
          BY <2>8, <4>1, Zenon DEF GetAnswered
        <5> QED
          BY <5>1, <5>2
      <4>2. CASE Shows(d, cloud) /\ ~ (search[d].open /\ search[d].fresh)
        BY <2>8, <4>2 DEF GetAnswered
      <4>3. CASE ~ Shows(d, cloud)
        BY <2>8, <4>3 DEF GetAnswered
      <4> QED
        BY <4>1, <4>2, <4>3
    <3> QED
      BY <2>8, <3>1, <3>2 DEF GetAnswered
  <2>9. CASE VoidAnswered(d)
    BY <2>9, <1>a DEF VoidAnswered, deviceVars
  <2>10. CASE SetLands(d) \/ RootSetLands(d)
    <3>1. PICK its \in Seq(Item) : StoreWrite(d, its)
      <4>1. CASE SetLands(d)
        <5>1. Head(link[d]).list \in Seq(Item)
          BY <4>1, <1>a DEF SetLands, Call
        <5> QED
          BY <4>1, <5>1 DEF SetLands
      <4>2. CASE RootSetLands(d)
        <5>1. \A its \in {<<>>, cloud} : its \in Seq(Item)
          BY EmptySeq
        <5> QED
          BY <4>2, <5>1 DEF RootSetLands
      <4> QED
        BY <2>10, <4>1, <4>2
    <3>2. link[d] # <<>>
      BY <2>10 DEF SetLands, RootSetLands
    <3> QED
      BY <3>1, <3>2, <1>a DEF StoreWrite
  <2> QED
    BY <1>1, <2>1, <2>2, <2>3, <2>4, <2>5, <2>6, <2>7, <2>8, <2>9, <2>10
    DEF NonEdit, Answer
<1>2. ASSUME NEW d \in Devices, NEW its \in Seq(Item), SendWrite(d, its)
      PROVE  /\ link' \in [Devices -> Seq(Call)]
             /\ awaiting' \in [Devices -> Nat]
             /\ edits' \in 0 .. MaxEdits
  <2>1. Write(d, its) \in Call
    BY DEF Write, Call
  <2> QED
    BY <1>2, <2>1, <1>a, BoundsAssumption DEF SendWrite, Refreshes
<1>3. ASSUME NEW d \in Devices, NEW i \in Item, AddItem(d, i)
      PROVE  TypeOK'
  <2>1. WithItem(items[d], i) \in Seq(Item)
    BY AppendProperties DEF WithItem
  <2>2. <<i>> \o groceryList[d] \in Seq(Item)
    BY ConcatProperties
  <2>3. groceryList' \in [Devices -> Seq(Item)]
    BY <1>3, <2>2 DEF AddItem, AddItemCallback
  <2> QED
    BY <1>3, <1>2, <2>1, <2>3 DEF AddItem, AddItemCallback
<1>4. ASSUME NEW d \in Devices, NEW i \in Item, RemoveItem(d, i)
      PROVE  TypeOK'
  <2>1. /\ WithoutItem(items[d], i) \in Seq(Item)
        /\ WithoutItem(groceryList[d], i) \in Seq(Item)
    BY RemoveFirstIsSeq DEF WithoutItem
  <2> QED
    BY <1>4, <1>2, <2>1 DEF RemoveItem
<1>5. CASE UNCHANGED vars
  BY <1>5 DEF vars, deviceVars
<1> QED
  BY <1>1, <1>3, <1>4, <1>5 DEF Next, Edit

\* Every state of the pages and of the database has its type.
THEOREM TypeCorrect == Spec => []TypeOK
<1>1. TypeOK /\ [Next]_vars => TypeOK'
  BY StepTypeOK
<1> QED
  BY InitTypeOK, <1>1, PTL DEF Spec
-----------------------------------------------------------------------------
(***************************************************************************)
(* No write goes without its refresh.                                      *)
(***************************************************************************)

LEMMA StepWritesAreRefreshed ==
  ASSUME TypeOK, WritesAreRefreshed, [Next]_vars
  PROVE  WritesAreRefreshed'
<1> SUFFICES ASSUME NEW e \in Devices
             PROVE  WriteRefreshed(e)'
  BY DEF WritesAreRefreshed
<1> USE DEF TypeOK
<1>a. WriteRefreshed(e)
  BY DEF WritesAreRefreshed
<1>b. ASSUME link'[e] = link[e], awaiting'[e] = awaiting[e]
      PROVE  WriteRefreshed(e)'
  BY <1>a, <1>b DEF WriteRefreshed
<1>c. ASSUME awaiting'[e] > 0
      PROVE  WriteRefreshed(e)'
  BY <1>c DEF WriteRefreshed
<1>d. ASSUME link[e] # <<>>, link'[e] = Tail(link[e]),
             awaiting'[e] = awaiting[e]
      PROVE  WriteRefreshed(e)'
  <2>1. /\ Len(link'[e]) = Len(link[e]) - 1
        /\ \A k \in 1 .. Len(link'[e]) : link'[e][k] = link[e][k + 1]
    BY <1>d, HeadTailProperties
  <2> SUFFICES ASSUME NEW k \in 1 .. Len(link'[e]), IsWrite(link'[e][k]),
                      ~ (awaiting'[e] > 0)
               PROVE  \E m \in k + 1 .. Len(link'[e]) : link'[e][m].op = "get"
    BY DEF WriteRefreshed
  <2>2. Len(link[e]) \in Nat
    BY LenProperties
  <2>3. k + 1 \in 1 .. Len(link[e])
    BY <2>1, <2>2
  <2>4. PICK m \in k + 2 .. Len(link[e]) : link[e][m].op = "get"
    BY <1>a, <1>d, <2>1, <2>2, <2>3 DEF WriteRefreshed
  <2>5. m - 1 \in k + 1 .. Len(link'[e])
    BY <2>1, <2>2, <2>4
  <2>6. link'[e][m - 1] = link[e][m]
    BY <2>1, <2>2, <2>5
  <2> QED
    BY <2>4, <2>5, <2>6
<1>1. ASSUME NEW d \in Devices, Mount(d)
      PROVE  WriteRefreshed(e)'
  BY <1>1, <1>b, <1>c DEF Mount
<1>2. ASSUME NEW d \in Devices,
             Unmount(d) \/ OpenSearch(d) \/ RebuildSearch(d) \/ CloseSearch(d)
      PROVE  WriteRefreshed(e)'
  BY <1>2, <1>b DEF Unmount, OpenSearch, RebuildSearch, CloseSearch
<1>3. ASSUME NEW d \in Devices, Kill(d)
      PROVE  WriteRefreshed(e)'
  <2>1. CASE e = d
    BY <1>3, <2>1 DEF Kill, WriteRefreshed
  <2>2. CASE e # d
    BY <1>3, <2>2, <1>b DEF Kill
  <2> QED
    BY <2>1, <2>2
<1>4. ASSUME NEW d \in Devices, UidArrives(d)
      PROVE  WriteRefreshed(e)'
  <2>1. CASE e = d
    <3> DEFINE read == [op |-> "get", list |-> <<>>]
    <3>1. link'[e] = Append(link[e], read)
      BY <1>4, <2>1 DEF UidArrives, Suspended, WithRead
    <3>2. read \in Call
      BY DEF Call
    <3> HIDE DEF read
    <3>3. /\ Len(link[e]) \in Nat
          /\ Len(link'[e]) = Len(link[e]) + 1
          /\ \A k \in 1 .. Len(link[e]) : link'[e][k] = link[e][k]
          /\ link'[e][Len(link[e]) + 1] = read
      BY <3>1, <3>2, AppendProperties, LenProperties
    <3>4. read.op = "get" /\ ~ IsWrite(read)
      BY DEF read, IsWrite
    <3> QED
      BY <3>3, <3>4 DEF WriteRefreshed
  <2>2. CASE e # d
    BY <1>4, <2>2, <1>b DEF UidArrives
  <2> QED
    BY <2>1, <2>2
<1>5. ASSUME NEW d \in Devices, Answer(d)
      PROVE  WriteRefreshed(e)'
  <2>1. /\ link[d] # <<>>
        /\ link' = [link EXCEPT ![d] = Tail(link[d])]
        /\ awaiting' = awaiting
    BY <1>5 DEF Answer, GetAnswered, VoidAnswered, SetLands, RootSetLands,
                StoreWrite, deviceVars
  <2> QED
    BY <2>1, <1>b, <1>d
<1>6. ASSUME NEW d \in Devices, NEW i \in Item,
             AddItem(d, i) \/ RemoveItem(d, i)
      PROVE  WriteRefreshed(e)'
  <2>1. PICK its : SendWrite(d, its)
    BY <1>6 DEF AddItem, AddItemCallback, RemoveItem
  <2> QED
    BY <2>1, <1>b, <1>c DEF SendWrite, Refreshes
<1>7. CASE UNCHANGED vars
  BY <1>7, <1>b DEF vars, deviceVars
<1> QED
  BY <1>1, <1>2, <1>3, <1>4, <1>5, <1>6, <1>7 DEF Next, Edit, NonEdit
-----------------------------------------------------------------------------
(***************************************************************************)
(* A settled device holds the stored list.                                 *)
(***************************************************************************)

LEMMA StepHoldsLastRead ==
  ASSUME Inv, [Next]_vars
  PROVE  \A e \in Devices : HoldsLastRead(e)'
<1> TAKE e \in Devices
<1> USE DEF Inv, TypeOK
<1>a. HoldsLastRead(e)
  OBVIOUS
<1>b. ASSUME RefreshDue(e)'
      PROVE  HoldsLastRead(e)'
  BY <1>b DEF HoldsLastRead
<1>c. ASSUME awaiting'[e] > 0
      PROVE  HoldsLastRead(e)'
  BY <1>b, <1>c DEF RefreshDue
<1>d. ASSUME UNCHANGED <<link[e], awaiting[e], uidKnown[e], items[e],
                         groceryList[e]>>,
             mounted'[e] => mounted[e],
             e \in behind => e \in behind',
             cloud' = cloud \/ e \in behind'
      PROVE  HoldsLastRead(e)'
  BY <1>a, <1>d DEF HoldsLastRead, RefreshDue, ReadIn
<1>1. ASSUME NEW d \in Devices, Mount(d)
      PROVE  HoldsLastRead(e)'
  <2>1. CASE e = d
    BY <1>1, <2>1, <1>c DEF Mount
  <2>2. CASE e # d
    BY <1>1, <2>2, <1>d DEF Mount
  <2> QED
    BY <2>1, <2>2
<1>2. ASSUME NEW d \in Devices,
             Unmount(d) \/ OpenSearch(d) \/ RebuildSearch(d) \/ CloseSearch(d)
      PROVE  HoldsLastRead(e)'
  BY <1>2, <1>d DEF Unmount, OpenSearch, RebuildSearch, CloseSearch
<1>3. ASSUME NEW d \in Devices, Kill(d)
      PROVE  HoldsLastRead(e)'
  <2>1. CASE e = d
    BY <1>3, <2>1 DEF Kill, HoldsLastRead
  <2>2. CASE e # d
    BY <1>3, <2>2, <1>d DEF Kill
  <2> QED
    BY <2>1, <2>2
<1>4. ASSUME NEW d \in Devices, UidArrives(d)
      PROVE  HoldsLastRead(e)'
  <2>1. CASE e = d
    <3> DEFINE read == [op |-> "get", list |-> <<>>]
    <3>1. link'[e] = Append(link[e], read)
      BY <1>4, <2>1 DEF UidArrives, Suspended, WithRead
    <3>2. read \in Call /\ read.op = "get"
      BY DEF Call
    <3> HIDE DEF read
    <3>3. ReadIn(link'[e])
      BY <3>1, <3>2, AppendProperties, LenProperties DEF ReadIn
    <3> QED
      BY <3>3, <1>b DEF RefreshDue
  <2>2. CASE e # d
    BY <1>4, <2>2, <1>d DEF UidArrives
  <2> QED
    BY <2>1, <2>2
<1>5. ASSUME NEW d \in Devices, GetAnswered(d)
      PROVE  HoldsLastRead(e)'
  <2>1. CASE e = d
    <3>1. items'[e] = cloud' /\ mounted' = mounted
      BY <1>5, <2>1 DEF GetAnswered
    <3>2. ASSUME mounted[e], cloud # <<>>
          PROVE  groceryList'[e] = cloud'
      BY <1>5, <2>1, <3>2 DEF GetAnswered, Shows
    <3> QED
      BY <1>5, <3>1, <3>2 DEF HoldsLastRead, GetAnswered
  <2>2. CASE e # d
    <3>1. groceryList'[e] = groceryList[e]
      BY <1>5, <2>2 DEF GetAnswered
    <3> QED
      BY <1>5, <2>2, <3>1, <1>d DEF GetAnswered
  <2> QED
    BY <2>1, <2>2
<1>e. ASSUME link[e] # <<>>, link' = [link EXCEPT ![e] = Tail(link[e])],
             NEW m \in 2 .. Len(link[e]), link[e][m].op = "get"
      PROVE  ReadIn(link'[e])
  <2>1. /\ link'[e] = Tail(link[e])
        /\ Len(link[e]) \in Nat
        /\ Len(Tail(link[e])) = Len(link[e]) - 1
        /\ \A k \in 1 .. Len(Tail(link[e])) : Tail(link[e])[k] = link[e][k + 1]
    BY <1>e, HeadTailProperties, LenProperties
  <2>2. m - 1 \in 1 .. Len(Tail(link[e])) /\ (m - 1) + 1 = m
    BY <1>e, <2>1
  <2>3. Tail(link[e])[m - 1] = link[e][m]
    BY <2>1, <2>2
  <2> QED
    BY <1>e, <2>1, <2>2, <2>3 DEF ReadIn
<1>6. ASSUME NEW d \in Devices, VoidAnswered(d)
      PROVE  HoldsLastRead(e)'
  <2>1. CASE e = d
    <3>1. /\ link[e] # <<>>
          /\ link[e][1].op # "get"
          /\ link' = [link EXCEPT ![e] = Tail(link[e])]
          /\ UNCHANGED <<cloud, awaiting, uidKnown, items, groceryList,
                         mounted, behind>>
      BY <1>6, <2>1 DEF VoidAnswered, deviceVars
    <3>2. ASSUME ReadIn(link[e])
          PROVE  ReadIn(link'[e])
      <4>1. PICK m \in 1 .. Len(link[e]) : link[e][m].op = "get"
        BY <3>2 DEF ReadIn
      <4>2. m \in 2 .. Len(link[e])
        BY <3>1, <4>1, LenProperties
      <4> QED
        BY <3>1, <4>1, <4>2, <1>e
    <3> QED
      BY <1>a, <3>1, <3>2 DEF HoldsLastRead, RefreshDue
  <2>2. CASE e # d
    BY <1>6, <2>2, <1>d DEF VoidAnswered, deviceVars
  <2> QED
    BY <2>1, <2>2
<1>7. ASSUME NEW d \in Devices, SetLands(d) \/ RootSetLands(d)
      PROVE  HoldsLastRead(e)'
  <2>1. PICK its : StoreWrite(d, its)
    BY <1>7 DEF SetLands, RootSetLands
  <2>2. link[d] # <<>> /\ IsWrite(link[d][1])
    BY <1>7 DEF SetLands, RootSetLands, IsWrite
  <2>3. CASE e = d
    <3>1. 1 \in 1 .. Len(link[e])
      BY <2>2, <2>3, EmptySeq
    <3>2. \/ awaiting[e] > 0
          \/ \E m \in 2 .. Len(link[e]) : link[e][m].op = "get"
      <4>1. WriteRefreshed(e)
        BY DEF WritesAreRefreshed
      <4>2. \/ awaiting[e] > 0
            \/ \E m \in 1 + 1 .. Len(link[e]) : link[e][m].op = "get"
        BY <2>2, <2>3, <3>1, <4>1 DEF WriteRefreshed
      <4> QED
        BY <4>2
    <3>3. awaiting' = awaiting /\ link' = [link EXCEPT ![e] = Tail(link[e])]
      BY <2>1, <2>3 DEF StoreWrite
    <3> QED
      BY <2>2, <2>3, <3>2, <3>3, <1>b, <1>e DEF RefreshDue
  <2>4. CASE e # d
    BY <2>1, <2>4, <1>d DEF StoreWrite
  <2> QED
    BY <2>3, <2>4
<1>8. ASSUME NEW d \in Devices, NEW i \in Item,
             AddItem(d, i) \/ RemoveItem(d, i)
      PROVE  HoldsLastRead(e)'
  <2>1. PICK its : SendWrite(d, its)
    BY <1>8 DEF AddItem, AddItemCallback, RemoveItem
  <2>2. CASE e = d
    BY <2>1, <2>2, <1>c DEF SendWrite, Refreshes
  <2>3. CASE e # d
    <3>1. groceryList'[e] = groceryList[e]
      BY <1>8, <2>3 DEF AddItem, AddItemCallback, RemoveItem
    <3>2. UNCHANGED <<cloud, uidKnown, items, mounted, behind>>
      BY <1>8 DEF AddItem, AddItemCallback, RemoveItem
    <3> QED
      BY <2>1, <2>3, <3>1, <3>2, <1>d DEF SendWrite
  <2> QED
    BY <2>2, <2>3
<1>9. CASE UNCHANGED vars
  BY <1>9, <1>d DEF vars, deviceVars
<1> QED
  BY <1>1, <1>2, <1>3, <1>4, <1>5, <1>6, <1>7, <1>8, <1>9
  DEF Next, Edit, NonEdit, Answer

LEMMA Invariance == Spec => []Inv
<1>1. Init => Inv
  <2> SUFFICES ASSUME Init
               PROVE  Inv
    OBVIOUS
  <2>1. TypeOK
    BY InitTypeOK
  <2>2. \A d \in Devices : WriteRefreshed(d) /\ HoldsLastRead(d)
    BY DEF Init, WriteRefreshed, HoldsLastRead
  <2> QED
    BY <2>1, <2>2 DEF Inv, WritesAreRefreshed
<1>2. Inv /\ [Next]_vars => Inv'
  BY StepTypeOK, StepWritesAreRefreshed, StepHoldsLastRead DEF Inv
<1> QED
  BY <1>1, <1>2, PTL DEF Spec

\* Behind every write still queued there is a refresh, queued or due.
THEOREM EveryWriteRefreshed == Spec => []WritesAreRefreshed
<1>1. Inv => WritesAreRefreshed
  BY DEF Inv
<1> QED
  BY <1>1, Invariance, PTL

LEMMA QuietHasNoRefreshDue ==
  ASSUME Inv, NEW d \in Devices, Quiet(d)
  PROVE  ~ RefreshDue(d)
  BY DEF Inv, TypeOK, Quiet, RefreshDue, ReadIn

\* The list from which a settled device builds its next write is the stored
\* list, unless another device wrote since it last read.
THEOREM SettledBaseIsStored == Spec => []ItemsAreStored
<1>1. Inv => ItemsAreStored
  BY QuietHasNoRefreshDue DEF Inv, ItemsAreStored, HoldsLastRead, Quiet
<1> QED
  BY <1>1, Invariance, PTL

\* The screen of such a device shows the stored list if that is not empty.
THEOREM SettledScreenIsStored == Spec => []ScreenShowsStored
<1>1. Inv => ScreenShowsStored
  BY QuietHasNoRefreshDue DEF Inv, ScreenShowsStored, HoldsLastRead, Quiet
<1> QED
  BY <1>1, Invariance, PTL

\* The duplicate check is sound for a page whose list object is current.
THEOREM FreshCheckIsSound == Spec => FreshAddIsNew
<1>1. ASSUME Inv, [Next]_vars,
             NEW d \in Devices, NEW i \in Item,
             Quiet(d), mounted[d], d \notin behind, search[d].fresh,
             AddItem(d, i)
      PROVE  ~ Contains(cloud, i)
  <2>1. ~ Contains(groceryList[d], i)
    BY <1>1 DEF AddItem, MayAdd, Listed
  <2>2. items[d] = cloud /\ (cloud # <<>> => groceryList[d] = cloud)
    BY <1>1, QuietHasNoRefreshDue DEF Inv, HoldsLastRead, Quiet
  <2>3. ~ Contains(<<>>, i)
    BY DEF Contains
  <2> QED
    BY <2>1, <2>2, <2>3
<1>2. Inv /\ [Next]_vars =>
        [\A d \in Devices, i \in Item :
           /\ Quiet(d) /\ mounted[d] /\ d \notin behind
           /\ search[d].fresh
           /\ AddItem(d, i)
           => ~Contains(cloud, i)]_vars
  BY <1>1
<1> QED
  BY <1>2, Invariance, PTL DEF Spec, FreshAddIsNew

-----------------------------------------------------------------------------
(***************************************************************************)
(* One device and a patient user: the stored list obeys StoredList.  The   *)
(* invariant says that at most one write is in flight, that it does not go *)
(* to the root, and that it is one edit away from what is stored.          *)
(***************************************************************************)

OneEdit(list, its) ==
  \/ its = list
  \/ \E i \in Item : its = Append(list, i)
  \/ \E i \in Item, k \in 1 .. Len(list) :
       list[k] = i /\ its = Dropped(list, k)

OneWrite(list, calls) ==
  \A k \in 1 .. Len(calls) :
    IsWrite(calls[k]) =>
      /\ calls[k].op = "set"
      /\ OneEdit(list, calls[k].list)
      /\ \A j \in 1 .. Len(calls) : IsWrite(calls[j]) => j = k

PatientInv == behind = {} /\ \A d \in Devices : OneWrite(cloud, link[d])

Solo == \A d, e \in Devices : d = e

LEMMA PatientIsSpec == PatientSpec => Spec
<1>1. [PatientNext]_vars => [Next]_vars
  BY DEF PatientNext, Next
<1> QED
  BY <1>1, PTL DEF PatientSpec, Spec

LEMMA StepPatientInv ==
  ASSUME Solo, Inv, PatientInv, [PatientNext]_vars
  PROVE  PatientInv' /\ [Promise!Next]_cloud
<1> USE DEF Inv, TypeOK
<1>a. ASSUME NEW d \in Devices, behind' = {}, OneWrite(cloud', link'[d])
      PROVE  PatientInv'
  BY <1>a DEF Solo, PatientInv
<1>b. ASSUME NEW d \in Devices
      PROVE  behind \union (Devices \ {d}) = {} /\ behind \ {d} = {}
  BY DEF Solo, PatientInv
<1>c. \A d \in Devices : OneWrite(cloud, link[d])
  BY DEF PatientInv
<1>d. ASSUME NEW d \in Devices, link[d] # <<>>
      PROVE  /\ Len(link[d]) \in Nat
             /\ Len(Tail(link[d])) = Len(link[d]) - 1
             /\ \A k \in 1 .. Len(Tail(link[d])) : Tail(link[d])[k] = link[d][k + 1]
  BY <1>d, HeadTailProperties, LenProperties
<1>e. ASSUME UNCHANGED <<cloud, link, behind>>
      PROVE  PatientInv' /\ cloud' = cloud
  BY <1>e DEF PatientInv
<1>1. ASSUME NEW d \in Devices, Mount(d)
      PROVE  PatientInv' /\ cloud' = cloud
  <2>1. link'[d] = LeftBehind(link[d]) /\ cloud' = cloud
    BY <1>1 DEF Mount
  <2>2. /\ Len(LeftBehind(link[d])) = Len(link[d])
        /\ \A k \in 1 .. Len(link[d]) :
             IsWrite(LeftBehind(link[d])[k]) =>
               IsWrite(link[d][k]) /\ LeftBehind(link[d])[k] = link[d][k]
    BY LeftBehindIsSeq DEF LeftBehind, IsWrite
  <2>3. OneWrite(cloud, LeftBehind(link[d]))
    <3> SUFFICES ASSUME NEW k \in 1 .. Len(link[d]),
                        IsWrite(LeftBehind(link[d])[k])
                 PROVE  /\ LeftBehind(link[d])[k].op = "set"
                        /\ OneEdit(cloud, LeftBehind(link[d])[k].list)
                        /\ \A j \in 1 .. Len(link[d]) :
                             IsWrite(LeftBehind(link[d])[j]) => j = k
      BY <2>2 DEF OneWrite
    <3>1. IsWrite(link[d][k]) /\ LeftBehind(link[d])[k] = link[d][k]
      BY <2>2
    <3>2. /\ link[d][k].op = "set"
          /\ OneEdit(cloud, link[d][k].list)
          /\ \A j \in 1 .. Len(link[d]) : IsWrite(link[d][j]) => j = k
      BY <3>1, <1>c DEF OneWrite
    <3>3. \A j \in 1 .. Len(link[d]) : IsWrite(LeftBehind(link[d])[j]) => j = k
      BY <2>2, <3>2
    <3> QED
      BY <3>1, <3>2, <3>3
  <2> QED
    BY <1>1, <2>1, <2>3, <1>a, <1>b DEF Mount
<1>2. ASSUME NEW d \in Devices,
             Unmount(d) \/ OpenSearch(d) \/ RebuildSearch(d) \/ CloseSearch(d)
      PROVE  PatientInv' /\ cloud' = cloud
  BY <1>2, <1>e DEF Unmount, OpenSearch, RebuildSearch, CloseSearch
<1>3. ASSUME NEW d \in Devices, Kill(d)
      PROVE  PatientInv' /\ cloud' = cloud
  <2>1. link'[d] = <<>> /\ cloud' = cloud
    BY <1>3 DEF Kill
  <2>2. OneWrite(cloud', link'[d])
    BY <2>1 DEF OneWrite
  <2> QED
    BY <1>3, <2>1, <2>2, <1>a, <1>b DEF Kill
<1>4. ASSUME NEW d \in Devices, UidArrives(d)
      PROVE  PatientInv' /\ cloud' = cloud
  <2> DEFINE read == [op |-> "get", list |-> <<>>]
  <2>1. link'[d] = Append(link[d], read) /\ cloud' = cloud /\ behind' = behind
    BY <1>4 DEF UidArrives, Suspended, WithRead
  <2>2. read \in Call /\ ~ IsWrite(read)
    BY DEF Call, IsWrite
  <2> HIDE DEF read
  <2>3. /\ Len(link[d]) \in Nat
        /\ Len(link'[d]) = Len(link[d]) + 1
        /\ \A k \in 1 .. Len(link[d]) : link'[d][k] = link[d][k]
        /\ link'[d][Len(link[d]) + 1] = read
    BY <2>1, <2>2, AppendProperties, LenProperties
  <2>4. \A k \in 1 .. Len(link'[d]) :
          IsWrite(link'[d][k]) =>
            k \in 1 .. Len(link[d]) /\ link'[d][k] = link[d][k]
    BY <2>2, <2>3
  <2>5. OneWrite(cloud', link'[d])
    BY <2>1, <2>4, <1>c DEF OneWrite
  <2> QED
    BY <2>1, <2>5, <1>a DEF PatientInv
<1>5. ASSUME NEW d \in Devices, GetAnswered(d) \/ VoidAnswered(d)
      PROVE  PatientInv' /\ cloud' = cloud
  <2>1. /\ link[d] # <<>>
        /\ link'[d] = Tail(link[d])
        /\ cloud' = cloud
        /\ behind' = {}
    BY <1>5, <1>b DEF GetAnswered, VoidAnswered, deviceVars, PatientInv
  <2>2. \A k \in 1 .. Len(link'[d]) :
          k + 1 \in 1 .. Len(link[d]) /\ link'[d][k] = link[d][k + 1]
    BY <2>1, <1>d
  <2>3. OneWrite(cloud', link'[d])
    BY <2>1, <2>2, <1>c DEF OneWrite
  <2> QED
    BY <2>1, <2>3, <1>a
<1>6. ASSUME NEW d \in Devices, SetLands(d) \/ RootSetLands(d)
      PROVE  PatientInv' /\ [Promise!Next]_cloud
  <2>1. link[d] # <<>> /\ IsWrite(link[d][1]) /\ 1 \in 1 .. Len(link[d])
    BY <1>6, EmptySeq DEF SetLands, RootSetLands, IsWrite
  <2>2. /\ link[d][1].op = "set"
        /\ OneEdit(cloud, link[d][1].list)
        /\ \A j \in 1 .. Len(link[d]) : IsWrite(link[d][j]) => j = 1
    BY <2>1, <1>c DEF OneWrite
  <2>3. StoreWrite(d, link[d][1].list)
    BY <1>6, <2>2 DEF SetLands, RootSetLands
  <2>4. link'[d] = Tail(link[d]) /\ behind' = {}
    BY <2>3, <1>b DEF StoreWrite, PatientInv
  <2>5. \A k \in 1 .. Len(link'[d]) : ~ IsWrite(link'[d][k])
    <3> TAKE k \in 1 .. Len(link'[d])
    <3>1. k + 1 \in 1 .. Len(link[d]) /\ k + 1 # 1 /\ link'[d][k] = link[d][k + 1]
      BY <2>1, <2>4, <1>d
    <3> QED
      BY <3>1, <2>2
  <2>6. PatientInv'
    BY <2>4, <2>5, <1>a DEF OneWrite
  <2>7. [Promise!Next]_cloud
    BY <2>2, <2>3 DEF StoreWrite, OneEdit, Promise!Next, Promise!Add,
                      Promise!RemoveOne, Dropped
  <2> QED
    BY <2>6, <2>7
<1>7. ASSUME NEW d \in Devices, NEW i \in Item, Quiet(d),
             AddItem(d, i) \/ RemoveItem(d, i)
      PROVE  PatientInv' /\ cloud' = cloud
  <2>1. items[d] = cloud /\ uidKnown[d] /\ link[d] = <<>>
    BY <1>7, QuietHasNoRefreshDue DEF HoldsLastRead, Quiet, PatientInv
  <2>2. /\ cloud' = cloud
        /\ behind' = behind
        /\ \E its : OneEdit(cloud, its) /\ SendWrite(d, its)
    <3>1. CASE AddItem(d, i)
      BY <3>1, <2>1 DEF AddItem, AddItemCallback, WithItem, OneEdit
    <3>2. CASE RemoveItem(d, i)
      <4>1. OneEdit(cloud, RemoveFirst(cloud, i))
        BY RemoveFirstIsSeq DEF OneEdit
      <4> QED
        BY <3>2, <4>1, <2>1 DEF RemoveItem, WithoutItem
    <3> QED
      BY <1>7, <3>1, <3>2
  <2>3. PICK its : OneEdit(cloud, its) /\ SendWrite(d, its)
    BY <2>2
  <2>4. link'[d] = Append(<<>>, [op |-> "set", list |-> its])
    BY <2>1, <2>3 DEF SendWrite, Write
  <2>5. Len(link'[d]) = 1 /\ link'[d][1] = [op |-> "set", list |-> its]
    BY <2>4
  <2>6. OneWrite(cloud', link'[d])
    BY <2>2, <2>3, <2>5 DEF OneWrite
  <2> QED
    BY <2>2, <2>6, <1>a DEF PatientInv
<1>8. CASE UNCHANGED vars
  BY <1>8, <1>e DEF vars
<1> QED
  BY <1>1, <1>2, <1>3, <1>4, <1>5, <1>6, <1>7, <1>8
  DEF PatientNext, Edit, NonEdit, Answer

\* One device in the hands of a patient user keeps what StoredList promises:
\* each write that lands adds one item or removes one and loses nothing.
THEOREM PatientKeepsTheRest ==
  ASSUME Solo
  PROVE  PatientSpec => EditsKeepTheRest
<1>1. Init => PatientInv /\ Promise!Init
  BY DEF Init, PatientInv, OneWrite, Promise!Init
<1>2. Inv /\ PatientInv /\ [PatientNext]_vars
        => PatientInv' /\ [Promise!Next]_cloud
  BY StepPatientInv
<1> QED
  BY <1>1, <1>2, PatientIsSpec, Invariance, PTL
  DEF PatientSpec, EditsKeepTheRest, Promise!Spec
=============================================================================
