-------------------------- MODULE PricePageProofs ---------------------------
(* What a comparison is about, and that it does not change under the eyes  *)
(* of who shops, for every set of lists, names and stores.                 *)
EXTENDS PricePage, TLAPS, SequenceTheorems

(***************************************************************************)
(* The body of a request.                                                  *)
(***************************************************************************)

LEMMA NoneIsNoData == None \notin Data
<1>1. Null \notin Lists
  BY PricesAssumption
<1> QED BY <1>1 DEF None, Data

LEMMA BeforeLast ==
  ASSUME NEW n \in Nat PROVE \A k \in 1 .. n : k # n <=> k \in 1 .. n - 1
  OBVIOUS

LEMMA ParsedEncoded ==
  ASSUME NEW list \in Lists
  PROVE  Parsed(encodeListAsJson(list)) =
           IF LastIsUnique(list) /\ Legible(list) THEN list ELSE Null
<1> DEFINE body == encodeListAsJson(list)
           clear == \A k \in 1 .. Len(body) :
                      /\ body[k].item \notin Illegible
                      /\ body[k].comma <=> k # Len(body)
<1>1. list \in Seq(Item) /\ Len(list) \in Nat /\ DOMAIN list = 1 .. Len(list)
  BY PricesAssumption
<1>2. body \in Seq([item : Item, comma : BOOLEAN])
  <2>1. \A k \in 1 .. Len(list) :
          [item |-> list[k], comma |-> Separated(list[k], list)]
            \in [item : Item, comma : BOOLEAN]
    BY <1>1 DEF Separated
  <2> QED BY <1>1, <2>1, IsASeq DEF encodeListAsJson
<1>3. DOMAIN body = 1 .. Len(body) /\ DOMAIN body = 1 .. Len(list)
      /\ Len(body) \in Nat
  BY <1>2 DEF encodeListAsJson
<1>4. Len(body) = Len(list)
  BY <1>1 DEF encodeListAsJson
<1>5. \A k \in 1 .. Len(list) :
        body[k].item = list[k] /\ (body[k].comma <=> list[k] # list[Len(list)])
  BY DEF encodeListAsJson, Separated
<1> HIDE DEF body
<1>6. clear <=> LastIsUnique(list) /\ Legible(list)
  <2>1. clear <=> \A k \in 1 .. Len(list) :
                    list[k] \notin Illegible
                    /\ (list[k] # list[Len(list)] <=> k # Len(list))
    BY <1>4, <1>5
  <2>2. LastIsUnique(list)
          <=> \A k \in 1 .. Len(list) : list[k] # list[Len(list)] <=> k # Len(list)
    <3>1. \A k \in 1 .. Len(list) : k # Len(list) <=> k \in 1 .. Len(list) - 1
      BY <1>1, BeforeLast
    <3>2. \A k \in 1 .. Len(list) - 1 : k \in 1 .. Len(list)
      BY <1>1
    <3> QED BY <3>1, <3>2 DEF LastIsUnique
  <2> QED BY <2>1, <2>2 DEF Legible
<1>7. [k \in 1 .. Len(body) |-> body[k].item] = list
  BY <1>1, <1>4, <1>5
<1>8. Parsed(body) = IF clear THEN [k \in 1 .. Len(body) |-> body[k].item] ELSE Null
  BY DEF Parsed
<1> QED BY <1>6, <1>7, <1>8 DEF body

LEMMA EncodedTyped ==
  ASSUME NEW list \in Lists
  PROVE  [list |-> list, body |-> encodeListAsJson(list)] \in Request
<1>1. list \in Seq(Item) /\ Len(list) \in Nat
  BY PricesAssumption
<1>2. \A k \in 1 .. Len(list) :
        [item |-> list[k], comma |-> Separated(list[k], list)]
          \in [item : Item, comma : BOOLEAN]
  BY <1>1 DEF Separated
<1>3. encodeListAsJson(list) \in Seq([item : Item, comma : BOOLEAN])
  BY <1>1, <1>2, IsASeq DEF encodeListAsJson
<1> QED BY <1>3 DEF Request

LEMMA FlippedTyped ==
  ASSUME NEW data \in Data, NEW row \in Stores \X Nat
  PROVE  /\ Flipped(data, row) \in Data
         /\ Flipped(data, row).list = data.list
  BY DEF Flipped, Data

(***************************************************************************)
(* The invariant, in parts that each action disturbs or leaves alone.      *)
(***************************************************************************)

\* What is read, sent and compared was stored, and only a list with something
\* in it is sent.
ListsWere ==
  /\ stored \in was
  /\ reading.answer # Null => reading.answer \in was
  /\ groceryList # Null => groceryList \in was /\ groceryList # <<>>
  /\ ComparedWasStored

Sent(request) ==
  /\ request.list \in was /\ request.list # <<>>
  /\ request.body = encodeListAsJson(request.list)

RequestsSent == \A n \in DOMAIN requests : Sent(requests[n])

\* Older data and a shopping list are there only while Compare is, and a page
\* that asks for one comparison at a time has neither an answer under way while
\* there is a comparison nor older data.
InUse ==
  /\ kept # None => shown = "Compare" /\ Draws
  /\ shopping # Null => shown = "Compare" /\ Draws

Alone ==
  ~ overlapped =>
    /\ Len(requests) <= 1 /\ kept = None
    /\ requests # <<>> => comparison = None

IInv == TypeOK /\ ListsWere /\ RequestsSent /\ InUse /\ Alone

LEMMA Started == Init => IInv
<1> SUFFICES ASSUME Init PROVE IInv
  OBVIOUS
<1>1. <<>> \in Seq(Request) /\ Len(<<>>) = 0 /\ DOMAIN <<>> = {}
  OBVIOUS
<1>2. TypeOK
  <2>1. selected \in [Stores -> BOOLEAN] /\ overlapped \in BOOLEAN
    BY DEF Init
  <2>2. requests \in Seq(Request) /\ Len(requests) <= MaxRequests
    BY <1>1, PricesAssumption DEF Init
  <2>3. reading \in [asked : BOOLEAN, answer : Lists \cup {Null}]
    BY DEF Init, NoRead
  <2> QED BY <2>1, <2>2, <2>3 DEF Init, TypeOK
<1>3. ListsWere
  BY DEF Init, ListsWere, ComparedWasStored, NoRead
<1>4. RequestsSent
  BY <1>1 DEF Init, RequestsSent
<1>5. InUse /\ Alone
  BY <1>1 DEF Init, InUse, Alone
<1> QED BY <1>2, <1>3, <1>4, <1>5 DEF IInv

\* While Compare is shown there is something to draw.
LEMMA DrawnIsData ==
  ASSUME TypeOK, shown = "Compare" PROVE Drawn \in Data
  BY DEF TypeOK, Drawn

\* What an answer that the page can use is about.
LEMMA AnswerIsList ==
  ASSUME IInv, NEW n \in DOMAIN requests, Parsed(requests[n].body) # Null
  PROVE  /\ Parsed(requests[n].body) = requests[n].list
         /\ requests[n].list \in Lists
<1>1. requests[n] \in Request
  BY DEF IInv, TypeOK
<1>2. requests[n].list \in Lists
  BY <1>1 DEF Request
<1>3. requests[n].body = encodeListAsJson(requests[n].list)
  BY DEF IInv, RequestsSent, Sent
<1> QED BY <1>2, <1>3, ParsedEncoded

\* A request that is over leaves the others as they are.
LEMMA OthersRemain ==
  ASSUME TypeOK, NEW n \in DOMAIN requests
  PROVE  /\ Without(n) \in Seq(Request)
         /\ Len(Without(n)) = Len(requests) - 1
         /\ \A k \in DOMAIN Without(n) : \E j \in DOMAIN requests :
              Without(n)[k] = requests[j]
<1> DEFINE before == SubSeq(requests, 1, n - 1)
           after == SubSeq(requests, n + 1, Len(requests))
           held == {requests[j] : j \in DOMAIN requests}
<1>1. requests \in Seq(Request) /\ Len(requests) \in Nat
      /\ DOMAIN requests = 1 .. Len(requests)
  BY DEF TypeOK
<1>2. before \in Seq(held) /\ Len(before) = n - 1
  <2>1. \A i \in 1 .. n - 1 : requests[i] \in held
    BY <1>1
  <2> QED BY <1>1, <2>1, SubSeqProperties
<1>3. after \in Seq(held) /\ Len(after) = Len(requests) - n
  <2>1. \A i \in n + 1 .. Len(requests) : requests[i] \in held
    BY <1>1
  <2> QED BY <1>1, <2>1, SubSeqProperties
<1>4. Without(n) = before \o after
  BY DEF Without, RemoveAt
<1> HIDE DEF before, after, held
<1>5. Without(n) \in Seq(held) /\ Len(Without(n)) = Len(requests) - 1
  <2>1. (before \o after) \in Seq(held)
        /\ Len(before \o after) = Len(before) + Len(after)
    BY <1>2, <1>3, ConcatProperties
  <2>2. (n - 1) + (Len(requests) - n) = Len(requests) - 1
    BY <1>1
  <2> QED BY <1>2, <1>3, <1>4, <2>1, <2>2
<1>6. \A k \in DOMAIN Without(n) : Without(n)[k] \in held
  BY <1>5
<1>7. held \subseteq Request
  BY <1>1 DEF held
<1>8. Without(n) \in Seq(Request)
  BY <1>5, <1>7
<1> QED BY <1>5, <1>6, <1>8 DEF held

(***************************************************************************)
(* Every step keeps it.                                                    *)
(***************************************************************************)

LEMMA StoreKeeps ==
  ASSUME IInv, NEW list \in Lists, Store(list) PROVE IInv'
  BY DEF IInv, TypeOK, ListsWere, ComparedWasStored, RequestsSent, Sent, InUse,
         Alone, Store, pageVars, shopVars

LEMMA TabKeeps ==
  ASSUME IInv, ChooseTab \/ ChooseOther PROVE IInv'
<1>1. CASE ChooseTab
  <2>1. /\ selected' \in [Stores -> BOOLEAN]
        /\ reading' \in [asked : BOOLEAN, answer : Lists \cup {Null}]
        /\ groceryList' \in Lists \cup {Null}
    <3>1. CASE UNCHANGED pageVars
      BY <3>1 DEF IInv, TypeOK, pageVars
    <3>2. CASE Appear
      BY <3>2 DEF Appear, Asked
    <3> QED BY <1>1, <3>1, <3>2 DEF ChooseTab
  <2>2. \/ reading' = reading /\ groceryList' = groceryList
        \/ reading'.answer = Null /\ groceryList' = Null
    BY <1>1 DEF ChooseTab, Appear, Asked, pageVars
  <2>3. shown' = IF comparison = None THEN "Prices" ELSE "Compare"
    BY <1>1 DEF ChooseTab
  <2>4. shown = "other" /\ UNCHANGED <<stored, requests, shopVars, was, overlapped>>
    BY <1>1 DEF ChooseTab
  <2>5. TypeOK'
    BY <2>1, <2>3, <2>4 DEF IInv, TypeOK, shopVars
  <2>6. ListsWere' /\ RequestsSent'
    BY <2>2, <2>4
       DEF IInv, ListsWere, ComparedWasStored, RequestsSent, Sent, shopVars
  <2>7. InUse' /\ Alone'
    BY <2>4 DEF IInv, InUse, Alone, shopVars
  <2> QED BY <2>5, <2>6, <2>7 DEF IInv
<1>2. CASE ChooseOther
  BY <1>2, PricesAssumption
     DEF IInv, TypeOK, ListsWere, ComparedWasStored, RequestsSent, Sent, InUse,
         Alone, ChooseOther, Disappear, NoRead
<1> QED BY <1>1, <1>2

LEMMA ReadKeeps ==
  ASSUME IInv, ServeRead \/ ReadAnswered PROVE IInv'
<1>1. CASE ServeRead
  BY <1>1 DEF IInv, TypeOK, ListsWere, ComparedWasStored, RequestsSent, Sent,
              InUse, Alone, ServeRead, Asked, shopVars
<1>2. CASE ReadAnswered
  BY <1>2, PricesAssumption
     DEF IInv, TypeOK, ListsWere, ComparedWasStored, RequestsSent, Sent, InUse,
         Alone, ReadAnswered, Read, NoRead, shopVars
<1> QED BY <1>1, <1>2

LEMMA ToggleKeeps ==
  ASSUME IInv, NEW s \in Stores, Toggle(s) PROVE IInv'
  BY DEF IInv, TypeOK, ListsWere, ComparedWasStored, RequestsSent, Sent, InUse,
         Alone, Toggle, shopVars

LEMMA CompareKeeps ==
  ASSUME IInv, TapCompare PROVE IInv'
<1> DEFINE request == [list |-> groceryList, body |-> encodeListAsJson(groceryList)]
<1>1. groceryList \in Lists /\ groceryList \in was /\ groceryList # <<>>
  BY DEF IInv, TypeOK, ListsWere, TapCompare
<1>2. request \in Request
  BY <1>1, EncodedTyped
<1>3. requests \in Seq(Request) /\ Len(requests) \in Nat
  BY DEF IInv, TypeOK
<1>4. requests' = Append(requests, request)
  BY DEF TapCompare
<1>5. requests' \in Seq(Request) /\ Len(requests') = Len(requests) + 1
  BY <1>2, <1>3, <1>4, AppendProperties
<1>6. \A n \in DOMAIN requests' :
        (n \in DOMAIN requests /\ requests'[n] = requests[n]) \/ requests'[n] = request
  BY <1>2, <1>3, <1>4, <1>5
<1>7. TypeOK'
  BY <1>3, <1>5, PricesAssumption DEF IInv, TypeOK, TapCompare, pageVars, shopVars
<1>8. ListsWere'
  BY DEF IInv, ListsWere, ComparedWasStored, TapCompare, pageVars, shopVars
<1>9. RequestsSent'
  <2>1. UNCHANGED was
    BY DEF TapCompare
  <2>2. Sent(request)
    BY <1>1 DEF Sent
  <2> QED BY <1>6, <2>1, <2>2 DEF IInv, RequestsSent, Sent
<1>10. InUse'
  BY DEF IInv, InUse, TapCompare, shopVars
<1>11. Alone'
  <2>1. comparison = None /\ kept = None /\ UNCHANGED <<comparison, kept>>
    BY DEF IInv, TypeOK, InUse, TapCompare, shopVars
  <2>2. ~ overlapped' => requests = <<>>
    BY DEF TapCompare
  <2>3. requests = <<>> => Len(requests') <= 1
    BY <1>5
  <2> QED BY <2>1, <2>2, <2>3 DEF Alone
<1> QED BY <1>7, <1>8, <1>9, <1>10, <1>11 DEF IInv

LEMMA RestSent ==
  ASSUME IInv, NEW n \in DOMAIN requests, requests' = Without(n), UNCHANGED was
  PROVE  /\ requests' \in Seq(Request) /\ Len(requests') = Len(requests) - 1
         /\ Len(requests') \in Nat
         /\ RequestsSent'
<1>1. requests' \in Seq(Request) /\ Len(requests') = Len(requests) - 1
  BY OthersRemain DEF IInv
<1>2. Len(requests') \in Nat
  BY <1>1
<1>3. \A k \in DOMAIN requests' : \E j \in DOMAIN requests : requests'[k] = requests[j]
  BY OthersRemain DEF IInv
<1>4. RequestsSent'
  BY <1>3 DEF IInv, RequestsSent, Sent
<1> QED BY <1>1, <1>2, <1>4

LEMMA FailedKeeps ==
  ASSUME IInv, NEW n \in DOMAIN requests, Failed(n) PROVE IInv'
<1>1. /\ requests' \in Seq(Request) /\ Len(requests') = Len(requests) - 1
      /\ Len(requests') \in Nat /\ RequestsSent'
  BY RestSent DEF Failed
<1>2. Len(requests) \in Nat /\ MaxRequests \in Nat
  BY PricesAssumption DEF IInv, TypeOK
<1>3. TypeOK'
  BY <1>1, <1>2 DEF IInv, TypeOK, Failed, pageVars, shopVars
<1>4. ListsWere' /\ InUse'
  BY DEF IInv, ListsWere, ComparedWasStored, InUse, Failed, pageVars, shopVars
<1>5. Alone'
  <2>1. ~ overlapped' => requests' = <<>> \/ comparison' = None
    BY <1>1, <1>2 DEF IInv, Alone, Failed, shopVars
  <2> QED BY <1>1, <1>2, <2>1 DEF IInv, Alone, Failed, shopVars
<1> QED BY <1>1, <1>3, <1>4, <1>5 DEF IInv

LEMMA AnsweredKeeps ==
  ASSUME IInv, NEW n \in DOMAIN requests, Answered(n) PROVE IInv'
<1> DEFINE list == requests[n].list
           data == [list |-> list, ticks |-> {}]
<1>1. /\ requests' \in Seq(Request) /\ Len(requests') = Len(requests) - 1
      /\ Len(requests') \in Nat /\ RequestsSent'
  BY RestSent DEF Answered
<1>2. Len(requests) \in Nat /\ MaxRequests \in Nat
  BY PricesAssumption DEF IInv, TypeOK
<1>3. Parsed(requests[n].body) = list /\ list \in Lists
  BY AnswerIsList DEF Answered
<1>4. comparison' = data /\ data \in Data /\ data # None
  <2>1. comparison' = data
    BY <1>3 DEF Answered
  <2>2. data \in Data
    BY <1>3 DEF Data
  <2> QED BY <2>1, <2>2, NoneIsNoData
<1>5. kept' \in Data \cup {None} /\ (kept' # None => Draws)
  <2>1. CASE shown = "Compare" /\ Draws
    <3>1. Drawn \in Data
      BY <2>1, DrawnIsData DEF IInv
    <3> QED BY <2>1, <3>1 DEF Answered, Kept
  <2>2. CASE ~ (shown = "Compare" /\ Draws)
    BY <2>2 DEF Answered, Kept
  <2> QED BY <2>1, <2>2
<1>6. TypeOK'
  <2>1. reading' \in [asked : BOOLEAN, answer : Lists \cup {Null}]
        /\ groceryList' \in Lists \cup {Null} /\ selected' \in [Stores -> BOOLEAN]
    BY DEF IInv, TypeOK, Answered, Disappear, NoRead
  <2>2. Len(requests') <= MaxRequests
    BY <1>1, <1>2 DEF IInv, TypeOK
  <2> QED BY <1>1, <1>4, <1>5, <2>1, <2>2 DEF IInv, TypeOK, Answered
<1>7. ListsWere'
  <2>1. list \in was /\ list # <<>>
    BY DEF IInv, RequestsSent, Sent
  <2>2. ComparedWasStored'
    BY <1>4, <2>1 DEF ComparedWasStored, Answered
  <2> QED BY <2>2 DEF IInv, ListsWere, Answered, Disappear, NoRead
<1>8. InUse'
  BY <1>5 DEF IInv, InUse, Answered
<1>9. Alone'
  <2> SUFFICES ASSUME ~ overlapped' PROVE Len(requests') = 0 /\ kept' = None
    BY <1>1 DEF Alone
  <2>1. Len(requests) <= 1 /\ (requests # <<>> => comparison = None)
    BY DEF Answered, IInv, Alone
  <2>2. Len(requests) # 0
    BY <1>1, <1>2
  <2>3. requests # <<>>
    BY <2>2
  <2>4. Len(requests') = 0
    BY <1>1, <1>2, <2>1, <2>2
  <2>5. shown # "Compare"
    BY <2>1, <2>3 DEF IInv, TypeOK
  <2>6. kept' = None
    BY <2>5 DEF Answered, Kept
  <2> QED BY <2>4, <2>6
<1> QED BY <1>1, <1>6, <1>7, <1>8, <1>9 DEF IInv

LEMMA ResetKeeps ==
  ASSUME IInv, TapReset PROVE IInv'
  BY PricesAssumption
     DEF IInv, TypeOK, ListsWere, ComparedWasStored, RequestsSent, Sent, InUse,
         Alone, TapReset, AfterReset, Appear, Asked

LEMMA ShoplistKeeps ==
  ASSUME IInv, CloseShoplist \/ \E s \in Stores : OpenShoplist(s) PROVE IInv'
<1>1. CASE CloseShoplist
  BY <1>1 DEF IInv, TypeOK, ListsWere, ComparedWasStored, RequestsSent, Sent,
              InUse, Alone, CloseShoplist, pageVars
<1>2. ASSUME NEW s \in Stores, OpenShoplist(s) PROVE IInv'
  BY <1>2 DEF IInv, TypeOK, ListsWere, ComparedWasStored, RequestsSent, Sent,
              InUse, Alone, OpenShoplist, pageVars
<1> QED BY <1>1, <1>2

LEMMA RowIsTickable ==
  ASSUME IInv, NEW row, TapRow(row)
  PROVE  /\ shown = "Compare" /\ Drawn \in Data
         /\ row \in Stores \X Nat /\ row[1] = shopping
<1>1. shown = "Compare" /\ shopping \in Stores
  BY DEF IInv, InUse, TypeOK, TapRow
<1>2. Drawn \in Data
  BY <1>1, DrawnIsData DEF IInv
<1> QED BY <1>1, <1>2 DEF TapRow

LEMMA TapKeeps ==
  ASSUME IInv, NEW row, TapRow(row) PROVE IInv'
<1>1. shown = "Compare" /\ row \in Stores \X Nat
  BY RowIsTickable
<1>2. CASE kept # None
  <2>1. kept \in Data
    BY <1>2 DEF IInv, TypeOK
  <2>2. kept' = Flipped(kept, row) /\ comparison' = comparison
    BY <1>2 DEF TapRow
  <2>3. kept' \in Data
    BY <1>1, <2>1, <2>2, FlippedTyped
  <2> QED BY <1>2, <2>2, <2>3
          DEF IInv, TypeOK, ListsWere, ComparedWasStored, RequestsSent, Sent,
              InUse, Alone, TapRow, pageVars
<1>3. CASE kept = None
  <2>1. comparison \in Data /\ comparison # None
    BY <1>1, NoneIsNoData DEF IInv, TypeOK
  <2>2. comparison' = Flipped(comparison, row) /\ kept' = kept
    BY <1>3 DEF TapRow
  <2>3. comparison' \in Data /\ comparison'.list = comparison.list /\ comparison' # None
    BY <1>1, <2>1, <2>2, FlippedTyped, NoneIsNoData
  <2> QED BY <1>1, <1>3, <2>1, <2>2, <2>3
          DEF IInv, TypeOK, ListsWere, ComparedWasStored, RequestsSent, Sent,
              InUse, Alone, TapRow, pageVars
<1> QED BY <1>2, <1>3

LEMMA StepKeeps == IInv /\ [Next]_vars => IInv'
<1> SUFFICES ASSUME IInv, [Next]_vars PROVE IInv'
  OBVIOUS
<1>1. CASE UNCHANGED vars
  BY <1>1 DEF IInv, TypeOK, ListsWere, ComparedWasStored, RequestsSent, Sent,
              InUse, Alone, vars, pageVars, shopVars
<1>2. CASE Next
  BY <1>2, StoreKeeps, TabKeeps, ReadKeeps, ToggleKeeps, CompareKeeps, FailedKeeps,
     AnsweredKeeps, ResetKeeps, ShoplistKeeps, TapKeeps DEF Next
<1> QED BY <1>1, <1>2

THEOREM Invariant == Spec => []IInv
<1> QED BY Started, StepKeeps, PTL DEF Spec

(***************************************************************************)
(* The properties.                                                         *)
(***************************************************************************)

\* Every state of the price page, its requests and its comparison is typed.
THEOREM TypeCorrect == Spec => []TypeOK
<1>1. IInv => TypeOK
  BY DEF IInv
<1> QED BY <1>1, Invariant, PTL

\* The server reads the page's list in a body, or nothing: for every list
\* (encodeListAsJson).
THEOREM BodiesAreLists == Spec => []BodyIsList
<1>1. IInv => BodyIsList
  <2> SUFFICES ASSUME IInv, NEW n \in DOMAIN requests
               PROVE  LET list == requests[n].list
                      IN  Parsed(requests[n].body) =
                            IF LastIsUnique(list) /\ Legible(list) THEN list ELSE Null
    BY DEF BodyIsList
  <2>1. requests[n].list \in Lists
    <3>1. requests[n] \in Request
      BY DEF IInv, TypeOK
    <3> QED BY <3>1 DEF Request
  <2>2. requests[n].body = encodeListAsJson(requests[n].list)
    BY DEF IInv, RequestsSent, Sent
  <2> QED BY <2>1, <2>2, ParsedEncoded
<1> QED BY <1>1, Invariant, PTL

\* What is compared is a whole list that the account had, and not empty
\* (initializeVars, priceCompare).
THEOREM ComparedIsStored == Spec => []ComparedWasStored
<1>1. IInv => ComparedWasStored
  BY DEF IInv, ListsWere
<1> QED BY <1>1, Invariant, PTL

\* Who asks for one comparison at a time sees the latest (CompareState).
THEOREM LatestIsDrawn == Spec => []DrawnIsLatest
<1>1. IInv => DrawnIsLatest
  BY DEF IInv, Alone, DrawnIsLatest, Drawn
<1> QED BY <1>1, Invariant, PTL

\* No answer disturbs who looks at a comparison or shops: what is shown stays,
\* and is ticked only by a tap (CompareState, ShoplistState.makeItem).
THEOREM NobodyDisturbed == Spec => ShoppingUndisturbed
<1> DEFINE Undisturbed ==
      Draws /\ shown = "Compare" /\ shown' = "Compare"
        => \/ Drawn' = Drawn
           \/ \E row \in Rows : row[1] = shopping /\ Drawn' = Flipped(Drawn, row)
<1>1. IInv /\ [Next]_vars => [Undisturbed]_vars
  <2> SUFFICES ASSUME IInv, Next, Draws, shown = "Compare", shown' = "Compare"
               PROVE  \/ Drawn' = Drawn
                      \/ \E row \in Rows : row[1] = shopping /\ Drawn' = Flipped(Drawn, row)
    BY DEF Undisturbed
  <2>1. CASE UNCHANGED <<comparison, kept>>
    BY <2>1 DEF Drawn
  <2>2. CASE \E n \in DOMAIN requests : Answered(n)
    <3>1. kept' = Drawn
      BY <2>2 DEF Answered, Kept
    <3>2. Drawn # None
      BY DrawnIsData, NoneIsNoData DEF IInv
    <3> QED BY <3>1, <3>2 DEF Drawn
  <2>3. ASSUME NEW row \in Rows, TapRow(row)
        PROVE  row[1] = shopping /\ Drawn' = Flipped(Drawn, row)
    <3>1. row[1] = shopping /\ row \in Stores \X Nat /\ Drawn \in Data
      BY <2>3, RowIsTickable
    <3>2. CASE kept # None
      <4>1. kept' = Flipped(kept, row) /\ kept' # None
        BY <2>3, <3>1, <3>2, FlippedTyped, NoneIsNoData DEF TapRow, Drawn
      <4> QED BY <3>1, <3>2, <4>1 DEF Drawn
    <3>3. CASE kept = None
      BY <2>3, <3>1, <3>3 DEF TapRow, Drawn
    <3> QED BY <3>2, <3>3
  <2>4. CASE ChooseTab \/ ChooseOther \/ TapReset \/ TapCompare
    BY <2>4 DEF ChooseTab, ChooseOther, TapReset, TapCompare
  <2>5. \/ UNCHANGED <<comparison, kept>>
        \/ ChooseTab \/ ChooseOther \/ TapReset \/ TapCompare
        \/ \E n \in DOMAIN requests : Answered(n)
        \/ \E row \in Rows : TapRow(row)
    BY DEF Next, Store, ServeRead, ReadAnswered, Toggle, Failed, OpenShoplist,
           CloseShoplist, shopVars
  <2> QED BY <2>1, <2>2, <2>3, <2>4, <2>5
<1>2. Spec => [][Undisturbed]_vars
  BY <1>1, Invariant, PTL DEF Spec
<1> QED BY <1>2 DEF ShoppingUndisturbed
=============================================================================
