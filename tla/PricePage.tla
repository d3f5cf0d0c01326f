------------------------------ MODULE PricePage ------------------------------
(***************************************************************************)
(* Comparing prices (src/lib/prices.dart, src/lib/shoplist.dart).  The     *)
(* price page reads the stored list once, when it appears, and sends what  *)
(* it read to the server as JSON that it writes itself; its requests       *)
(* outlive it and are answered in any order.  An answer becomes a Compare  *)
(* page in its place, whose State keeps the data it was created with, and  *)
(* from there a shopping list of one store is opened and ticked off.       *)
(***************************************************************************)
EXTENDS Naturals, FiniteSets, Sequences, SequencesExt

CONSTANTS
  Item,         \* the names of products
  Illegible,    \* those with a quotation mark in them
  Lists,        \* the lists that the account may have
  Stores,       \* the grocery stores on the page
  Offered,      \* Offered[list][s]: how many products of s an answer lists
  Draws,        \* whether the null of widget.test counts as false (else initState throws)
  Null,         \* no list, no comparison, no store
  MaxRequests,  \* a bound on the comparisons under way, for TLC
  MaxStored     \* a bound on the different lists of one home page, for TLC

ASSUME PricesAssumption ==
  /\ Lists \subseteq Seq(Item) /\ Illegible \subseteq Item
  /\ Offered \in [Lists -> [Stores -> Nat]]
  /\ Draws \in BOOLEAN
  /\ Null \notin Stores /\ Null \notin Seq(Item)
  /\ MaxRequests \in Nat /\ MaxStored \in Nat \ {0}

VARIABLES
  stored,      \* the list in the database; <<>> reads as null
  shown,       \* what the home page shows
  reading,     \* the page's read: nobody asks, asked, or what was read
  groceryList, \* _groceryList, null until something is read
  selected,    \* selected[s]: s is selected
  requests,    \* the comparisons under way, in the order they were asked for
  comparison,  \* the data of _pages[3]: the list compared, the products ticked
  kept,        \* the data that the Compare page shows, if an older one than that
  shopping,    \* the store whose shopping list covers the home page
  was,         \* history: the lists stored since the home page appeared
  overlapped   \* history: the last comparison was asked for while another was under way

pageVars == <<reading, groceryList, selected>>
shopVars == <<comparison, kept, shopping>>
vars == <<stored, shown, pageVars, requests, shopVars, was, overlapped>>

Request == [list : Lists, body : Seq([item : Item, comma : BOOLEAN])]
Data == [list : Lists, ticks : SUBSET (Stores \X Nat)]
None == [list |-> Null, ticks |-> {}]

TypeOK ==
  /\ stored \in Lists
  /\ shown \in {"other", "Prices", "Compare"}
  /\ reading \in [asked : BOOLEAN, answer : Lists \cup {Null}]
  /\ groceryList \in Lists \cup {Null}
  /\ selected \in [Stores -> BOOLEAN]
  /\ requests \in Seq(Request) /\ Len(requests) <= MaxRequests
  /\ comparison \in Data \cup {None} /\ kept \in Data \cup {None}
  /\ shopping \in Stores \cup {Null}
  /\ was \subseteq Lists
  /\ overlapped \in BOOLEAN
  /\ shown = "Prices" => comparison = None
  /\ shown = "Compare" => comparison # None

-----------------------------------------------------------------------------
(* What is sent.                                                           *)

\* Fault: every item is followed by a comma.
FaultySeparated(item, list) == TRUE

\* The code compares the item with the last one, not its place.
Separated(item, list) == item # list[Len(list)]

encodeListAsJson(list) ==
  [k \in 1 .. Len(list) |-> [item |-> list[k], comma |-> Separated(list[k], list)]]

\* The list that express.json reads in a body; an error if it is no array.
Parsed(body) ==
  IF \A k \in 1 .. Len(body) :
       /\ body[k].item \notin Illegible
       /\ body[k].comma <=> k # Len(body)
  THEN [k \in 1 .. Len(body) |-> body[k].item]
  ELSE Null

-----------------------------------------------------------------------------
(* The price page.                                                         *)

NoRead == [asked |-> FALSE, answer |-> Null]
Asked == [asked |-> TRUE, answer |-> Null]

Init ==
  /\ stored \in Lists
  /\ shown = "other"
  /\ reading = NoRead /\ groceryList = Null
  /\ selected = [s \in Stores |-> TRUE]
  /\ requests = <<>> /\ overlapped = FALSE
  /\ comparison = None /\ kept = None /\ shopping = Null
  /\ was = {stored}

\* The list page, or another device, stores a list.
Store(list) ==
  /\ list \in was \/ Cardinality(was) < MaxStored
  /\ stored' = list
  /\ was' = was \cup {list}
  /\ UNCHANGED <<shown, pageVars, requests, shopVars, overlapped>>

\* A new page: initState reads the list.
Appear ==
  /\ reading' = Asked /\ groceryList' = Null
  /\ selected' = [s \in Stores |-> TRUE]

Disappear == reading' = NoRead /\ groceryList' = Null /\ UNCHANGED selected

\* A Compare page that is created again shows the data of its new widget.
ChooseTab ==
  /\ shown = "other"
  /\ IF comparison = None
       THEN shown' = "Prices" /\ Appear
       ELSE shown' = "Compare" /\ UNCHANGED pageVars
  /\ UNCHANGED <<stored, requests, shopVars, was, overlapped>>

ChooseOther ==
  /\ shown # "other" /\ shopping = Null
  /\ shown' = "other" /\ Disappear
  /\ kept' = None
  /\ UNCHANGED <<stored, requests, comparison, shopping, was, overlapped>>

ServeRead ==
  /\ reading = Asked
  /\ reading' = [reading EXCEPT !.answer = stored]
  /\ UNCHANGED <<stored, shown, groceryList, selected, requests, shopVars, was, overlapped>>

\* Fault: a null answer is taken for an empty list.
FaultyRead(answer) == answer

Read(answer) == IF answer = <<>> THEN groceryList ELSE answer

ReadAnswered ==
  /\ reading.asked /\ reading.answer # Null
  /\ groceryList' = Read(reading.answer)
  /\ reading' = NoRead
  /\ UNCHANGED <<stored, shown, selected, requests, shopVars, was, overlapped>>

Toggle(s) ==
  /\ shown = "Prices"
  /\ selected' = [selected EXCEPT ![s] = ~ @]
  /\ UNCHANGED <<stored, shown, reading, groceryList, requests, shopVars, was, overlapped>>

checkEnough == Cardinality({s \in Stores : selected[s]}) >= 2

\* Without a list encodeListAsJson throws, and nothing is asked.
TapCompare ==
  /\ shown = "Prices" /\ checkEnough /\ groceryList # Null
  /\ Len(requests) < MaxRequests
  /\ requests' = Append(requests,
                   [list |-> groceryList, body |-> encodeListAsJson(groceryList)])
  /\ overlapped' = (requests # <<>>)
  /\ UNCHANGED <<stored, shown, pageVars, shopVars, was>>

-----------------------------------------------------------------------------
(* The comparison.                                                         *)

\* What the Compare page shows.
Drawn == IF kept # None THEN kept ELSE comparison

\* Fault: the page shows the data of its widget.
FaultyKept == None

\* CompareState took its data when it was created, and a Compare page that is on
\* the screen gets another widget but no other State.
Kept == IF shown = "Compare" /\ Draws THEN Drawn ELSE None

\* Fault: a request that was answered is repeated.
FaultyWithout(n) == requests

Without(n) == RemoveAt(requests, n)

\* The callback of the home page, whichever price page asked.
Answered(n) ==
  /\ Parsed(requests[n].body) # Null
  /\ comparison' = [list |-> Parsed(requests[n].body), ticks |-> {}]
  /\ kept' = Kept
  /\ shown' = "Compare" /\ Disappear
  /\ requests' = Without(n)
  /\ UNCHANGED <<stored, shopping, was, overlapped>>

\* What is not JSON is refused and the refusal is not JSON; or the server or
\* the network fails, or its own answer is not JSON.
Failed(n) ==
  /\ requests' = Without(n)
  /\ UNCHANGED <<stored, shown, pageVars, shopVars, was, overlapped>>

\* Fault: the comparison stays in its place.
FaultyAfterReset == comparison

AfterReset == None

TapReset ==
  /\ shown = "Compare" /\ Draws /\ shopping = Null
  /\ comparison' = AfterReset /\ kept' = None
  /\ shown' = "Prices" /\ Appear
  /\ UNCHANGED <<stored, requests, shopping, was, overlapped>>

-----------------------------------------------------------------------------
(* The shopping list: its rows are the objects of the Compare page's data. *)

OpenShoplist(s) ==
  /\ shown = "Compare" /\ Draws /\ shopping = Null
  /\ shopping' = s
  /\ UNCHANGED <<stored, shown, pageVars, requests, comparison, kept, was, overlapped>>

CloseShoplist ==
  /\ shopping # Null
  /\ shopping' = Null
  /\ UNCHANGED <<stored, shown, pageVars, requests, comparison, kept, was, overlapped>>

Flipped(data, row) ==
  [data EXCEPT !.ticks = IF row \in @ THEN @ \ {row} ELSE @ \cup {row}]

TapRow(row) ==
  /\ shopping # Null /\ row \in {shopping} \X (1 .. Offered[Drawn.list][shopping])
  /\ IF kept # None
       THEN kept' = Flipped(kept, row) /\ UNCHANGED comparison
       ELSE comparison' = Flipped(comparison, row) /\ UNCHANGED kept
  /\ UNCHANGED <<stored, shown, pageVars, requests, shopping, was, overlapped>>

Rows == UNION {{s} \X (1 .. Offered[list][s]) : list \in Lists, s \in Stores}

Next ==
  \/ \E list \in Lists : Store(list)
  \/ ChooseTab \/ ChooseOther \/ ServeRead \/ ReadAnswered
  \/ \E s \in Stores : Toggle(s) \/ OpenShoplist(s)
  \/ TapCompare \/ TapReset \/ CloseShoplist
  \/ \E n \in DOMAIN requests : Answered(n) \/ Failed(n)
  \/ \E row \in Rows : TapRow(row)

Spec == Init /\ [][Next]_vars

-----------------------------------------------------------------------------

LastIsUnique(list) ==
  \A k \in 1 .. Len(list) - 1 : list[k] # list[Len(list)]

Legible(list) == \A k \in 1 .. Len(list) : list[k] \notin Illegible

\* The server reads the page's list in a body, item by item and in order, unless
\* the last item of the list is in it twice or a name has a quotation mark: then
\* it reads nothing, never another list (encodeListAsJson).
BodyIsList ==
  \A n \in DOMAIN requests :
    LET list == requests[n].list
    IN  Parsed(requests[n].body) =
          IF LastIsUnique(list) /\ Legible(list) THEN list ELSE Null

\* What is compared is a list that the account had since the home page appeared,
\* whole and with something in it, however old the page that asked.
ComparedWasStored ==
  comparison # None => comparison.list \in was /\ comparison.list # <<>>

\* A page that asks for one comparison at a time shows the one that was answered
\* last: its State has not kept an older one (CompareState takes its data in its
\* constructor).
DrawnIsLatest == shown = "Compare" /\ ~ overlapped => Drawn = comparison

\* Somebody who shops is not disturbed by a comparison that is answered late:
\* while the Compare page or a shopping list over it is on the screen, the list
\* stays and what is ticked changes only by a tap on its row.
ShoppingUndisturbed ==
  [][Draws /\ shown = "Compare" /\ shown' = "Compare"
       => \/ Drawn' = Drawn
          \/ \E row \in Rows : row[1] = shopping /\ Drawn' = Flipped(Drawn, row)]_vars
=============================================================================
