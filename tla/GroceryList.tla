---------------------------- MODULE GroceryList -----------------------------
(***************************************************************************)
(* The grocery list page (src/lib/list.dart) on every device signed in to  *)
(* one account, the search page it opens (the _addItem path of             *)
(* src/lib/search.dart) and, external, the Firebase Realtime Database that *)
(* holds the account's list.                                               *)
(*                                                                         *)
(* The page keeps two copies of the stored list: items, the last answer of *)
(* the database, from which every write is rebuilt, and _groceryList, what *)
(* the screen shows.  A write replaces the stored list as a whole and is   *)
(* not awaited; a refresh (initializeVars) first awaits the uid, then      *)
(* reads the database once.  Nothing listens for the writes of others.     *)
(*                                                                         *)
(* The database stores no empty list: reading one gives null, here <<>>.   *)
(***************************************************************************)
EXTENDS Naturals, Sequences, SequencesExt

CONSTANTS
  Devices,    \* the phones signed in to the account
  Item,       \* the names of the products
  MaxEdits,   \* a bound on the additions and removals, for TLC
  MaxLeft     \* a bound on the calls an old page leaves to a new one, for TLC

ASSUME BoundsAssumption == MaxEdits \in Nat /\ MaxLeft \in Nat

VARIABLES
  cloud,        \* the list at <uid>/items in the database
  link,         \* link[d]: the calls d has made and the database not handled
  awaiting,     \* awaiting[d]: the initializeVars calls suspended on the uid
  uidKnown,     \* uidKnown[d]: d's uid field is no longer ""
  items,        \* items[d]: the field items
  groceryList,  \* groceryList[d]: the field _groceryList, what is on screen
  mounted,      \* mounted[d]: the page of d is in the widget tree
  search,       \* search[d]: d's search page and the list it was handed
  edits,        \* how many additions and removals were made (for MaxEdits)
  behind        \* history: the devices that have not read another's write

deviceVars == <<awaiting, uidKnown, items, groceryList, mounted, search>>
vars == <<cloud, link, deviceVars, edits, behind>>

\* A "void" is a read whose answer no page is waiting for any more.
Call == [op : {"set", "setRoot", "get", "void"}, list : Seq(Item)]

\* The search page holds the list OBJECT it was built with: fresh while that
\* is still the page's own _groceryList, else seen is what the object holds.
SearchPage == [open : BOOLEAN, fresh : BOOLEAN, seen : Seq(Item)]

NoSearch == [open |-> FALSE, fresh |-> TRUE, seen |-> <<>>]

\* Just handed the list object on screen, and handed one since replaced.
FreshSearch == [open |-> TRUE, fresh |-> TRUE, seen |-> <<>>]
StaleSearch(list) == [open |-> TRUE, fresh |-> FALSE, seen |-> list]

TypeOK ==
  /\ cloud \in Seq(Item)
  /\ link \in [Devices -> Seq(Call)]
  /\ awaiting \in [Devices -> Nat]
  /\ uidKnown \in [Devices -> BOOLEAN]
  /\ items \in [Devices -> Seq(Item)]
  /\ groceryList \in [Devices -> Seq(Item)]
  /\ mounted \in [Devices -> BOOLEAN]
  /\ search \in [Devices -> SearchPage]
  /\ edits \in 0 .. MaxEdits
  /\ behind \subseteq Devices

Init ==
  /\ cloud = <<>>
  /\ link = [d \in Devices |-> <<>>]
  /\ awaiting = [d \in Devices |-> 0]
  /\ uidKnown = [d \in Devices |-> FALSE]
  /\ items = [d \in Devices |-> <<>>]
  /\ groceryList = [d \in Devices |-> <<>>]
  /\ mounted = [d \in Devices |-> FALSE]
  /\ search = [d \in Devices |-> NoSearch]
  /\ edits = 0
  /\ behind = {}

-----------------------------------------------------------------------------
(***************************************************************************)
(* The life of the page.                                                   *)
(***************************************************************************)

IsWrite(c) == c.op \in {"set", "setRoot"}

\* What is queued once the page that made the calls is replaced: its writes
\* stay, the answers to its reads no longer reach anything.
LeftBehind(calls) ==
  [k \in 1 .. Len(calls) |->
     IF IsWrite(calls[k]) THEN calls[k] ELSE [op |-> "void", list |-> calls[k].list]]

\* A new page object: its fields are empty and it starts one refresh.
Mount(d) ==
  /\ ~mounted[d]
  /\ ~search[d].open
  /\ Len(link[d]) <= MaxLeft
  /\ mounted' = [mounted EXCEPT ![d] = TRUE]
  /\ uidKnown' = [uidKnown EXCEPT ![d] = FALSE]
  /\ items' = [items EXCEPT ![d] = <<>>]
  /\ groceryList' = [groceryList EXCEPT ![d] = <<>>]
  /\ awaiting' = [awaiting EXCEPT ![d] = 1]
  /\ link' = [link EXCEPT ![d] = LeftBehind(@)]
  /\ behind' = behind \ {d}
  /\ UNCHANGED <<cloud, search, edits>>

\* Another tab, or a late price comparison, takes the page's place: the page
\* is disposed of, even below an open search page.
Unmount(d) ==
  /\ mounted[d]
  /\ mounted' = [mounted EXCEPT ![d] = FALSE]
  /\ UNCHANGED <<cloud, link, awaiting, uidKnown, items, groceryList, search,
                 edits, behind>>

\* The system ends the app: the queued calls were only in its memory.
Kill(d) ==
  /\ mounted[d] \/ search[d].open \/ link[d] # <<>>
  /\ mounted' = [mounted EXCEPT ![d] = FALSE]
  /\ uidKnown' = [uidKnown EXCEPT ![d] = FALSE]
  /\ items' = [items EXCEPT ![d] = <<>>]
  /\ groceryList' = [groceryList EXCEPT ![d] = <<>>]
  /\ search' = [search EXCEPT ![d] = NoSearch]
  /\ awaiting' = [awaiting EXCEPT ![d] = 0]
  /\ link' = [link EXCEPT ![d] = <<>>]
  /\ behind' = behind \ {d}
  /\ UNCHANGED <<cloud, edits>>

\* _searchMenu hands the search page the current list object ...
OpenSearch(d) ==
  /\ mounted[d]
  /\ ~search[d].open
  /\ search' = [search EXCEPT ![d] = FreshSearch]
  /\ UNCHANGED <<cloud, link, awaiting, uidKnown, items, groceryList, mounted,
                 edits, behind>>

\* ... and so does its builder whenever the framework runs it again.
RebuildSearch(d) ==
  /\ search[d].open
  /\ search' = [search EXCEPT ![d] = FreshSearch]
  /\ UNCHANGED <<cloud, link, awaiting, uidKnown, items, groceryList, mounted,
                 edits, behind>>

CloseSearch(d) ==
  /\ search[d].open
  /\ search' = [search EXCEPT ![d] = NoSearch]
  /\ UNCHANGED <<cloud, link, awaiting, uidKnown, items, groceryList, mounted,
                 edits, behind>>

-----------------------------------------------------------------------------
(***************************************************************************)
(* initializeVars: await the uid, read the list once, use the answer.      *)
(***************************************************************************)

\* Faults, to be put in the place of the definition that follows.
FaultyAlwaysSuspended(d) == TRUE    \* a continuation that runs again
FaultyNoRead(calls) == calls        \* initializeVars stops at the uid

Suspended(d) == awaiting[d] > 0

\* The read that the second half of initializeVars sends.
WithRead(calls) == Append(calls, [op |-> "get", list |-> <<>>])

UidArrives(d) ==
  /\ Suspended(d)
  /\ awaiting' = [awaiting EXCEPT ![d] = @ - 1]
  /\ uidKnown' = [uidKnown EXCEPT ![d] = TRUE]
  /\ link' = [link EXCEPT ![d] = WithRead(@)]
  /\ UNCHANGED <<cloud, items, groceryList, mounted, search, edits, behind>>

\* Fault: the answer is ignored while the search page covers the list.
FaultyShowsUncovered(d, answer) ==
  mounted[d] /\ answer # <<>> /\ ~search[d].open

\* Whether an answer replaces the list on screen: null does not.
Shows(d, answer) == mounted[d] /\ answer # <<>>

GetAnswered(d) ==
  /\ link[d] # <<>>
  /\ Head(link[d]).op = "get"
  /\ link' = [link EXCEPT ![d] = Tail(@)]
  /\ items' = [items EXCEPT ![d] = cloud]
  /\ behind' = behind \ {d}
  /\ IF Shows(d, cloud)
       THEN /\ groceryList' = [groceryList EXCEPT ![d] = cloud]
            /\ search' =
                 IF search[d].open /\ search[d].fresh
                   THEN [search EXCEPT ![d] = StaleSearch(groceryList[d])]
                   ELSE search
       ELSE UNCHANGED <<groceryList, search>>
  /\ UNCHANGED <<cloud, awaiting, uidKnown, mounted, edits>>

VoidAnswered(d) ==
  /\ link[d] # <<>>
  /\ Head(link[d]).op = "void"
  /\ link' = [link EXCEPT ![d] = Tail(@)]
  /\ UNCHANGED <<cloud, deviceVars, edits, behind>>

-----------------------------------------------------------------------------
(***************************************************************************)
(* addFB and removeFB: rebuild the whole list from items, send it, and     *)
(* start a refresh.                                                        *)
(***************************************************************************)

\* Faults: remove every occurrence; write without refreshing afterwards.
FaultyRemoveAll(its, i) == Remove(its, i)
FaultyNoRefresh(n) == n

WithItem(its, i) == Append(its, i)

WithoutItem(its, i) == RemoveFirst(its, i)

\* With an empty uid, child(uid) is the root of the database.
Write(d, its) ==
  [op |-> IF uidKnown[d] THEN "set" ELSE "setRoot", list |-> its]

Refreshes(n) == n + 1

SendWrite(d, its) ==
  /\ edits < MaxEdits
  /\ edits' = edits + 1
  /\ link' = [link EXCEPT ![d] = Append(@, Write(d, its))]
  /\ awaiting' = [awaiting EXCEPT ![d] = Refreshes(@)]

\* _addItemCallback of the list page: write, then put the item on top.  On a
\* page that was disposed of, setState throws: a debug build before the item
\* is put on the list, a release build after.
AddItemCallback(d, i) ==
  /\ SendWrite(d, WithItem(items[d], i))
  /\ \E inserted \in {TRUE, mounted[d]} :
        groceryList' = IF inserted
                         THEN [groceryList EXCEPT ![d] = <<i>> \o @]
                         ELSE groceryList

\* Fault: a copy of the list made when the search page is first shown.
FaultyListed(d) == search[d].seen

\* What the search page takes for the grocery list.
Listed(d) == IF search[d].fresh THEN groceryList[d] ELSE search[d].seen

\* No duplicate items in list, says the code.
MayAdd(d, i) == ~Contains(Listed(d), i)

\* _addItem of the search page.
AddItem(d, i) ==
  /\ search[d].open
  /\ MayAdd(d, i)
  /\ AddItemCallback(d, i)
  /\ UNCHANGED <<cloud, uidKnown, items, mounted, search, behind>>

\* The delete button of a row.
RemoveItem(d, i) ==
  /\ mounted[d]
  /\ ~search[d].open
  /\ Contains(groceryList[d], i)
  /\ SendWrite(d, WithoutItem(items[d], i))
  /\ groceryList' = [groceryList EXCEPT ![d] = WithoutItem(@, i)]
  /\ UNCHANGED <<cloud, uidKnown, items, mounted, search, behind>>

-----------------------------------------------------------------------------
(***************************************************************************)
(* External: the database handles the calls of one device in order.        *)
(***************************************************************************)

StoreWrite(d, its) ==
  /\ link' = [link EXCEPT ![d] = Tail(@)]
  /\ cloud' = its
  /\ behind' = IF its = cloud THEN behind ELSE behind \union (Devices \ {d})
  /\ UNCHANGED <<awaiting, uidKnown, items, groceryList, mounted, search,
                 edits>>

SetLands(d) ==
  /\ link[d] # <<>>
  /\ Head(link[d]).op = "set"
  /\ StoreWrite(d, Head(link[d]).list)

\* A write to the root wipes out every account, unless the rules of the
\* database refuse it.
RootSetLands(d) ==
  /\ link[d] # <<>>
  /\ Head(link[d]).op = "setRoot"
  /\ \E its \in {<<>>, cloud} : StoreWrite(d, its)

-----------------------------------------------------------------------------

Edit(d) == \E i \in Item : AddItem(d, i) \/ RemoveItem(d, i)

Answer(d) ==
  \/ GetAnswered(d) \/ VoidAnswered(d)
  \/ SetLands(d) \/ RootSetLands(d)

NonEdit(d) ==
  \/ Mount(d) \/ Unmount(d) \/ Kill(d)
  \/ OpenSearch(d) \/ RebuildSearch(d) \/ CloseSearch(d)
  \/ UidArrives(d) \/ Answer(d)

Next == \E d \in Devices : Edit(d) \/ NonEdit(d)

Spec == Init /\ [][Next]_vars

\* The plugins complete their futures, and the network answers in the end;
\* nothing makes the user act.
Fairness == \A d \in Devices : WF_vars(UidArrives(d)) /\ WF_vars(Answer(d))

FairSpec == Spec /\ Fairness

\* Nothing of what d has started is left to do.
Quiet(d) == uidKnown[d] /\ awaiting[d] = 0 /\ link[d] = <<>>

\* The same page in the hands of a user who waits for each change to settle.
PatientNext == \E d \in Devices : (Quiet(d) /\ Edit(d)) \/ NonEdit(d)

PatientSpec == Init /\ [][PatientNext]_vars /\ Fairness

-----------------------------------------------------------------------------
(***************************************************************************)
(* Safety.                                                                 *)
(***************************************************************************)

\* Whether a read is queued, and whether one is queued or still to be sent.
ReadIn(calls) == \E k \in 1 .. Len(calls) : calls[k].op = "get"

RefreshDue(d) == awaiting[d] > 0 \/ ReadIn(link[d])

WriteRefreshed(d) ==
  \A k \in 1 .. Len(link[d]) :
    IsWrite(link[d][k]) =>
      \/ awaiting[d] > 0
      \/ \E m \in k + 1 .. Len(link[d]) : link[d][m].op = "get"

\* No write goes without its refresh: behind every queued write there is a
\* read, queued or still to be sent, whatever the page went through since -
\* more edits, a rebuilt page (whose first refresh stands in), the uid late.
WritesAreRefreshed == \A d \in Devices : WriteRefreshed(d)

\* What every write is rebuilt from: a device that has settled, and after
\* whose last read no other device's write landed, holds the stored list.
\* It fails if some path of addFB, removeFB or initState forgets its refresh.
ItemsAreStored ==
  \A d \in Devices : Quiet(d) /\ d \notin behind => items[d] = cloud

\* What the user sees: the screen of such a device shows the stored list, in
\* its order, although additions go to the top of one and the bottom of the
\* other.  An empty list is excepted: it is read as null, which empties items
\* and leaves on the screen what was there.
ScreenShowsStored ==
  \A d \in Devices :
    Quiet(d) /\ mounted[d] /\ d \notin behind /\ cloud # <<>>
      => groceryList[d] = cloud

\* The rest of the inductive invariant: a device with no read to come holds
\* what its last read gave it, on screen too unless that was null.
HoldsLastRead(d) ==
  uidKnown[d] /\ ~RefreshDue(d) =>
    /\ d \notin behind => items[d] = cloud
    /\ mounted[d] /\ items[d] # <<>> => groceryList[d] = items[d]

Inv ==
  /\ TypeOK
  /\ WritesAreRefreshed
  /\ \A d \in Devices : HoldsLastRead(d)

\* The duplicate check of the search page works when that page holds the
\* current list object of a settled device that is not behind.
FreshAddIsNew ==
  [][\A d \in Devices, i \in Item :
       /\ Quiet(d) /\ mounted[d] /\ d \notin behind
       /\ search[d].fresh
       /\ AddItem(d, i)
       => ~Contains(cloud, i)]_vars

\* What the comment of _addItem says: no duplicate items in the list.
NoDuplicates == IsInjective(cloud)

-----------------------------------------------------------------------------
(***************************************************************************)
(* Liveness and refinement.                                                *)
(***************************************************************************)

\* A page that stays on screen ends up settled and, unless another device
\* wrote in the meantime, with the stored list as the base of its next write.
Converges ==
  \A d \in Devices :
    mounted[d] ~> \/ ~mounted[d]
                  \/ Quiet(d) /\ (d \in behind \/ items[d] = cloud)

\* The stored list obeys StoredList: every write that lands adds one item or
\* removes one, and loses no other change.
Promise == INSTANCE StoredList WITH stored <- cloud

EditsKeepTheRest == Promise!Spec
=============================================================================
