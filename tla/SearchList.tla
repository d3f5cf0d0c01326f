----------------------------- MODULE SearchList -----------------------------
(***************************************************************************)
(* The search page of a grocery list (src/lib/search.dart): searches that  *)
(* are on their way to the server while the user types, searches again,    *)
(* adds what was found or leaves.  An answer is added to the list that is  *)
(* there when it comes, whichever search it answers.  What adding an item  *)
(* does to the grocery list is in module GroceryList.                      *)
(***************************************************************************)
EXTENDS Naturals, Sequences, Functions

CONSTANTS
  Query,        \* the words that can be typed
  Item,         \* the names of products
  Products,     \* Products[q]: what the server finds for q
  NoQuery,      \* an empty search string
  MaxSearches   \* a bound on the searches of one page, for TLC

ASSUME SearchAssumption ==
  /\ NoQuery \notin Query
  /\ Products \in [Query -> Seq(Item)]
  /\ MaxSearches \in Nat

VARIABLES
  searchString,  \* _searchString
  searchList,    \* _searchList
  rows,          \* the rows on the screen: _searchList when they were built
  searched,      \* the searches made on this page, in order
  pending,       \* the numbers of those under way
  lost,          \* history: the numbers of those that failed
  cleared,       \* history: the list was cleared since the last search
  overlapped     \* history: the last search began while another was under way

vars ==
  <<searchString, searchList, rows, searched, pending, lost, cleared, overlapped>>

TypeOK ==
  /\ searchString \in Query \cup {NoQuery}
  /\ searchList \in Seq(Item) /\ rows \in Seq(Item)
  /\ searched \in Seq(Query) /\ Len(searched) <= MaxSearches
  /\ pending \subseteq 1 .. Len(searched)
  /\ lost \subseteq 1 .. Len(searched) /\ lost \cap pending = {}
  /\ cleared \in BOOLEAN /\ overlapped \in BOOLEAN

Init ==
  /\ searchString = NoQuery
  /\ searchList = <<>> /\ rows = <<>>
  /\ searched = <<>> /\ pending = {} /\ lost = {}
  /\ cleared = FALSE /\ overlapped = FALSE

\* The text field tells of every change by the user, down to an empty one.
Type(query) ==
  /\ searchString' = query
  /\ UNCHANGED <<searchList, rows, searched, pending, lost, cleared, overlapped>>

\* A tap in the text field empties the list, and no setState rebuilds the rows.
TapField ==
  /\ searchList' = <<>>
  /\ cleared' = TRUE
  /\ UNCHANGED <<searchString, rows, searched, pending, lost, overlapped>>

\* Fault: the results of the last search stay.
FaultyNewList == searchList

NewList == <<>>

\* _search: clearing the text field leaves _searchString as it is, so a second
\* tap of the button searches again.
SearchAgain ==
  /\ searchString # NoQuery /\ Len(searched) < MaxSearches
  /\ searched' = Append(searched, searchString)
  /\ pending' = pending \cup {Len(searched) + 1}
  /\ searchList' = NewList /\ rows' = NewList
  /\ cleared' = FALSE
  /\ overlapped' = (pending # {})
  /\ UNCHANGED <<searchString, lost>>

SearchNothing ==
  /\ searchString = NoQuery
  /\ searchList' = NewList /\ rows' = NewList
  /\ cleared' = TRUE
  /\ UNCHANGED <<searchString, searched, pending, lost, overlapped>>

\* _addRequest goes on: the answer is added to the list of now.
Answered(n) ==
  /\ n \in pending
  /\ searchList' = searchList \o Products[searched[n]]
  /\ rows' = searchList'
  /\ pending' = pending \ {n}
  /\ UNCHANGED <<searchString, searched, lost, cleared, overlapped>>

Failed(n) ==
  /\ n \in pending
  /\ lost' = lost \cup {n}
  /\ rows' = searchList
  /\ pending' = pending \ {n}
  /\ UNCHANGED <<searchString, searchList, searched, cleared, overlapped>>

\* Fault: the page starts over with an empty list.
FaultyCopy(list) == <<>>

Copy(list) == list

\* Fault: the search string is null, which is not the empty string.
FaultyEmptied == "null"

Emptied == NoQuery

\* _addItem of a row on the screen; whether the grocery list has it already
\* decides if the list is copied.
AddItem(item) ==
  /\ item \in Range(rows)
  /\ searchString' = Emptied
  /\ searchList' \in {searchList, Copy(searchList)}
  /\ rows' = searchList'
  /\ UNCHANGED <<searched, pending, lost, cleared, overlapped>>

\* Back, and another page: what was under way goes to a page that is gone.
Leave ==
  /\ searchString' = NoQuery
  /\ searchList' = <<>> /\ rows' = <<>>
  /\ searched' = <<>> /\ pending' = {} /\ lost' = {}
  /\ cleared' = FALSE /\ overlapped' = FALSE

Next ==
  \/ \E query \in Query \cup {NoQuery} : Type(query)
  \/ TapField \/ SearchAgain \/ SearchNothing \/ Leave
  \/ \E n \in 1 .. MaxSearches : Answered(n) \/ Failed(n)
  \/ \E item \in Item : AddItem(item)

Spec == Init /\ [][Next]_vars

-----------------------------------------------------------------------------

\* What the last search found is in the list once it was answered, whatever
\* was typed, added or answered in between, unless it failed or the user
\* cleared the list (_addRequest adds to the list of now, _addItem copies it).
NothingLost ==
  LET last == Len(searched)
  IN  last > 0 /\ last \notin pending \cup lost /\ ~ cleared =>
        Range(Products[searched[last]]) \subseteq Range(searchList)

\* When no earlier search was under way as the last one began, the list is empty
\* or what the last one found, each product once and nothing else: no second tap,
\* no tap in the field and nothing added leaves it in pieces or doubles it.
ExactlyFound ==
  ~ overlapped /\ searchList # <<>> =>
    searched # <<>> /\ searchList = Products[searched[Len(searched)]]
=============================================================================
