# EasyGrocery in TLA+

EasyGrocery is a grocery list for a phone that compares the prices of a list at
Safeway and Walmart. This directory holds TLA+ modules of the parts whose
behaviour depends on order, failure and time, the TLC runs that check them on
small instances, and TLAPS proofs of what they promise for every instance.

## The system

    phone (Flutter)                         backend
    -----------------------------------     -----------------------------
    splash -> login / register              Firebase Auth (accounts)
       |
    home page --- list page ------------->  Firebase Realtime Database
       |             |                      (<uid>/items, one list each)
       |          search page  --- GET -->  price server (Node, Express)
       |                                        |  one connection, FIFO
       +--------- price page --- POST ----->    v
                     |                      MySQL: Safeway, Walmart
                  comparison -> shopping list       ^
                                            (scrapers, by hand)

| component | state it keeps | operations | what makes it hard | what makes it correct |
|---|---|---|---|---|
| list page (`lib/list.dart`) | `items`, `_groceryList`, `uid`, `_favorites` | initState, initializeVars, addFB, removeFB, open search | whole-list writes that nobody awaits, two copies, several devices, a page replaced or killed with calls under way | edits lose nothing; a settled page shows and rewrites the stored list |
| search page (`lib/search.dart`) | `_searchString`, `_searchList`, the list object it was handed | type, tap, search, answer, add | answers after further searches, a copied list, a stale duplicate check | shows what was searched; loses no answer; adds no duplicate |
| price page (`lib/prices.dart`) | `_groceryList`, selection of stores; the data of a comparison, twice: in its widget and in the State made for it | read, toggle, compare, answer, reset | requests outlive the page and overtake; JSON written by hand; a State that outlives its widget | sends exactly the list; compares a list the user had; shows the latest comparison |
| session, navigation (`lib/splash.dart`, `login`, `register`, `auth`, `home_page`) | `authStatus`, static `_currentIndex`, `_pages` | login, register, logout, tabs, compare callback, reset | answers for pages that are gone, statics that outlive state | screen follows the session; a comparison stays with its home page; there is always a body |
| shopping list page (`lib/shoplist.dart`) | a flag per row, in the objects of the comparison | open, tick off, close, reminder dialog | answers that come while somebody shops | nothing but a tap changes what is ticked |
| price server (`Server/Node/eg_server.js`) | per request: found flags, totals, lists; the connection's queue; timers | search, compare, 500 ms timers, 1000 ms reply | timers race database answers; requests share the connection; exceptions end the process | totals add up; a timely reply says what the tables say; every comparison is answered |
| similarity (`eg_server.js:69-116`) | loop variables | compareSimilarity, findMostSimilar | ties, no shared word, no rows | the first of the most similar rows |
| scrapers, `compare.py`, `similar.py`, `appy.py` | - | straight-line scripts | - | - |

Components interact by calls (page to page, with callbacks), by HTTP (search and
price page to the server), by shared state (the stored list, which the list page
of every device replaces as a whole and the price page reads; the `List` object
that the list page hands to the search page; the static index of the home page),
and through queues that keep order (one device's calls to the database, the server's
connection to MySQL). Whose list the list page works on is decided by the session:
every refresh asks Firebase anew who is signed in.

## Modules

| module | what it is | code |
|---|---|---|
| `StoredList` | abstract: one list, which changes by one addition or one removal at a time | what a user expects of `list.dart` |
| `GroceryList` | the list page on every device, the add path of the search page, the database (external) | `list.dart`, `search.dart:136-146` |
| `SearchList` | the search page | `search.dart` |
| `PricePage` | the price page, the request it writes and the list the server reads in it, the comparison and the shopping lists opened from it | `prices.dart`, `shoplist.dart` |
| `AppShell` | session and home page, Firebase Auth (external) | `splash`, `login`, `register`, `auth`, `home_page` |
| `AccountList` | `AppShell` with the list page in its place: whose list it reads and writes | the same, `list.dart`, `search.dart:136-146` |
| `Similarity` | `CompareSimilarity`, and `MostSimilarRow`, what findMostSimilar is for | `eg_server.js:69-116` |
| `MostSimilar` | the loop of findMostSimilar, one iteration per step | `eg_server.js:94-116` |
| `Catalog` | what the tables say of a name: who sells it, what a store offers for it | the queries of `eg_server.js` |
| `PriceService` | abstract: what the server promises its clients; no database, no timer | what a client expects of `eg_server.js` |
| `EgServer` | the server, with MostSimilarRow in place of the loop | `eg_server.js` |
| `MC*` | instances for TLC | |
| `*Proofs` | theorems about the module of that name; `EgServerQuotes` has those about what the quotes of `EgServer` add up to, and its refinement of `PriceService` | |

`GroceryList` implements `StoredList` (by `stored <- cloud`) for a patient user of
one device. `EgServer` implements `PriceService` (by what a client is `Told`) with
no restriction. `AccountList` composes `AppShell` with the list page: it EXTENDS
the shell, its actions are those of the shell with what they do to the page, and it
implements the shell (`ImplementsShell`). It abstracts a list to the accounts whose
items are in it, and so leaves to `GroceryList` what happens to single items.
`MostSimilar` and `EgServer` meet in `Similarity`: the loop is shown to return
`MostSimilarRow`, and the server uses that operator. `PricePage` takes the lists of
an account as a constant, among them lists with a name in them twice, because
`GroceryList` shows that these come up.

### How state and actions correspond to the code

*GroceryList.* `items[d]`, `groceryList[d]`, `mounted[d]` are the fields of the
page state of device `d`. `link[d]` is what the device has asked of the database
and the database has not handled, in order; an entry is a `set` under the uid, a
`set` of the root (`dbRef.child("")`, when the uid has not arrived), a read, or a
read whose page is gone (`void`). `awaiting[d]` counts the calls of
`initializeVars` that are suspended on the uid. `AddItem` and `RemoveItem` are
whole handlers: list built from `items`, `set` queued, refresh started, screen
changed. `search[d]` says which list object the open search page holds. `Kill`
ends the app on a device; its queued writes are lost, since persistence is not
enabled.

*SearchList.* `searched` is the sequence of searches, `pending` those without an
answer. `rows` is `_searchList` as it was when the rows were last built: a tap in
the field empties the list without `setState`. Whether `_addItem` copies the list
depends on the list it was handed, which `GroceryList` has; here both happen.
`lost`, `cleared` and `overlapped` are history variables that no action reads.

*PricePage.* A request carries the list it is of and the body: its items in order,
each with whether the code writes a comma after it, which `encodeListAsJson` decides
as the code does, by comparing the item with the last one. `Parsed` is what a
parser makes of a body. `comparison` is the data of the widget that the home page
holds in `_pages[3]`; `kept` is what the State on the screen shows instead, because
`CompareState` takes the data in its constructor and a `Compare` page that is on
the screen already gets a new widget without a new State. `Drawn` is what is shown.
`shopping` is the store whose list covers the home page; its rows are objects of the
data drawn, and `ticks` are the flags in them. `Illegible` are the names with a
quotation mark, which the code writes as they are.

*AppShell.* `authq` and `answers` are the two halves of a call to Firebase Auth:
served there (`Serve`), then heard of here, in the order of serving. A login or a
registration is served when the backend has answered it, so that whatever is asked
after it may be served before it; `currentUser` and `signOut` wait for nothing but
each other. A call knows whether the
register page that made it is still there, because that page pops itself.
`comparing[h]` counts the comparisons asked for by home page `h`, which may be
answered after `h` is gone: `setState` of a disposed state throws before its
closure in a debug build and after it in a release build, so the static index
takes either value.

*EgServer.* `found[r][k][s]` is where the callbacks of the two lookups have found
item `k` of request `r` in the table of store `s`; `quote[r]` the six variables
of the route. `dbq` is the queue of the connection, `due` and `replyq` the timers.
`Deadline` is the 500 ms callback with the query for a similar product it may
make, `Respond` the 1000 ms callback with `convertToJson`. Timers of one delay
fire in the order they were set, and the reply of a request after the item
timers of that request. Between the item timers of one request an answer of the
database may be handled. An exception in a callback (`if(err) throw err`) is
`Crash`: nothing in the repository starts the process again. `late` is a history
variable: the requests one of whose queries missed its timer. `Posted` bounds the
lists that a request may compare. The tables, and what follows from them alone, are
in `Catalog`, which `PriceService` uses too.

*AccountList.* `uid`, `items` are the fields of the page on the tab or, once that is
gone, of the page that opened the search page on the screen (`searching`): its add
callback goes on writing for it. `asking` are the `currentUser` calls of refreshes,
`link` the calls to the database; entries are as in `GroceryList`, with the account
they are of. `UidServed` is Firebase answering with who is signed in at that
moment, `UidArrives` the continuation of `initializeVars`. Every action of the shell
is followed by `PageFollows` in the same step: the tab, the body or the home page may
have changed, and a page that is gone leaves its writes behind. `hurried` is a
history variable: a login or registration was sent while another was under way, or
from a register page that lies over a home page. What `AddItem` adds counts as an item
of the page's uid, so that `ListsAreOwn` sees items stray that are rebuilt from what was
read before, and not one that a person types into the page of another.

### Assumptions about what is not in `src/`

- Firebase handles the calls of one device in the order they were made; a pending
  write is not shown to the reads of its own device before it lands; an empty list
  is stored as null; a write of the root is either applied or refused by rules.
- In `GroceryList` the account that uses the list page has a uid. In `AccountList` the
  uid may be null, after a logout: it reads no list, and `child(null)` throws before
  anything is sent. `currentUser` calls are answered in order among themselves, and in
  any order beside the calls of the login and register pages.
- In `AccountList` every account begins with a list of its own items; one that is
  registered later is not told apart from one that was there.
- Firebase Auth keeps the session through a restart. `signOut` and `currentUser` are
  local, so they are served at once and in the order they were asked (`FIRAuth.m:1202-1210`
  under `src/ios/Pods/FirebaseAuth/Firebase/Auth/Source/Auth`); a login or registration
  takes effect when the backend answers (`FIRAuth.m:533-545`, `587-599`), in any order
  beside other calls. The app hears of the calls in the order they took effect. That leaves
  out a logout that comes in the instant between the effect of a login and its
  completion, which `FIRAuth.m:1732-1757` hands to the main queue; it takes logins that
  overlap.
- MySQL answers one connection's queries in order; prices are numbers; no name has
  a digit as its second letter (so a bare name is never a readable price); every
  posted entry has an `itemname`. The tables are constant while requests run.
- Node runs the overdue 500 ms timers of a request before its 1000 ms timer, also when
  both are overdue. It keeps one list of timers per delay, so this holds as long as the
  event loop does not stall for about half a second; `ReplyDue` relies on it.
- No name of a product is written so as to look like JSON: `Parsed` takes a body with a
  quotation mark in a name for unreadable, and knows no backslashes.
- A "refused" name stands for one that makes a query the database rejects.
- `eg_server.js:9` and the names of result columns (`productName` in the query of
  a search, `ProductName` in `search.dart:161`) are taken to work.
- `safewayCategory` is taken as the code has it: the empty string unless Safeway was
  found to sell the item. `Uncategorised` are the rows that such a query matches.
- `Compare` is created without `test` at `prices.dart:213`, and `if (widget.test)` at
  line 313 throws on null where null is not taken for false. The constant `Draws` says
  which; the proofs hold for both, the run has the page drawn.

## Runs

| run | instance | shows |
|---|---|---|
| `list_two_devices` | 2 devices, 2 items, 2 edits, fair | types; no queued write without its refresh; a settled device that is not behind another holds and shows the stored list; a page that stays on screen comes to rest with it |
| `list_patient_user` | 1 device, 4 edits | refinement of `StoredList`; an addition from a current search page is new |
| `list_duplicates` *(violation)* | 1 device | a search page opened before a refresh lets a duplicate in, though the comment of `_addItem` says "no duplicate items in list" |
| `list_lost_edit` *(violation)* | 1 device | the second of two quick edits undoes the first |
| `search_page` | 3 words, 3 searches | what the last search found is never lost, and is all there is unless an earlier search was under way as it began |
| `price_page` | 7 lists of up to 3 items, 3 lists per home page, 2 requests, 2 stores | a body is read as the list unless the last item is in it twice or a name has a quotation mark, and then not at all; what is compared was once the list; who asks for one comparison at a time sees the latest; no answer disturbs somebody who looks at a comparison or shops from it |
| `shell_two_accounts` | 2 accounts, 2 home pages, 3 calls, 2 comparisons each, fair | types; screen and session agree once nothing is under way; comparisons stay with their home page; the first home page always has a body; the waiting screen ends unless the app is restarted for ever |
| `account_lists` | 2 accounts, 2 home pages, 2 calls, 1 comparison each, 2 calls of the page | types; nobody's stored list takes in another's items; a settled page is that of who is signed in; no page is built below the search page of one that is gone; all but the types unless logins overlap |
| `most_similar` | 5 names, answers of up to 3 rows | loop invariant and result of findMostSimilar |
| `server_two_requests` | 2 requests, failures on, timers fair | types; totals add up; a timely reply is right; lookups in order; no false substitute; refinement of `PriceService`; every comparison is answered whatever the database does, every search if the database goes on answering, unless the process has ended |
| `server_reply_json` *(violation)* | 1 request | an item both stores sell makes the reply unreadable |
| `server_safeway_substitute` *(violation)* | 1 request | an item only Walmart sells gets no substitute of Safeway |

The violations are findings: each quotes the comment it contradicts in
`PROJECT.json`. Two of them meet: a duplicate is appended at the end of the stored
list (`list_duplicates`), and a list that ends in an item it already holds cannot
be compared (`BodyIsList`).

Six more things the code does limit what the passing runs can say, and each is the
precondition of a property. A list that became empty is read as null, which leaves
the screen as it was (`ScreenShowsStored` excepts it). The late answer of an earlier
search is added under a later one (`ExactlyFound`). A logout with a comparison on
the screen leaves the static index at 3, and the next home page without a body
(`FirstHomeHasBody`). The 500 ms timer under the comment "wait for queries to
complete" waits for none: a late answer is counted as not sold (`TimelyReply`). Of
two comparisons under way at once the second is answered into a page that keeps
showing the first (`DrawnIsLatest`). Two logins that overlap, or one that is answered
below a register page, let the list page of the first write to the account of the
second (`ListsAreOwn`), and let a new page be built below the search page of one that
is gone: two logins, a home page, a logout, the search page, and the second login
answered last (`NoPageBelowOrphan`). TLC finds either within a few steps when `hurried`
is left out.

**Bounds and why they are enough.** Two devices are needed for one to be behind,
and two edits for one to be rebuilt without the other; four edits of a patient user
make a list, shorten it and build it again. `MaxLeft` bounds the calls an old page
leaves to a new one. Two requests make every kind of query of one wait behind those
of another; one of them compares any list of up to two items, the other any of one
item at most or a list of two in which each store lacks something; names cover:
sold by both, by one only, by none, sold twice by one store, refused. Three searches
make one answer arrive between two others. Three calls to Firebase Auth let one fail
between two that do not, and two home pages let an answer come to the wrong one. The
lists of the price page have a repeated name at the end, not at the end, and next to
itself, and a name that cannot be sent; the stores offer different numbers of
products. In `account_lists` two calls are enough for a logout and a login of another
to be under way together, two calls of the page for a write with its refresh, and
one call left behind for a write that lands under the next page. Its constraint
`Unspoilt` does not look further once a hurried login has changed a stored list: what
is to be checked there excepts hurried logins, but for the types, which the contents of
stored lists make no difference to. Counters are bounded in guards only; the
proofs need none of the bounds to be small.

**Deadlock** is checked except for `EgServer` and `MostSimilar`, which end: all
requests are answered, the process is gone, the loop has returned.

**Fairness.** `GroceryList`: weak fairness of the arrival of the uid and of the
database per device (the plugins complete their futures); none of any user.
`EgServer`: `TimerSpec` assumes that Node fires timers; that the database goes on
answering is the premise of `SearchIsAnswered` and of nothing else. `AppShell`:
Firebase Auth serves and answers. The other modules claim safety only. Symmetry, of
the two accounts, is used in `account_lists` only, which checks no liveness.

## What is proved

For every value of the constants that satisfies the named assumptions.

- **GroceryListProofs.** `Inv` (in `GroceryList`) is inductive: types, a refresh
  behind every queued write, and: a device with no read to come holds what its last
  read gave it, on screen too unless that was null. The last conjunct is what
  "settled" alone does not give. From it `TypeCorrect`, `EveryWriteRefreshed`,
  `SettledBaseIsStored`, `SettledScreenIsStored`, `FreshCheckIsSound` (an action
  property) and `PatientKeepsTheRest`, the refinement of `StoredList` by one
  device in patient hands: every write that lands was built from the stored list.
- **EgServerProofs.** `RequestsOK` (queries, timers and results belong to items of
  requests that arrived) and with it `LookupsInOrder` by induction over the
  connection's queue: a Walmart lookup in it is behind Safeway's or Safeway's has
  been answered. `NoFalseSubstitute` follows, because the timer's case "only
  Walmart" means that Safeway's answer was in and empty.
  `QInv` extends that to the quotes: what was found are places of
  the table, so every listed row is a row with its price; the timers of a request fire
  in the order of its list, so no more items are unknown than were due. That a first
  place and a most similar row exist at all comes from a least counterexample (the
  order on the naturals is well-founded), in place of the induction that the provers
  cannot do. With it `TypeCorrect`.
- **EgServerQuotes.** The quotes add up (`QuoteAddsUp`), a timely reply says what the
  tables do (`TimelyReply`), and `PriceService` is implemented (`ServesAsPromised`), for
  any requests, lists and tables. The invariant is `BInv`. Its core, `Accounted`, keeps
  for every comparison what the server itself never stores: a *place* for each row of
  its quote, the item of the list that the row is for. No store has two rows at one
  place; an item that is undecided, or awaits a similar product of a store, is no place
  there; a decided item that is no place in either store is one that both count. While
  no answer was late (`Timely`) the row at a place is what the store offers for that
  item, and no decided item that it offers is missing but those awaited. Beside it
  `BInv` has what makes the steps agree with that: each answer of a lookup is in or
  still queued (`AllLookedUp`), no query for a similar product is queued twice and each
  is for something the other store sells (`Sought`), and a comparison has one timer for
  its reply, which has not been sent (`Timed`). The counts of `QuoteAddsUp` are then
  the sizes of four disjoint parts of the list; the multiset of rows in `TimelyReply`
  is that of the offers, because the places are a bijection onto the items on offer;
  and those places are the witness that `PriceService` asks for. Sums are folds over
  finite sets, and `CHOOSE` picks the order: that any summand may be taken out
  (`TotalWithout`) and that a sum does not depend on what its summands are called
  (`TotalRenamed`) is proved from a least set that is a counterexample.
- **PricePageProofs.** `IInv` says of every request that its list was stored and its
  body is what `encodeListAsJson` writes for it, of the page that it holds no other
  list, and of the comparison that what is kept is another one only if two overlapped.
  `ParsedEncoded` is the fact about the encoder, for lists of any length: since the
  comma depends on the last item alone, no induction is needed. From these
  `BodiesAreLists`, `ComparedIsStored`, `LatestIsDrawn`, `NobodyDisturbed`.
- **AccountListProofs.** `ImplementsShell`: every step is one of the shell or leaves
  it alone, so that the theorems about the shell hold here. `LoginAlone` says which calls
  to Firebase Auth can be under way: when the app starts, its `currentUser` and no other;
  while nobody hurried, one login at most, and none while a home page is shown or a search
  page is open. It says nothing of their order, so it does not matter that a call which is
  served passes logins that wait (`OpsServe`: the calls under way are permuted). With it
  `OrphanAlone`.
  `Owned` is what "settled" alone does not give: while nobody hurried, everything that
  a page has - its uid, its items, the answers on their way to it - is of one user, who
  may have left but in whose place no other has come; and every write on its way is of
  the account that it goes to. With it `NobodysItemsStray`, `SettledIsOwn`.
- **MostSimilarProofs.** `LoopInv` is inductive (the best row so far, the first
  among equals); at the end it gives `ReturnsMostSimilar`.
- **AppShellProofs.** `IInv`: only a home page that exists has comparisons, one
  that is shown holds none or its own, and index 3 without a comparison is never
  that of the first home page, nor set before it. `OwnComparison` and
  `FirstHomeHasBody` follow. `SessionMatches` needs another strengthening,
  `Followed`: the last answer on its way that is ok names the one who is signed in,
  and without one the screen agrees already or the start of the app is still asking.
- **SearchListProofs.** `NothingLost` is inductive with the types. `ExactlyFound`
  needs `AloneFindsEmpty`: when the last search began alone, no other is under way,
  and it finds the list empty.

Only model-checked: the four liveness properties (`Converges`, `CompareIsAnswered`,
`SearchIsAnswered`, `SplashEnds`), since what they rest on, fairness, is beyond the
provers. Every other property of a passing run, the refinements included, is stated by
a theorem. The violations are TLC's.

## Not modelled

- The favourites of the list page (`list.dart:104-116`, `193-227`): a set of names in
  the memory of one page, which nothing else reads and which ends with the page.
- The reminder dialog of the shopping list page and what that page reads from Firebase
  without using it; layout; the validators of the forms.
- The scrapers, `compare.py`, `similar.py`, `appy.py` and `webhook_test.py`:
  straight-line scripts run by hand, without state that anything else reads. How what
  the scrapers write becomes the tables of the server is not in the repository.
- Nearly all of `src/` by size: the vendored pods under `ios/Pods` (gRPC, BoringSSL,
  Protobuf, Firebase and others), generated platform projects, the specification of
  another company's API. They are other projects, which the program uses through
  Firebase's plugins alone; that use is modelled, as external. Of the program's own
  Dart and JavaScript, the rest after the lines `PROJECT.json` maps is widgets and text.

## Plan

In order of importance; what is done is marked.

1. (done) `StoredList`, `GroceryList`, proofs.
2. (done) `Similarity`, `MostSimilar`, `EgServer`, proofs of order and substitutes.
3. (done) `AppShell`, `SearchList`, `PricePage`, proofs.
4. (done) `PriceService`, which `EgServer` implements; proofs of its types.
5. (done) `AccountList`: the list page over logouts and logins, proofs.
6. (done) `QuoteAddsUp`, `TimelyReply` and `ServesAsPromised` proved for every catalogue.
7. `PricePage` with `EgServer`: from the stored list to the comparison on screen. Today
   they meet in `Answered` and `Failed`, which allow every outcome of the server.
8. The favourites of the list page, whose component is then modelled as a whole.
