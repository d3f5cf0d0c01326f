---------------------------- MODULE AccountList -----------------------------
(***************************************************************************)
(* Whose list the grocery list page reads and writes: the page of          *)
(* src/lib/list.dart in its place in the app (AppShell), over the sessions *)
(* of several accounts on one phone.  The page lives as long as its tab is *)
(* shown, and on as the state behind an open search page (the _addItem     *)
(* path of src/lib/search.dart) when the tab or the home page is gone.     *)
(*                                                                         *)
(* A list is abstracted to the accounts whose items it holds.  Every       *)
(* refresh asks Firebase who is signed in and reads that account's list;   *)
(* in between, a write sends what was read before under the uid of now.    *)
(***************************************************************************)
EXTENDS AppShell

CONSTANTS
  Blank,        \* the uid field of a page that has not been told its user
  MaxUnderWay,  \* a bound on what the page has under way at an edit, for TLC
  MaxLeft       \* a bound on the calls left when a new page is built, for TLC

ASSUME AccountListAssumption ==
  /\ Blank \notin Account \cup {NoOne}
  /\ MaxUnderWay \in Nat /\ MaxLeft \in Nat

VARIABLES
  uid,        \* the field uid: null is NoOne
  items,      \* the field items: whose items it holds
  asking,     \* the currentUser calls of refreshes; Blank for one not served
  link,       \* the calls to the database that are not handled, in order
  searching,  \* a search page that the page has opened covers the screen
  stored,     \* stored[a]: whose items the database has under a
  hurried     \* history: see Hurries

listVars == <<uid, items, asking, link, searching, stored, hurried>>
allVars == <<vars, listVars>>

\* A write of a list under an account, the root of the database when Blank,
\* a read of an account's list, or a read that nobody waits for any more.
DbCall ==
  [op : {"set"}, of : Account \cup {Blank}, list : SUBSET Account]
    \cup [op : {"get"}, of : Account \cup {NoOne}]
    \cup [op : {"void"}]

AccountListTypeOK ==
  /\ TypeOK
  /\ uid \in Account \cup {NoOne, Blank}
  /\ items \subseteq Account
  /\ asking \in Seq(Account \cup {NoOne, Blank})
  /\ link \in Seq(DbCall)
  /\ searching \in BOOLEAN
  /\ stored \in [Account -> SUBSET Account]
  /\ hurried \in BOOLEAN

ListShown == HomeShown /\ Body = "GroceryList"

IsSet(call) == call.op = "set"

NoPage == uid = Blank /\ items = {} /\ asking = <<>>

\* Faults: the fields are static; initState asks for nobody.
FaultyStaticFields(calls) == asking' = calls /\ UNCHANGED <<uid, items>>
FaultyNoFirstRefresh(calls) == uid' = Blank /\ items' = {} /\ asking' = <<>>

\* A page begins with fresh fields and the calls of its initState.
Fresh(calls) ==
  /\ uid' = Blank /\ items' = {} /\ asking' = calls

AccountListInit ==
  /\ Init
  /\ NoPage
  /\ link = <<>>
  /\ searching = FALSE
  /\ stored = [a \in Account |-> {a}]
  /\ hurried = FALSE

-----------------------------------------------------------------------------
(* The page follows the shell.                                             *)

SamePage == ListShown /\ ListShown' /\ home' = home

\* Nobody waits for the answers to the reads of a page that is gone.
LeftBehind(calls) ==
  [n \in DOMAIN calls |-> IF IsSet(calls[n]) THEN calls[n] ELSE [op |-> "void"]]

\* A new page on the tab; or none, but for the one that a search page may hold.
PageFollows ==
  \/ SamePage /\ UNCHANGED <<uid, items, asking, link>>
  \/ ~ SamePage /\ ListShown' /\ Len(link) <= MaxLeft
       /\ Fresh(<<Blank>>) /\ link' = LeftBehind(link)
  \/ ~ ListShown' /\ searching /\ UNCHANGED <<uid, items, asking, link>>
  \/ ~ ListShown' /\ ~ searching
       /\ Fresh(<<>>) /\ link' = LeftBehind(link)

\* A login or registration is sent while another is under way, or from a
\* register page that a login, answered late, has put over a home page.
Hurries ==
  \/ HomeShown
  \/ \E n \in DOMAIN authq : Enters(authq[n])
  \/ \E n \in DOMAIN answers : Enters(answers[n].call)

EnterTap ==
  /\ ~ searching
  /\ TapLogin \/ TapRegister
  /\ PageFollows
  /\ hurried' = (hurried \/ Hurries)
  /\ UNCHANGED <<searching, stored>>

OtherTap ==
  /\ ~ searching
  /\ \/ TapLogout \/ OpenRegister \/ CloseRegister \/ TapCompare \/ TapReset
     \/ \E index \in 0 .. 2 : SelectTab(index)
  /\ PageFollows
  /\ UNCHANGED <<searching, stored, hurried>>

Arrival ==
  /\ \/ Serve \/ AuthAnswered
     \/ \E h \in 1 .. MaxHomes : CompareAnswered(h) \/ CompareFailed(h)
  /\ PageFollows
  /\ UNCHANGED <<searching, stored, hurried>>

\* What was in the memory of the app is lost.
AppRestart ==
  /\ Restart
  /\ Fresh(<<>>) /\ link' = <<>>
  /\ searching' = FALSE
  /\ UNCHANGED <<stored, hurried>>

-----------------------------------------------------------------------------
(* initializeVars: ask for the uid, read its list once.                    *)

\* Firebase is asked in order; it answers with who is signed in now.
UidServed ==
  /\ \E n \in DOMAIN asking :
       /\ asking[n] = Blank
       /\ \A k \in 1 .. n - 1 : asking[k] # Blank
       /\ asking' = [asking EXCEPT ![n] = account]
  /\ UNCHANGED <<vars, uid, items, link, searching, stored, hurried>>

\* Fault: the list that is read is that of the user before.
FaultyRead(who) == [op |-> "get", of |-> uid]

Read(who) == [op |-> "get", of |-> who]

UidArrives ==
  /\ asking # <<>> /\ Head(asking) # Blank
  /\ asking' = Tail(asking)
  /\ uid' = Head(asking)
  /\ link' = Append(link, Read(Head(asking)))
  /\ UNCHANGED <<vars, items, searching, stored, hurried>>

\* Nothing is stored for a user "null".
GetAnswered ==
  /\ link # <<>> /\ Head(link).op = "get"
  /\ items' = IF Head(link).of \in Account THEN stored[Head(link).of] ELSE {}
  /\ link' = Tail(link)
  /\ UNCHANGED <<vars, uid, asking, searching, stored, hurried>>

VoidAnswered ==
  /\ link # <<>> /\ Head(link).op = "void"
  /\ link' = Tail(link)
  /\ UNCHANGED <<vars, uid, items, asking, searching, stored, hurried>>

\* A write to the root wipes out every account, unless it is refused.
SetLands ==
  /\ link # <<>> /\ IsSet(Head(link))
  /\ LET call == Head(link)
     IN IF call.of = Blank THEN stored' \in {stored, [a \in Account |-> {}]}
        ELSE stored' = [stored EXCEPT ![call.of] = call.list]
  /\ link' = Tail(link)
  /\ UNCHANGED <<vars, uid, items, asking, searching, hurried>>

-----------------------------------------------------------------------------
(* The taps on the page and on the search page over it.                    *)

OpenSearch ==
  /\ ListShown /\ ~ registering /\ ~ searching
  /\ searching' = TRUE
  /\ UNCHANGED <<vars, uid, items, asking, link, stored, hurried>>

CloseSearch ==
  /\ searching
  /\ searching' = FALSE
  /\ IF ListShown THEN UNCHANGED <<uid, items, asking, link>>
     ELSE Fresh(<<>>) /\ link' = LeftBehind(link)
  /\ UNCHANGED <<vars, stored, hurried>>

\* dbRef.child(null) throws, before anything is sent.
SendWrite(list) ==
  /\ uid # NoOne
  /\ Len(asking) + Len(link) < MaxUnderWay
  /\ link' = Append(link, [op |-> "set", of |-> uid, list |-> list])
  /\ asking' = Append(asking, Blank)
  /\ UNCHANGED <<vars, uid, items, searching, stored, hurried>>

\* The callback of the page that opened the search page, gone or not.
AddItem ==
  /\ searching
  /\ SendWrite(items \cup ({uid} \ {Blank}))

\* Whether there is a row to delete is left open.
RemoveItem ==
  /\ ListShown /\ ~ registering /\ ~ searching
  /\ SendWrite(items)

-----------------------------------------------------------------------------

AccountListNext ==
  \/ EnterTap \/ OtherTap \/ Arrival \/ AppRestart
  \/ UidServed \/ UidArrives \/ GetAnswered \/ VoidAnswered \/ SetLands
  \/ OpenSearch \/ CloseSearch \/ AddItem \/ RemoveItem

AccountListSpec == AccountListInit /\ [][AccountListNext]_allVars

-----------------------------------------------------------------------------

\* Nobody's stored list comes to hold another's items, through logouts,
\* restarts, pages that are gone and edits at any time - unless a user sent a
\* login or registration while another was under way or over a home page.
\* Nothing in the page prevents it: it rests on what the shell lets users do.
\* What is added counts as the page's user's: only rebuilt items can stray.
ListsAreOwn == hurried \/ \A a \in Account : stored[a] \subseteq {a}

\* When the calls of the shell are answered and the page has no refresh or
\* write under way, its writes go to the account that is signed in and are
\* rebuilt from that account's list; with the same exception.
SettledPageIsOwn ==
  ListShown /\ authq = <<>> /\ answers = <<>> /\ asking = <<>> /\ link = <<>>
    => hurried \/ (uid = account /\ items \subseteq {account})

\* No second list page is built below the search page of one that is gone, so
\* that an addition there is on the list that the user will come back to, or on
\* none - unless a login was sent while another was under way or over a home
\* page: one that is answered after the logout does build a page there.
NoPageBelowOrphan ==
  [][searching /\ searching' /\ ListShown' => SamePage \/ hurried]_allVars
=============================================================================
