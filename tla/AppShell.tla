------------------------------ MODULE AppShell ------------------------------
(***************************************************************************)
(* What is on the screen of the app: the splash page that follows the      *)
(* session (src/lib/splash.dart, login.dart, register.dart) and the home   *)
(* page with its tabs and the comparison that replaces the price page      *)
(* (src/lib/home_page.dart, prices.dart).  Firebase Auth serves a login    *)
(* when its backend answers and a logout at once, before the logins that   *)
(* wait; the app hears of each later, in the order of serving.  A          *)
(* comparison is answered at any time, whatever has become of the page     *)
(* that asked for it.                                                      *)
(***************************************************************************)
EXTENDS Naturals, Sequences, SequencesExt

CONSTANTS
  Account,      \* the accounts that can sign in
  NoOne,        \* nobody is signed in
  MaxHomes,     \* a bound on the home pages of one run of the app, for TLC
  MaxCalls,     \* a bound on the calls to Firebase Auth under way, for TLC
  MaxCompares   \* a bound on the comparisons under way per home page, for TLC

ASSUME ShellAssumption ==
  /\ NoOne \notin Account
  /\ MaxHomes \in Nat /\ MaxCalls \in Nat \ {0} /\ MaxCompares \in Nat

VARIABLES
  account,       \* who Firebase says is signed in
  authq,         \* the calls to Firebase Auth that are not served
  answers,       \* the answers to those that are, on their way to the app
  authStatus,    \* what the splash page shows
  registering,   \* whether the register page covers it
  home,          \* the number of home pages so far; the last may be on screen
  currentIndex,  \* _currentIndex: static, it outlives the home page
  page3,         \* _pages[3]: the home page that asked for it, 0 for null
  comparing      \* comparing[h]: the comparisons under way for home page h

pageVars == <<home, currentIndex, page3, comparing>>
vars == <<account, authq, answers, authStatus, registering, pageVars>>

\* A call, by a register page that is on the screen or not; its answer says who
\* is signed in now and whether the call succeeded.
Call ==
  [op : {"currentUser", "signOut", "signIn", "create"},
   who : Account \cup {NoOne}, page : BOOLEAN]
Reply == [call : Call, ok : BOOLEAN]

TypeOK ==
  /\ account \in Account \cup {NoOne}
  /\ authq \in Seq(Call) /\ answers \in Seq(Reply)
  /\ Len(authq) + Len(answers) <= MaxCalls
  /\ authStatus \in {"Pending", "Logged_in", "Not_Logged_in"}
  /\ registering \in BOOLEAN
  /\ home \in 0 .. MaxHomes
  /\ currentIndex \in 0 .. 3
  /\ page3 \in 0 .. MaxHomes
  /\ comparing \in [1 .. MaxHomes -> 0 .. MaxCompares]
  /\ authStatus = "Pending" => home = 0

\* Fault: the login page is shown until Firebase has answered.
FaultyStarting == "Not_Logged_in"

\* What the splash page shows until it knows the user.
Starting == "Pending"

\* The app starts: the splash page asks for the user, statics are fresh.
Init ==
  /\ account \in Account \cup {NoOne}
  /\ authq = <<[op |-> "currentUser", who |-> NoOne, page |-> FALSE]>>
  /\ answers = <<>>
  /\ authStatus = Starting
  /\ registering = FALSE
  /\ home = 0 /\ currentIndex = 0 /\ page3 = 0
  /\ comparing = [h \in 1 .. MaxHomes |-> 0]

HomeShown == authStatus = "Logged_in"

-----------------------------------------------------------------------------
(* The session.                                                            *)

\* The app is ended and started again; Firebase keeps the session.
Restart ==
  /\ authq' = <<[op |-> "currentUser", who |-> NoOne, page |-> FALSE]>>
  /\ answers' = <<>>
  /\ authStatus' = Starting
  /\ registering' = FALSE
  /\ home' = 0 /\ currentIndex' = 0 /\ page3' = 0
  /\ comparing' = [h \in 1 .. MaxHomes |-> 0]
  /\ UNCHANGED account

Ask(op, who, page) ==
  /\ Len(authq) + Len(answers) < MaxCalls
  /\ authq' = Append(authq, [op |-> op, who |-> who, page |-> page])
  /\ UNCHANGED <<account, answers, authStatus, registering, pageVars>>

TapLogin ==
  /\ authStatus = "Not_Logged_in" /\ ~ registering
  /\ \E who \in Account : Ask("signIn", who, FALSE)

\* The page may have been opened before a login was answered.
TapRegister ==
  /\ registering
  /\ \E who \in Account : Ask("create", who, TRUE)

TapLogout ==
  /\ HomeShown /\ ~ registering
  /\ Ask("signOut", NoOne, FALSE)

OpenRegister ==
  /\ authStatus = "Not_Logged_in" /\ ~ registering
  /\ registering' = TRUE
  /\ UNCHANGED <<account, authq, answers, authStatus, pageVars>>

\* Back: the page of a call that is under way is gone.
Abandoned(call) == [op |-> call.op, who |-> call.who, page |-> FALSE]

CloseRegister ==
  /\ registering
  /\ registering' = FALSE
  /\ authq' = [n \in DOMAIN authq |-> Abandoned(authq[n])]
  /\ answers' = [n \in DOMAIN answers |->
                   [call |-> Abandoned(answers[n].call), ok |-> answers[n].ok]]
  /\ UNCHANGED <<account, authStatus, pageVars>>

\* Whether a call, if it succeeds, signs somebody in.
Enters(call) == call.op \in {"signIn", "create"}

\* Firebase serves a call; one that fails changes nothing.  The calls that sign
\* in wait for the backend, each as long as it takes, and nothing waits for them.
Serve ==
  /\ \E n \in DOMAIN authq :
       /\ \A k \in 1 .. n - 1 : Enters(authq[k])
       /\ LET call == authq[n]
              reads == call.op = "currentUser"
              who == IF reads THEN account ELSE call.who
          IN \E ok \in IF reads THEN {TRUE} ELSE BOOLEAN :
               /\ account' = IF ok THEN who ELSE account
               /\ answers' = Append(answers,
                    [call |-> [op |-> call.op, who |-> who, page |-> call.page],
                     ok |-> ok])
       /\ authq' = RemoveAt(authq, n)
  /\ UNCHANGED <<authStatus, registering, pageVars>>

\* Fault: _pages is static as well.
FaultyFreshPages == page3

FreshPages == 0

\* _signedIn: a home page is built unless there is one.
SignedIn ==
  /\ authStatus' = "Logged_in"
  /\ IF HomeShown THEN UNCHANGED <<home, page3>>
     ELSE home < MaxHomes /\ home' = home + 1 /\ page3' = FreshPages
  /\ UNCHANGED <<currentIndex, comparing>>

Answered(op) ==
  /\ answers # <<>> /\ Head(answers).call.op = op
  /\ answers' = Tail(answers)
  /\ UNCHANGED <<account, authq>>

\* An exception is printed and nothing else happens.
Failed(op) ==
  /\ Answered(op) /\ ~ Head(answers).ok
  /\ UNCHANGED <<authStatus, registering, pageVars>>

\* Fault: a null user leaves the splash page waiting.
FaultyStatusOf(who) == IF who = NoOne THEN "Pending" ELSE "Logged_in"

StatusOf(who) == IF who = NoOne THEN "Not_Logged_in" ELSE "Logged_in"

CurrentUserAnswered ==
  /\ Answered("currentUser")
  /\ LET status == StatusOf(Head(answers).call.who)
     IN IF status = "Logged_in" THEN SignedIn
        ELSE authStatus' = status /\ UNCHANGED pageVars
  /\ UNCHANGED registering

SignInAnswered ==
  /\ Answered("signIn") /\ Head(answers).ok
  /\ SignedIn
  /\ UNCHANGED registering

\* After a registration the page pops itself, if it is still there.
CreateAnswered ==
  /\ Answered("create") /\ Head(answers).ok
  /\ SignedIn
  /\ registering' = (registering /\ ~ Head(answers).call.page)

\* Fault: onSignedOut is called whether or not signOut succeeded.
FaultyLeaves(ok) == TRUE

Leaves(ok) == ok

SignOutAnswered ==
  /\ Answered("signOut") /\ Leaves(Head(answers).ok)
  /\ authStatus' = "Not_Logged_in"
  /\ UNCHANGED <<registering, pageVars>>

AuthAnswered ==
  \/ CurrentUserAnswered \/ SignInAnswered \/ CreateAnswered \/ SignOutAnswered
  \/ \E op \in {"signIn", "create", "signOut"} : Failed(op)

-----------------------------------------------------------------------------
(* The home page.                                                          *)

\* Fault: the place of the comparison is counted from 1 in a list of 4.
FaultyCompareIndex == 4

CompareIndex == 3

\* checkCompare: the price page gives way to the comparison.
Body ==
  CASE currentIndex = 0 -> "HomeScreen"
    [] currentIndex = 1 -> "GroceryList"
    [] currentIndex = 2 -> IF page3 = 0 THEN "Prices" ELSE "Compare"
    [] currentIndex = CompareIndex -> IF page3 = 0 THEN "null" ELSE "Compare"

Touchable == HomeShown /\ ~ registering

SelectTab(index) ==
  /\ Touchable
  /\ currentIndex' = index
  /\ UNCHANGED <<account, authq, answers, authStatus, registering, home, page3, comparing>>

TapCompare ==
  /\ Touchable /\ Body = "Prices"
  /\ comparing[home] < MaxCompares
  /\ comparing' = [comparing EXCEPT ![home] = @ + 1]
  /\ UNCHANGED <<account, authq, answers, authStatus, registering, home, currentIndex, page3>>

\* The callback of a home page that is gone calls setState of a disposed state:
\* a debug build throws before, a release build after the closure has run.
CompareAnswered(h) ==
  /\ comparing[h] > 0
  /\ comparing' = [comparing EXCEPT ![h] = @ - 1]
  /\ IF HomeShown /\ h = home
       THEN page3' = h /\ currentIndex' = CompareIndex
       ELSE UNCHANGED page3 /\ currentIndex' \in {currentIndex, CompareIndex}
  /\ UNCHANGED <<account, authq, answers, authStatus, registering, home>>

\* The request or the decoding of its answer throws: no callback.
CompareFailed(h) ==
  /\ comparing[h] > 0
  /\ comparing' = [comparing EXCEPT ![h] = @ - 1]
  /\ UNCHANGED <<account, authq, answers, authStatus, registering, home, currentIndex, page3>>

\* Fault: the comparison is removed, the index stays.
FaultyResetIndex == currentIndex

ResetIndex == 2

TapReset ==
  /\ Touchable /\ Body = "Compare"
  /\ page3' = 0
  /\ currentIndex' = ResetIndex
  /\ UNCHANGED <<account, authq, answers, authStatus, registering, home, comparing>>

-----------------------------------------------------------------------------

Session ==
  \/ Restart \/ TapLogin \/ TapRegister \/ TapLogout
  \/ OpenRegister \/ CloseRegister \/ Serve \/ AuthAnswered

HomePage ==
  \/ \E index \in 0 .. 2 : SelectTab(index)
  \/ TapCompare \/ TapReset
  \/ \E h \in 1 .. MaxHomes : CompareAnswered(h) \/ CompareFailed(h)

Next == Session \/ HomePage

Spec == Init /\ [][Next]_vars

\* Firebase answers what the app asks.
FairSpec == Spec /\ WF_vars(Serve) /\ WF_vars(AuthAnswered)

-----------------------------------------------------------------------------

\* When Firebase has answered everything, the screen agrees with it on whether
\* somebody is signed in, however calls, failures and restarts were mixed.
SessionMatches ==
  authq = <<>> /\ answers = <<>> =>
    /\ authStatus # "Pending"
    /\ authStatus = "Logged_in" <=> account # NoOne

\* A comparison is shown only on the home page that asked for it: not to the
\* next user, nor after an answer that came when its page was gone.
OwnComparison == HomeShown /\ page3 # 0 => page3 = home

\* The first home page of a run always has a body, through comparisons that
\* come late, twice or after a reset.  A later one may begin with the index of
\* a comparison that was on the screen at the logout, and then has none.
FirstHomeHasBody == HomeShown /\ home = 1 => Body # "null"

\* The splash page does not wait for ever, unless the app is restarted for ever.
SplashEnds ==
  <>[][~ Restart]_vars => (authStatus = "Pending" ~> authStatus # "Pending")
=============================================================================
