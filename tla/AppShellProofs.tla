--------------------------- MODULE AppShellProofs ---------------------------
(* The types of AppShell, and which home page shows which comparison.      *)
EXTENDS AppShell, TLAPS, SequenceTheorems

(***************************************************************************)
(* Types.                                                                  *)
(***************************************************************************)

LEMMA AbandonedCall == ASSUME NEW call \in Call PROVE Abandoned(call) \in Call
  BY DEF Abandoned, Call

\* Back leaves the calls under way, one by one, where they are in line.
LEMMA AbandonedQueue ==
  ASSUME NEW q \in Seq(Call)
  PROVE  /\ [n \in DOMAIN q |-> Abandoned(q[n])] \in Seq(Call)
         /\ Len([n \in DOMAIN q |-> Abandoned(q[n])]) = Len(q)
<1> DEFINE r == [n \in DOMAIN q |-> Abandoned(q[n])]
<1>1. Len(q) \in Nat /\ DOMAIN q = 1 .. Len(q)
  OBVIOUS
<1>2. \A n \in 1 .. Len(q) : q[n] \in Call
  OBVIOUS
<1>3. \A n \in 1 .. Len(q) : r[n] \in Call
  BY <1>1, <1>2, AbandonedCall
<1>4. r \in Seq(Call)
  BY <1>1, <1>3, IsASeq
<1>5. DOMAIN r = 1 .. Len(r) /\ Len(r) \in Nat
  BY <1>4, LenProperties
<1> QED BY <1>1, <1>4, <1>5

LEMMA AbandonedAnswers ==
  ASSUME NEW q \in Seq(Reply)
  PROVE  LET r == [n \in DOMAIN q |->
                     [call |-> Abandoned(q[n].call), ok |-> q[n].ok]]
         IN r \in Seq(Reply) /\ Len(r) = Len(q)
<1> DEFINE r == [n \in DOMAIN q |->
                   [call |-> Abandoned(q[n].call), ok |-> q[n].ok]]
<1>1. Len(q) \in Nat /\ DOMAIN q = 1 .. Len(q)
  OBVIOUS
<1>2. \A n \in 1 .. Len(q) : q[n] \in Reply
  OBVIOUS
<1>3. \A n \in 1 .. Len(q) : r[n] \in Reply
  BY <1>1, <1>2, AbandonedCall DEF Reply
<1>4. r \in Seq(Reply)
  BY <1>1, <1>3, IsASeq
<1>5. DOMAIN r = 1 .. Len(r) /\ Len(r) \in Nat
  BY <1>4, LenProperties
<1> QED BY <1>1, <1>4, <1>5

\* The part of TypeOK that speaks of the calls, and the rest.
CallsTyped ==
  /\ account \in Account \cup {NoOne}
  /\ authq \in Seq(Call) /\ answers \in Seq(Reply)
  /\ Len(authq) + Len(answers) <= MaxCalls

PagesTyped ==
  /\ authStatus \in {"Pending", "Logged_in", "Not_Logged_in"}
  /\ registering \in BOOLEAN
  /\ home \in 0 .. MaxHomes
  /\ currentIndex \in 0 .. 3
  /\ page3 \in 0 .. MaxHomes
  /\ comparing \in [1 .. MaxHomes -> 0 .. MaxCompares]

\* Nothing but a start of the app shows the waiting screen, and a home page is
\* counted before it is shown.
Counted ==
  /\ authStatus = "Pending" => home = 0
  /\ HomeShown => home > 0

\* A home page is shown with no comparison or with its own; only a home page
\* that there has been asks for one; and an index that selects a comparison
\* that there is not is never that of the first home page, nor set before it.
PagesOwned ==
  /\ page3 # 0 => page3 = home
  /\ \A h \in 1 .. MaxHomes : comparing[h] > 0 => h <= home
  /\ home = 0 => currentIndex # 3
  /\ HomeShown /\ home = 1 /\ currentIndex = 3 => page3 # 0

IInv == CallsTyped /\ PagesTyped /\ Counted /\ PagesOwned

LEMMA StartCall ==
  /\ <<[op |-> "currentUser", who |-> NoOne, page |-> FALSE]>> \in Seq(Call)
  /\ Len(<<[op |-> "currentUser", who |-> NoOne, page |-> FALSE]>>) = 1
<1>1. [op |-> "currentUser", who |-> NoOne, page |-> FALSE] \in Call
  BY DEF Call
<1> QED BY <1>1

LEMMA Started == Init => IInv
<1> SUFFICES ASSUME Init PROVE IInv
  OBVIOUS
<1>1. CallsTyped
  BY StartCall, ShellAssumption DEF Init, CallsTyped
<1>2. registering \in BOOLEAN
  BY Zenon DEF Init
<1>3. PagesTyped
  BY <1>2, ShellAssumption DEF Init, Starting, PagesTyped
<1>4. Counted
  BY DEF Init, Starting, Counted, HomeShown
<1>5. \A h \in 1 .. MaxHomes : comparing[h] = 0
  BY DEF Init
<1>6. PagesOwned
  BY <1>5 DEF Init, Starting, PagesOwned, HomeShown
<1> QED BY <1>1, <1>3, <1>4, <1>6 DEF IInv

-----------------------------------------------------------------------------
(* The calls.                                                              *)

LEMMA AskTyped ==
  ASSUME CallsTyped, NEW op \in {"currentUser", "signOut", "signIn", "create"},
         NEW who \in Account \cup {NoOne}, NEW page \in BOOLEAN,
         Ask(op, who, page)
  PROVE  CallsTyped'
<1> DEFINE call == [op |-> op, who |-> who, page |-> page]
<1>1. call \in Call
  BY DEF Call
<1>2. authq' = Append(authq, call) /\ answers' = answers /\ account' = account
  BY DEF Ask
<1>3. authq' \in Seq(Call) /\ Len(authq') = Len(authq) + 1
  BY <1>1, <1>2, AppendProperties DEF CallsTyped
<1>4. Len(authq) \in Nat /\ Len(answers) \in Nat
  BY DEF CallsTyped
<1>5. Len(authq) + 1 + Len(answers) <= MaxCalls
  BY <1>4, ShellAssumption DEF Ask
<1> QED BY <1>2, <1>3, <1>4, <1>5 DEF CallsTyped

LEMMA AnsweredTyped ==
  ASSUME CallsTyped, NEW op, Answered(op) PROVE CallsTyped'
<1>1. answers # <<>> /\ answers' = Tail(answers)
      /\ account' = account /\ authq' = authq
  BY DEF Answered
<1>2. answers' \in Seq(Reply) /\ Len(answers') = Len(answers) - 1
  BY <1>1, HeadTailProperties DEF CallsTyped
<1>3. Len(authq) \in Nat /\ Len(answers) \in Nat
  BY DEF CallsTyped
<1> QED BY <1>1, <1>2, <1>3, ShellAssumption DEF CallsTyped

\* A call that is served leaves its place to those behind it.
LEMMA Removed ==
  ASSUME NEW S, NEW q \in Seq(S), NEW n \in 1 .. Len(q)
  PROVE  /\ RemoveAt(q, n) \in Seq(S) /\ Len(RemoveAt(q, n)) = Len(q) - 1
         /\ \A j \in 1 .. Len(q) - 1 :
              RemoveAt(q, n)[j] = IF j < n THEN q[j] ELSE q[j + 1]
<1> DEFINE before == SubSeq(q, 1, n - 1)
           behind == SubSeq(q, n + 1, Len(q))
<1>1. Len(q) \in Nat /\ n \in Nat /\ 1 <= n /\ n <= Len(q)
  OBVIOUS
<1>2. \A j \in 1 .. n - 1 : q[j] \in S
  BY <1>1
<1>3. \A j \in n + 1 .. Len(q) : q[j] \in S
  BY <1>1
<1>4. /\ before \in Seq(S) /\ Len(before) = n - 1
      /\ \A j \in 1 .. n - 1 : before[j] = q[j]
  BY <1>1, <1>2, SubSeqProperties
<1>5. /\ behind \in Seq(S) /\ Len(behind) = Len(q) - n
      /\ \A j \in 1 .. Len(q) - n : behind[j] = q[n + j]
  BY <1>1, <1>3, SubSeqProperties
<1>6. RemoveAt(q, n) = before \o behind
  BY DEF RemoveAt
<1> HIDE DEF before, behind
<1>7. /\ RemoveAt(q, n) \in Seq(S) /\ Len(RemoveAt(q, n)) = Len(before) + Len(behind)
      /\ \A j \in 1 .. Len(before) + Len(behind) :
           RemoveAt(q, n)[j] = IF j <= Len(before) THEN before[j]
                               ELSE behind[j - Len(before)]
  BY <1>4, <1>5, <1>6, ConcatProperties
<1>8. ASSUME NEW j \in 1 .. Len(q) - 1
      PROVE  RemoveAt(q, n)[j] = IF j < n THEN q[j] ELSE q[j + 1]
  <2>1. CASE j < n
    <3>1. j \in 1 .. n - 1 /\ j <= Len(before) /\ j \in 1 .. Len(before) + Len(behind)
      BY <1>1, <1>4, <1>5, <2>1
    <3>2. RemoveAt(q, n)[j] = before[j]
      BY <1>7, <3>1
    <3> QED BY <1>4, <2>1, <3>1, <3>2
  <2>2. CASE ~ j < n
    <3>1. j - (n - 1) \in 1 .. Len(q) - n /\ n + (j - (n - 1)) = j + 1
      BY <1>1, <2>2
    <3>2. ~ j <= Len(before) /\ j \in 1 .. Len(before) + Len(behind)
      BY <1>1, <1>4, <1>5, <2>2
    <3>3. RemoveAt(q, n)[j] = behind[j - (n - 1)]
      BY <1>4, <1>7, <3>2
    <3>4. behind[j - (n - 1)] = q[n + (j - (n - 1))]
      BY <1>5, <3>1
    <3> QED BY <2>2, <3>1, <3>3, <3>4
  <2> QED BY <2>1, <2>2
<1> QED BY <1>1, <1>4, <1>5, <1>7, <1>8

\* The call at n is served, and its answer names who.
ServedAt(n, who, ok) ==
  /\ \A k \in 1 .. n - 1 : Enters(authq[k])
  /\ who = IF authq[n].op = "currentUser" THEN account ELSE authq[n].who
  /\ account' = IF ok THEN who ELSE account
  /\ answers' = Append(answers,
       [call |-> [op |-> authq[n].op, who |-> who, page |-> authq[n].page], ok |-> ok])
  /\ authq' = RemoveAt(authq, n)

LEMMA Served ==
  ASSUME CallsTyped, Serve
  PROVE  \E n \in 1 .. Len(authq), who \in Account \cup {NoOne}, ok \in BOOLEAN :
           ServedAt(n, who, ok) /\ (authq[n].op = "currentUser" => ok)
<1>1. PICK n \in DOMAIN authq :
        /\ \A k \in 1 .. n - 1 : Enters(authq[k])
        /\ LET call == authq[n]
               reads == call.op = "currentUser"
               who == IF reads THEN account ELSE call.who
           IN \E ok \in IF reads THEN {TRUE} ELSE BOOLEAN :
                /\ account' = IF ok THEN who ELSE account
                /\ answers' = Append(answers,
                     [call |-> [op |-> call.op, who |-> who, page |-> call.page],
                      ok |-> ok])
        /\ authq' = RemoveAt(authq, n)
  BY DEF Serve
<1> DEFINE who == IF authq[n].op = "currentUser" THEN account ELSE authq[n].who
<1>2. PICK ok \in IF authq[n].op = "currentUser" THEN {TRUE} ELSE BOOLEAN :
        /\ account' = IF ok THEN who ELSE account
        /\ answers' = Append(answers,
             [call |-> [op |-> authq[n].op, who |-> who, page |-> authq[n].page],
              ok |-> ok])
  BY <1>1
<1>3. n \in 1 .. Len(authq) /\ authq[n] \in Call
  BY DEF CallsTyped
<1>4. who \in Account \cup {NoOne}
  BY <1>3 DEF Call, CallsTyped
<1>5. ok \in BOOLEAN /\ (authq[n].op = "currentUser" => ok)
  BY <1>2, Zenon
<1>6. ServedAt(n, who, ok)
  BY <1>1, <1>2, Zenon DEF ServedAt
<1> QED BY <1>3, <1>4, <1>5, <1>6, Zenon

LEMMA ServeTyped ==
  ASSUME CallsTyped, Serve PROVE CallsTyped'
<1>1. PICK n \in 1 .. Len(authq), who \in Account \cup {NoOne}, ok \in BOOLEAN :
        ServedAt(n, who, ok)
  BY Served, Zenon
<1> DEFINE reply == [call |-> [op |-> authq[n].op, who |-> who, page |-> authq[n].page],
                     ok |-> ok]
<1>2. authq[n] \in Call
  BY DEF CallsTyped
<1>3. reply \in Reply
  BY <1>2 DEF Call, Reply
<1>4. answers' = Append(answers, reply) /\ authq' = RemoveAt(authq, n)
  BY <1>1 DEF ServedAt
<1>5. answers' \in Seq(Reply) /\ Len(answers') = Len(answers) + 1
  BY <1>3, <1>4, AppendProperties DEF CallsTyped
<1>6. authq' \in Seq(Call) /\ Len(authq') = Len(authq) - 1
  BY <1>4, Removed DEF CallsTyped
<1>7. account' \in Account \cup {NoOne}
  BY <1>1 DEF ServedAt, CallsTyped
<1>8. Len(authq) \in Nat /\ Len(answers) \in Nat
  BY DEF CallsTyped
<1> QED BY <1>5, <1>6, <1>7, <1>8, ShellAssumption DEF CallsTyped

-----------------------------------------------------------------------------
(* The pages.                                                              *)

Pages == PagesTyped /\ Counted /\ PagesOwned

LEMMA SignedInPages ==
  ASSUME Pages, SignedIn, registering' \in BOOLEAN PROVE Pages'
<1> USE ShellAssumption
<1>1. authStatus' = "Logged_in" /\ currentIndex' = currentIndex
      /\ comparing' = comparing
  BY DEF SignedIn
<1>2. CASE HomeShown
  <2>1. home' = home /\ page3' = page3 /\ HomeShown'
    BY <1>1, <1>2 DEF SignedIn, HomeShown
  <2>2. PagesTyped'
    BY <1>1, <2>1 DEF Pages, PagesTyped
  <2>3. Counted'
    BY <1>1, <1>2, <2>1 DEF Pages, Counted, HomeShown
  <2>4. PagesOwned'
    BY <1>1, <1>2, <2>1 DEF Pages, PagesOwned, HomeShown
  <2> QED BY <2>2, <2>3, <2>4 DEF Pages
<1>3. CASE ~ HomeShown
  <2>1. home < MaxHomes /\ home' = home + 1 /\ page3' = 0
    BY <1>3 DEF SignedIn, FreshPages
  <2>2. home \in 0 .. MaxHomes
    BY DEF Pages, PagesTyped
  <2>3. PagesTyped'
    BY <1>1, <2>1, <2>2 DEF Pages, PagesTyped
  <2>4. Counted'
    BY <1>1, <2>1, <2>2 DEF Counted, HomeShown
  <2>5. \A h \in 1 .. MaxHomes : comparing'[h] > 0 => h <= home'
    BY <1>1, <2>1, <2>2 DEF Pages, PagesOwned
  <2>6. home' = 1 => currentIndex' # 3
    BY <1>1, <2>1, <2>2 DEF Pages, PagesOwned
  <2>7. PagesOwned'
    BY <2>1, <2>2, <2>5, <2>6 DEF PagesOwned
  <2> QED BY <2>3, <2>4, <2>7 DEF Pages
<1> QED BY <1>2, <1>3

\* What leaves the home pages alone, and shows no page that was not there.
LEMMA StillPages ==
  ASSUME Pages, UNCHANGED pageVars, registering' \in BOOLEAN,
         \/ authStatus' = authStatus
         \/ authStatus' = "Not_Logged_in"
  PROVE  Pages'
<1>1. home' = home /\ currentIndex' = currentIndex /\ page3' = page3
      /\ comparing' = comparing
  BY DEF pageVars
<1>2. authStatus' \in {"Pending", "Logged_in", "Not_Logged_in"}
  BY DEF Pages, PagesTyped
<1>3. PagesTyped'
  BY <1>1, <1>2 DEF Pages, PagesTyped
<1>4. Counted'
  BY <1>1 DEF Pages, Counted, HomeShown
<1>5. PagesOwned'
  BY <1>1 DEF Pages, PagesOwned, HomeShown
<1> QED BY <1>3, <1>4, <1>5 DEF Pages

LEMMA RestartPages == ASSUME Restart PROVE Pages'
<1>1. registering' \in BOOLEAN
  BY Zenon DEF Restart
<1>2. PagesTyped'
  BY <1>1, ShellAssumption DEF Restart, Starting, PagesTyped
<1>3. Counted'
  BY DEF Restart, Starting, Counted, HomeShown
<1>4. \A h \in 1 .. MaxHomes : comparing'[h] = 0
  BY DEF Restart
<1>5. PagesOwned'
  BY <1>4 DEF Restart, Starting, PagesOwned, HomeShown
<1> QED BY <1>2, <1>3, <1>5 DEF Pages

LEMMA AnsweredPages == ASSUME Pages, AuthAnswered PROVE Pages'
<1>0. registering \in BOOLEAN
  BY DEF Pages, PagesTyped
<1>1. CASE CurrentUserAnswered
  <2>1. registering' \in BOOLEAN
    BY <1>0, <1>1, Zenon DEF CurrentUserAnswered
  <2> DEFINE status == StatusOf(Head(answers).call.who)
  <2>2. CASE status = "Logged_in"
    BY <1>1, <2>1, <2>2, SignedInPages DEF CurrentUserAnswered
  <2>3. CASE status # "Logged_in"
    <3>1. status = "Not_Logged_in"
      BY <2>3 DEF StatusOf
    <3>2. authStatus' = status /\ UNCHANGED pageVars
      BY <1>1, <2>3 DEF CurrentUserAnswered
    <3> QED BY <2>1, <3>1, <3>2, StillPages
  <2> QED BY <2>2, <2>3
<1>2. CASE SignInAnswered
  <2>1. registering' \in BOOLEAN
    BY <1>0, <1>2, Zenon DEF SignInAnswered
  <2> QED BY <1>2, <2>1, SignedInPages DEF SignInAnswered
<1>3. CASE CreateAnswered
  <2>1. registering' \in BOOLEAN
    BY <1>3, Zenon DEF CreateAnswered
  <2> QED BY <1>3, <2>1, SignedInPages DEF CreateAnswered
<1>4. CASE SignOutAnswered
  <2>1. registering' \in BOOLEAN
    BY <1>0, <1>4, Zenon DEF SignOutAnswered
  <2> QED BY <1>4, <2>1, StillPages DEF SignOutAnswered
<1>5. CASE \E op \in {"signIn", "create", "signOut"} : Failed(op)
  <2>1. registering' \in BOOLEAN
    BY <1>0, <1>5, Zenon DEF Failed
  <2> QED BY <1>5, <2>1, StillPages DEF Failed
<1> QED BY <1>1, <1>2, <1>3, <1>4, <1>5 DEF AuthAnswered

\* A page that can be touched is a home page that was counted.
LEMMA TouchedHome ==
  ASSUME Pages, Touchable PROVE HomeShown /\ home \in 1 .. MaxHomes
<1>1. HomeShown
  BY Zenon DEF Touchable
<1> QED BY <1>1 DEF Pages, PagesTyped, Counted

LEMMA HomePageStep ==
  ASSUME Pages, HomePage PROVE Pages'
<1> USE ShellAssumption
<1>0. /\ authStatus' = authStatus /\ registering' = registering /\ home' = home
      /\ HomeShown' = HomeShown
  BY Zenon DEF HomePage, SelectTab, TapCompare, TapReset, CompareAnswered,
               CompareFailed, HomeShown
<1>t. /\ authStatus \in {"Pending", "Logged_in", "Not_Logged_in"}
      /\ registering \in BOOLEAN
      /\ home \in 0 .. MaxHomes
      /\ currentIndex \in 0 .. 3
      /\ page3 \in 0 .. MaxHomes
      /\ comparing \in [1 .. MaxHomes -> 0 .. MaxCompares]
  BY Zenon DEF Pages, PagesTyped
<1>r. registering' \in BOOLEAN
  BY <1>0, <1>t, Zenon
<1>c. Counted'
  BY <1>0 DEF Pages, Counted
<1>1. CASE \E index \in 0 .. 2 : SelectTab(index)
  <2>1. /\ currentIndex' \in 0 .. 2
        /\ page3' = page3 /\ comparing' = comparing
    BY <1>1 DEF SelectTab
  <2>2. PagesTyped'
    BY <1>0, <1>t, <1>r, <2>1 DEF PagesTyped
  <2>3. PagesOwned'
    BY <1>0, <2>1 DEF Pages, PagesOwned
  <2> QED BY <1>c, <2>2, <2>3 DEF Pages
<1>2. CASE TapCompare
  <2>1. home \in 1 .. MaxHomes
    BY <1>2, TouchedHome DEF TapCompare
  <2>2. /\ comparing[home] < MaxCompares
        /\ comparing' = [comparing EXCEPT ![home] = @ + 1]
        /\ currentIndex' = currentIndex /\ page3' = page3
    BY <1>2 DEF TapCompare
  <2>3. PagesTyped'
    BY <1>0, <1>t, <1>r, <2>1, <2>2 DEF PagesTyped
  <2>4. \A h \in 1 .. MaxHomes : comparing'[h] > 0 => h <= home
    BY <1>t, <2>1, <2>2 DEF Pages, PagesOwned
  <2>5. PagesOwned'
    BY <1>0, <2>2, <2>4 DEF Pages, PagesOwned
  <2> QED BY <1>c, <2>3, <2>5 DEF Pages
<1>3. CASE TapReset
  <2>1. page3' = 0 /\ currentIndex' = 2 /\ comparing' = comparing
    BY <1>3 DEF TapReset, ResetIndex
  <2>2. PagesTyped'
    BY <1>0, <1>t, <1>r, <2>1 DEF PagesTyped
  <2>3. PagesOwned'
    BY <1>0, <2>1 DEF Pages, PagesOwned
  <2> QED BY <1>c, <2>2, <2>3 DEF Pages
<1>4. ASSUME NEW h \in 1 .. MaxHomes, CompareAnswered(h) \/ CompareFailed(h)
      PROVE  Pages'
  <2>1. comparing[h] > 0 /\ comparing' = [comparing EXCEPT ![h] = @ - 1]
    BY <1>4 DEF CompareAnswered, CompareFailed
  <2>2. comparing' \in [1 .. MaxHomes -> 0 .. MaxCompares]
    BY <1>t, <2>1
  <2>3. \A g \in 1 .. MaxHomes : comparing'[g] > 0 => g <= home
    BY <1>t, <2>1 DEF Pages, PagesOwned
  <2>4. home # 0
    BY <1>t, <2>1 DEF Pages, PagesOwned
  <2>5. CASE CompareFailed(h)
    <3>1. currentIndex' = currentIndex /\ page3' = page3
      BY <2>5 DEF CompareFailed
    <3>2. PagesTyped'
      BY <1>0, <1>t, <1>r, <2>2, <3>1 DEF PagesTyped
    <3>3. PagesOwned'
      BY <1>0, <2>3, <3>1 DEF Pages, PagesOwned
    <3> QED BY <1>c, <3>2, <3>3 DEF Pages
  <2>6. CASE CompareAnswered(h) /\ HomeShown /\ h = home
    <3>1. currentIndex' = 3 /\ page3' = home
      BY <2>6 DEF CompareAnswered, CompareIndex
    <3>2. PagesTyped'
      BY <1>0, <1>t, <1>r, <2>2, <3>1 DEF PagesTyped
    <3>3. PagesOwned'
      BY <1>0, <2>3, <2>4, <3>1 DEF PagesOwned
    <3> QED BY <1>c, <3>2, <3>3 DEF Pages
  <2>7. CASE CompareAnswered(h) /\ ~ (HomeShown /\ h = home)
    <3>1. page3' = page3 /\ currentIndex' \in {currentIndex, 3}
      BY <2>7 DEF CompareAnswered, CompareIndex
    <3>2. PagesTyped'
      BY <1>0, <1>t, <1>r, <2>2, <3>1 DEF PagesTyped
    <3>3. HomeShown => home # 1
      \* The home page that asked is an earlier one.
      BY <1>t, <2>1, <2>7 DEF Pages, PagesOwned
    <3>4. PagesOwned'
      BY <1>0, <2>3, <2>4, <3>1, <3>3 DEF Pages, PagesOwned
    <3> QED BY <1>c, <3>2, <3>4 DEF Pages
  <2> QED BY <1>4, <2>5, <2>6, <2>7
<1> QED BY <1>1, <1>2, <1>3, <1>4 DEF HomePage

-----------------------------------------------------------------------------
(* The calls of each action.                                               *)

LEMMA CallsStep ==
  ASSUME CallsTyped, Pages, Next PROVE CallsTyped'
<1> USE ShellAssumption
<1>1. CASE Restart
  BY <1>1, StartCall DEF Restart, CallsTyped
<1>2. CASE TapLogin
  <2>1. PICK who \in Account : Ask("signIn", who, FALSE)
    BY <1>2 DEF TapLogin
  <2> QED BY <2>1, AskTyped
<1>3. CASE TapRegister
  <2>1. PICK who \in Account : Ask("create", who, TRUE)
    BY <1>3 DEF TapRegister
  <2> QED BY <2>1, AskTyped
<1>4. CASE TapLogout
  BY <1>4, AskTyped DEF TapLogout
<1>5. CASE OpenRegister
  BY <1>5 DEF OpenRegister, CallsTyped
<1>6. CASE CloseRegister
  <2>1. /\ authq' \in Seq(Call) /\ Len(authq') = Len(authq)
    BY <1>6, AbandonedQueue DEF CloseRegister, CallsTyped
  <2>2. /\ answers' \in Seq(Reply) /\ Len(answers') = Len(answers)
    BY <1>6, AbandonedAnswers DEF CloseRegister, CallsTyped
  <2> QED BY <1>6, <2>1, <2>2 DEF CloseRegister, CallsTyped
<1>7. CASE Serve
  BY <1>7, ServeTyped
<1>8. CASE AuthAnswered
  <2>1. \E op : Answered(op)
    BY <1>8 DEF AuthAnswered, CurrentUserAnswered, SignInAnswered,
                CreateAnswered, SignOutAnswered, Failed
  <2> QED BY <2>1, AnsweredTyped
<1>9. CASE HomePage
  <2>1. UNCHANGED <<account, authq, answers>>
    BY <1>9 DEF HomePage, SelectTab, TapCompare, TapReset, CompareAnswered,
                CompareFailed
  <2> QED BY <2>1 DEF CallsTyped
<1> QED
  BY <1>1, <1>2, <1>3, <1>4, <1>5, <1>6, <1>7, <1>8, <1>9 DEF Next, Session

LEMMA PagesStep ==
  ASSUME Pages, Next PROVE Pages'
<1>0. registering \in BOOLEAN
  BY Zenon DEF Pages, PagesTyped
<1>1. CASE Restart
  BY <1>1, RestartPages
<1>2. CASE TapLogin \/ TapRegister \/ TapLogout \/ Serve
  <2>1. UNCHANGED <<authStatus, registering, pageVars>>
    BY <1>2, Zenon DEF TapLogin, TapRegister, TapLogout, Serve, Ask
  <2>2. registering' \in BOOLEAN
    BY <1>0, <2>1, Zenon
  <2> QED BY <2>1, <2>2, StillPages
<1>3. CASE OpenRegister \/ CloseRegister
  <2>1. UNCHANGED <<authStatus, pageVars>>
    BY <1>3, Zenon DEF OpenRegister, CloseRegister
  <2>2. registering' \in BOOLEAN
    BY <1>3, Zenon DEF OpenRegister, CloseRegister
  <2> QED BY <2>1, <2>2, StillPages
<1>4. CASE AuthAnswered
  BY <1>4, AnsweredPages
<1>5. CASE HomePage
  BY <1>5, HomePageStep
<1> QED BY <1>1, <1>2, <1>3, <1>4, <1>5 DEF Next, Session

LEMMA Stuttering ==
  ASSUME IInv, UNCHANGED vars PROVE IInv'
<1>1. /\ account' = account /\ authq' = authq /\ answers' = answers
      /\ authStatus' = authStatus /\ registering' = registering
      /\ UNCHANGED pageVars
  BY DEF vars
<1>2. CallsTyped'
  BY <1>1 DEF IInv, CallsTyped
<1>3. registering' \in BOOLEAN
  BY <1>1, Zenon DEF IInv, PagesTyped
<1>4. Pages'
  BY <1>1, <1>3, StillPages DEF IInv, Pages
<1> QED BY <1>2, <1>4 DEF IInv, Pages

\* What every call, answer and tap of splash.dart, login.dart, register.dart and
\* home_page.dart keeps.
THEOREM Invariance == Spec => []IInv
<1>1. IInv /\ [Next]_vars => IInv'
  <2>1. ASSUME IInv, Next PROVE IInv'
    BY <2>1, CallsStep, PagesStep DEF IInv, Pages
  <2>2. ASSUME IInv, UNCHANGED vars PROVE IInv'
    BY <2>2, Stuttering
  <2> QED BY <2>1, <2>2
<1> QED BY <1>1, Started, PTL DEF Spec

\* The variables keep their types and the calls their bound (the session of
\* splash.dart and the pages of home_page.dart).
THEOREM TypeCorrect == Spec => []TypeOK
<1>1. IInv => TypeOK
  BY Zenon DEF IInv, CallsTyped, PagesTyped, Counted, TypeOK
<1> QED BY <1>1, Invariance, PTL

\* A comparison is shown only on the home page that asked for it (the callback
\* that home_page.dart gives to the price page).
THEOREM ComparisonIsOwn == Spec => []OwnComparison
<1>1. IInv => OwnComparison
  BY DEF IInv, PagesOwned, OwnComparison
<1> QED BY <1>1, Invariance, PTL

\* The first home page of a run always has a body (checkCompare and the static
\* index of home_page.dart).
THEOREM FirstHomeIsWhole == Spec => []FirstHomeHasBody
<1>1. IInv => FirstHomeHasBody
  <2> SUFFICES ASSUME IInv, HomeShown, home = 1 PROVE Body # "null"
    BY DEF FirstHomeHasBody
  <2>1. currentIndex \in 0 .. 3 /\ (currentIndex = 3 => page3 # 0)
    BY DEF IInv, PagesTyped, PagesOwned
  <2> QED BY <2>1 DEF Body, CompareIndex
<1> QED BY <1>1, Invariance, PTL

-----------------------------------------------------------------------------
(* The session.                                                            *)

\* Who a call makes the user, and that reading the user cannot fail.
Meant(call) ==
  /\ call.op = "signOut" => call.who = NoOne
  /\ call.op \in {"signIn", "create"} => call.who \in Account

AllMeant ==
  /\ \A n \in 1 .. Len(authq) : Meant(authq[n])
  /\ \A n \in 1 .. Len(answers) :
       /\ Meant(answers[n].call)
       /\ answers[n].call.op = "currentUser" => answers[n].ok

\* The answer that the screen will follow in the end is the last that is ok.
LastWord(n) ==
  answers[n].ok /\ \A k \in n + 1 .. Len(answers) : ~ answers[k].ok

Waiting ==
  authStatus = "Pending" /\ Len(authq) > 0 /\ authq[1].op = "currentUser"

\* That answer names the one who is signed in; without one, the screen agrees
\* already, unless the start of the app is still asking.
Followed ==
  /\ \A n \in 1 .. Len(answers) : LastWord(n) => answers[n].call.who = account
  /\ (\A n \in 1 .. Len(answers) : ~ answers[n].ok) =>
       Waiting \/ authStatus = StatusOf(account)

SessionIInv == AllMeant /\ Followed

LEMMA SessionStarted == Init => SessionIInv
<1> SUFFICES ASSUME Init PROVE SessionIInv
  OBVIOUS
<1>1. authq = <<[op |-> "currentUser", who |-> NoOne, page |-> FALSE]>>
      /\ answers = <<>> /\ authStatus = "Pending"
  BY DEF Init, Starting
<1>2. Len(authq) = 1 /\ authq[1].op = "currentUser" /\ Len(answers) = 0
  BY <1>1
<1>3. AllMeant
  BY <1>2 DEF AllMeant, Meant
<1>4. Followed
  BY <1>1, <1>2 DEF Followed, Waiting
<1> QED BY <1>3, <1>4 DEF SessionIInv

LEMMA RestartFollowed == ASSUME Restart PROVE SessionIInv'
<1>1. authq' = <<[op |-> "currentUser", who |-> NoOne, page |-> FALSE]>>
      /\ answers' = <<>> /\ authStatus' = "Pending"
  BY DEF Restart, Starting
<1>2. Len(authq') = 1 /\ authq'[1].op = "currentUser" /\ Len(answers') = 0
  BY <1>1
<1>3. AllMeant'
  BY <1>2 DEF AllMeant, Meant
<1>4. Followed'
  BY <1>1, <1>2 DEF Followed, Waiting
<1> QED BY <1>3, <1>4 DEF SessionIInv

\* A call that is made changes nothing of what has been answered.
LEMMA AskFollowed ==
  ASSUME CallsTyped, SessionIInv,
         NEW op \in {"signOut", "signIn", "create"}, NEW who, NEW page,
         Ask(op, who, page),
         op = "signOut" => who = NoOne,
         op \in {"signIn", "create"} => who \in Account
  PROVE  SessionIInv'
<1> DEFINE call == [op |-> op, who |-> who, page |-> page]
<1>1. /\ authq' = Append(authq, call)
      /\ answers' = answers /\ account' = account /\ authStatus' = authStatus
  BY DEF Ask
<1>2. Len(authq) \in Nat
  BY DEF CallsTyped
<1>3. /\ Len(authq') = Len(authq) + 1
      /\ authq'[Len(authq) + 1] = call
      /\ \A n \in 1 .. Len(authq) : authq'[n] = authq[n]
  BY <1>1, AppendProperties DEF CallsTyped
<1>4. Meant(call)
  BY DEF Meant
<1>5. \A n \in 1 .. Len(authq') : n \in 1 .. Len(authq) \/ n = Len(authq) + 1
  BY <1>2, <1>3
<1>6. \A n \in 1 .. Len(authq') : Meant(authq'[n])
  BY <1>3, <1>4, <1>5 DEF SessionIInv, AllMeant
<1>7. AllMeant'
  BY <1>1, <1>6 DEF SessionIInv, AllMeant, Meant
<1>8. Waiting => Waiting'
  BY <1>1, <1>2, <1>3 DEF Waiting
<1>9. Followed'
  BY <1>1, <1>8 DEF SessionIInv, Followed, LastWord
<1> QED BY <1>7, <1>9 DEF SessionIInv

\* Back changes neither what is called nor what is answered.
LEMMA CloseFollowed ==
  ASSUME CallsTyped, SessionIInv, CloseRegister PROVE SessionIInv'
<1>1. /\ authq' = [n \in DOMAIN authq |-> Abandoned(authq[n])]
      /\ answers' = [n \in DOMAIN answers |->
                       [call |-> Abandoned(answers[n].call), ok |-> answers[n].ok]]
      /\ account' = account /\ authStatus' = authStatus
  BY DEF CloseRegister
<1>2. /\ Len(authq') = Len(authq) /\ Len(answers') = Len(answers)
  BY <1>1, AbandonedQueue, AbandonedAnswers DEF CallsTyped
<1>3. /\ DOMAIN authq = 1 .. Len(authq) /\ DOMAIN answers = 1 .. Len(answers)
      /\ Len(authq) \in Nat /\ Len(answers) \in Nat
  BY DEF CallsTyped
<1>4. \A n \in 1 .. Len(authq) :
        authq'[n].op = authq[n].op /\ authq'[n].who = authq[n].who
  BY <1>1, <1>3 DEF Abandoned
<1>5. \A n \in 1 .. Len(answers) :
        /\ answers'[n].call.op = answers[n].call.op
        /\ answers'[n].call.who = answers[n].call.who
        /\ answers'[n].ok = answers[n].ok
  BY <1>1, <1>3 DEF Abandoned
<1>6. AllMeant'
  BY <1>2, <1>4, <1>5 DEF SessionIInv, AllMeant, Meant
<1>7. Waiting => Waiting'
  BY <1>1, <1>2, <1>3, <1>4 DEF Waiting
<1>8. ASSUME NEW n \in 1 .. Len(answers) PROVE LastWord(n)' => LastWord(n)
  <2>1. \A k \in n + 1 .. Len(answers) : k \in 1 .. Len(answers)
    BY <1>3
  <2> QED BY <1>2, <1>5, <2>1 DEF LastWord
<1>9. Followed'
  BY <1>1, <1>2, <1>5, <1>7, <1>8 DEF SessionIInv, Followed
<1> QED BY <1>6, <1>9 DEF SessionIInv

\* The answer to a call is the last word if it is ok, and then it names the one
\* who is signed in from now on.
LEMMA ServeFollowed ==
  ASSUME CallsTyped, SessionIInv, Serve PROVE SessionIInv'
<1> DEFINE L == Len(answers)
<1>1. PICK n \in 1 .. Len(authq), who \in Account \cup {NoOne}, ok \in BOOLEAN :
        ServedAt(n, who, ok) /\ (authq[n].op = "currentUser" => ok)
  BY Served, Zenon
<1> DEFINE reply == [call |-> [op |-> authq[n].op, who |-> who, page |-> authq[n].page],
                     ok |-> ok]
<1>2. /\ authStatus' = authStatus /\ authq' = RemoveAt(authq, n)
      /\ account' = IF ok THEN who ELSE account
      /\ answers' = Append(answers, reply)
  BY <1>1 DEF Serve, ServedAt
<1>3. /\ Len(authq) \in Nat \ {0} /\ L \in Nat /\ Len(authq') = Len(authq) - 1
      /\ \A j \in 1 .. Len(authq) - 1 :
           authq'[j] = IF j < n THEN authq[j] ELSE authq[j + 1]
  <2>1. authq \in Seq(Call) /\ answers \in Seq(Reply)
    BY DEF CallsTyped
  <2>2. Len(authq) \in Nat \ {0} /\ L \in Nat
    BY <2>1
  <2>3. /\ Len(RemoveAt(authq, n)) = Len(authq) - 1
        /\ \A j \in 1 .. Len(authq) - 1 :
             RemoveAt(authq, n)[j] = IF j < n THEN authq[j] ELSE authq[j + 1]
    BY <2>1, Removed
  <2> QED BY <1>2, <2>2, <2>3
<1>4. /\ Len(answers') = L + 1 /\ answers'[L + 1] = reply
      /\ \A j \in 1 .. L : answers'[j] = answers[j]
  BY <1>2, AppendProperties DEF CallsTyped
<1>5. reply.call.op = authq[n].op /\ reply.call.who = who
  OBVIOUS
<1>6. authq[n].op = "currentUser" => ok
  BY <1>1
<1>7. Meant(authq[n])
  BY DEF SessionIInv, AllMeant
<1>8. Meant(reply.call)
  <2>1. authq[n].op # "currentUser" => who = authq[n].who
    BY <1>1 DEF ServedAt
  <2> QED BY <1>5, <1>7, <2>1 DEF Meant
<1>9. AllMeant'
  <2>1. \A j \in 1 .. Len(authq') : Meant(authq'[j])
    <3>1. ASSUME NEW j \in 1 .. Len(authq) - 1 PROVE Meant(authq'[j])
      <4>1. j \in 1 .. Len(authq) /\ j + 1 \in 1 .. Len(authq)
        BY <1>3
      <4>2. Meant(authq[j]) /\ Meant(authq[j + 1])
        BY <4>1 DEF SessionIInv, AllMeant
      <4>3. authq'[j] = authq[j] \/ authq'[j] = authq[j + 1]
        BY <1>3
      <4> QED BY <4>2, <4>3
    <3> QED BY <1>3, <3>1
  <2>2. \A j \in 1 .. L + 1 : j \in 1 .. L \/ j = L + 1
    <3>1. L \in Nat
      BY <1>3
    <3> QED BY <3>1
  <2>3. reply.ok <=> ok
    BY Zenon
  <2>4. \A j \in 1 .. L + 1 : Meant(answers'[j].call)
    BY <1>4, <1>8, <2>2 DEF SessionIInv, AllMeant
  <2>5. reply.call.op = "currentUser" => reply.ok
    BY <1>5, <1>6, <2>3, Zenon
  <2>6. \A j \in 1 .. L + 1 : answers'[j].call.op = "currentUser" => answers'[j].ok
    BY <1>4, <2>2, <2>5 DEF SessionIInv, AllMeant
  <2> QED BY <1>4, <2>1, <2>4, <2>6 DEF AllMeant, Meant
<1>10. CASE ok
  <2>0. reply.ok
    BY <1>10, Zenon
  <2>1. account' = who /\ answers'[L + 1].call.who = who /\ answers'[L + 1].ok
    <3>1. answers'[L + 1].call.who = who
      BY <1>4, <1>5
    <3>2. answers'[L + 1].ok
      BY <1>4, <2>0, Zenon
    <3>3. account' = who
      BY <1>2, <1>10, Zenon
    <3> QED BY <3>1, <3>2, <3>3, Zenon
  <2>2. ASSUME NEW j \in 1 .. Len(answers'), LastWord(j)' PROVE j = L + 1
    <3>1. \A k \in j + 1 .. L + 1 : ~ answers'[k].ok
      BY <1>4, <2>2 DEF LastWord
    <3> QED BY <1>3, <1>4, <2>1, <3>1
  <2>3. L + 1 \in 1 .. Len(answers')
    BY <1>3, <1>4
  <2> QED BY <1>9, <2>1, <2>2, <2>3 DEF SessionIInv, Followed
<1>11. CASE ~ ok
  <2>0. ~ reply.ok
    BY <1>11, Zenon
  <2>1. account' = account /\ ~ answers'[L + 1].ok
    <3>1. ~ answers'[L + 1].ok
      BY <1>4, <2>0, Zenon
    <3>2. account' = account
      BY <1>2, <1>11, Zenon
    <3> QED BY <3>1, <3>2, Zenon
  <2>2. authq[n].op # "currentUser"
    BY <1>6, <1>11
  <2>3. ASSUME NEW j \in 1 .. Len(answers'), LastWord(j)'
        PROVE  j \in 1 .. L /\ LastWord(j)
    <3>1. answers'[j].ok /\ \A k \in j + 1 .. L + 1 : ~ answers'[k].ok
      BY <1>4, <2>3 DEF LastWord
    <3>2. j \in 1 .. L
      BY <1>3, <1>4, <2>1, <3>1
    <3>3. \A k \in j + 1 .. L : k \in 1 .. L /\ k \in j + 1 .. L + 1
      BY <1>3, <3>2
    <3> QED BY <1>4, <3>1, <3>2, <3>3 DEF LastWord
  <2>4. ~ Waiting
    <3>1. 1 < n => 1 \in 1 .. n - 1
      OBVIOUS
    <3>2. 1 < n => authq[1].op \in {"signIn", "create"}
      BY <1>1, <3>1 DEF ServedAt, Enters
    <3> QED BY <2>2, <3>2 DEF Waiting
  <2>5. (\A j \in 1 .. L + 1 : ~ answers'[j].ok) => \A j \in 1 .. L : ~ answers[j].ok
    BY <1>3, <1>4
  <2>6. Followed'
    <3>1. authStatus' = authStatus
      BY <1>2
    <3> QED BY <1>4, <2>1, <2>3, <2>4, <2>5, <3>1 DEF SessionIInv, Followed
  <2> QED BY <1>9, <2>6 DEF SessionIInv
<1> QED BY <1>10, <1>11

\* What an answer makes of the screen.
LEMMA ScreenFollows ==
  ASSUME CallsTyped, SessionIInv, AuthAnswered
  PROVE  /\ answers # <<>> /\ answers' = Tail(answers)
         /\ account' = account /\ authq' = authq
         /\ authStatus' = IF answers[1].ok THEN StatusOf(answers[1].call.who)
                          ELSE authStatus
<1>1. answers # <<>> /\ answers' = Tail(answers)
      /\ account' = account /\ authq' = authq
  BY DEF AuthAnswered, CurrentUserAnswered, SignInAnswered, CreateAnswered,
         SignOutAnswered, Failed, Answered
<1>2. Head(answers) = answers[1] /\ 1 \in 1 .. Len(answers)
  BY <1>1 DEF CallsTyped
<1>3. /\ Meant(answers[1].call)
      /\ answers[1].call.op = "currentUser" => answers[1].ok
  BY <1>2 DEF SessionIInv, AllMeant
<1>4. CASE CurrentUserAnswered
  <2>1. answers[1].ok
    BY <1>2, <1>3, <1>4 DEF CurrentUserAnswered, Answered
  <2>2. authStatus' = StatusOf(answers[1].call.who)
    BY <1>2, <1>4 DEF CurrentUserAnswered, SignedIn
  <2> QED BY <1>1, <2>1, <2>2
<1>5. CASE SignInAnswered \/ CreateAnswered
  <2>1. answers[1].ok /\ authStatus' = "Logged_in"
    BY <1>2, <1>5 DEF SignInAnswered, CreateAnswered, SignedIn
  <2>2. answers[1].call.op \in {"signIn", "create"}
    BY <1>2, <1>5 DEF SignInAnswered, CreateAnswered, Answered
  <2>3. StatusOf(answers[1].call.who) = "Logged_in"
    BY <1>3, <2>2, ShellAssumption DEF Meant, StatusOf
  <2> QED BY <1>1, <2>1, <2>3
<1>6. CASE SignOutAnswered
  <2>1. answers[1].ok /\ authStatus' = "Not_Logged_in"
    BY <1>2, <1>6 DEF SignOutAnswered, Leaves
  <2>2. answers[1].call.op = "signOut"
    BY <1>2, <1>6 DEF SignOutAnswered, Answered
  <2>3. StatusOf(answers[1].call.who) = "Not_Logged_in"
    BY <1>3, <2>2 DEF Meant, StatusOf
  <2> QED BY <1>1, <2>1, <2>3
<1>7. CASE \E op \in {"signIn", "create", "signOut"} : Failed(op)
  <2>1. ~ answers[1].ok /\ authStatus' = authStatus
    BY <1>2, <1>7 DEF Failed
  <2> QED BY <1>1, <2>1
<1> QED BY <1>4, <1>5, <1>6, <1>7 DEF AuthAnswered

LEMMA AnsweredFollowed ==
  ASSUME CallsTyped, SessionIInv, AuthAnswered PROVE SessionIInv'
<1> DEFINE L == Len(answers)
<1>1. /\ answers # <<>> /\ answers' = Tail(answers)
      /\ account' = account /\ authq' = authq
      /\ authStatus' = IF answers[1].ok THEN StatusOf(answers[1].call.who)
                       ELSE authStatus
  BY ScreenFollows
<1>2. /\ L \in Nat \ {0} /\ Len(answers') = L - 1
      /\ \A n \in 1 .. L - 1 : answers'[n] = answers[n + 1]
  BY <1>1, HeadTailProperties DEF CallsTyped
<1>3. \A n \in 1 .. L - 1 : n + 1 \in 1 .. L
  BY <1>2
<1>4. AllMeant'
  BY <1>1, <1>2, <1>3 DEF SessionIInv, AllMeant, Meant
<1>5. ASSUME NEW n \in 1 .. Len(answers'), LastWord(n)'
      PROVE  answers'[n].call.who = account'
  <2>1. answers[n + 1].ok /\ \A k \in n + 1 .. L - 1 : ~ answers[k + 1].ok
    BY <1>2, <1>5 DEF LastWord
  <2>2. \A k \in n + 1 + 1 .. L : k - 1 \in n + 1 .. L - 1 /\ (k - 1) + 1 = k
    BY <1>2
  <2>3. LastWord(n + 1)
    BY <2>1, <2>2 DEF LastWord
  <2> QED BY <1>1, <1>2, <1>3, <2>3 DEF SessionIInv, Followed
<1>6. ASSUME \A n \in 1 .. Len(answers') : ~ answers'[n].ok
      PROVE  (Waiting \/ authStatus = StatusOf(account))'
  <2>1. \A k \in 2 .. L : ~ answers[k].ok
    <3>1. \A k \in 2 .. L : k - 1 \in 1 .. L - 1 /\ (k - 1) + 1 = k
      BY <1>2
    <3> QED BY <1>2, <1>6, <3>1
  <2>2. CASE answers[1].ok
    <3>1. LastWord(1) /\ 1 \in 1 .. L
      BY <1>2, <2>1, <2>2 DEF LastWord
    <3>2. answers[1].call.who = account
      BY <3>1 DEF SessionIInv, Followed
    <3> QED BY <1>1, <2>2, <3>2
  <2>3. CASE ~ answers[1].ok
    <3>1. \A n \in 1 .. L : n = 1 \/ n \in 2 .. L
      BY <1>2
    <3>2. Waiting \/ authStatus = StatusOf(account)
      BY <2>1, <2>3, <3>1 DEF SessionIInv, Followed
    <3> QED BY <1>1, <2>3, <3>2 DEF Waiting
  <2> QED BY <2>2, <2>3
<1> QED BY <1>4, <1>5, <1>6 DEF SessionIInv, Followed

LEMMA SessionStep ==
  ASSUME CallsTyped, SessionIInv, [Next]_vars PROVE SessionIInv'
<1>1. CASE Restart
  BY <1>1, RestartFollowed
<1>2. CASE TapLogin
  <2>1. PICK who \in Account : Ask("signIn", who, FALSE)
    BY <1>2 DEF TapLogin
  <2> QED BY <2>1, AskFollowed
<1>3. CASE TapRegister
  <2>1. PICK who \in Account : Ask("create", who, TRUE)
    BY <1>3 DEF TapRegister
  <2> QED BY <2>1, AskFollowed
<1>4. CASE TapLogout
  <2>1. Ask("signOut", NoOne, FALSE)
    BY <1>4 DEF TapLogout
  <2> QED BY <2>1, AskFollowed
<1>5. CASE CloseRegister
  BY <1>5, CloseFollowed
<1>6. CASE Serve
  BY <1>6, ServeFollowed
<1>7. CASE AuthAnswered
  BY <1>7, AnsweredFollowed
<1>8. CASE OpenRegister \/ HomePage \/ UNCHANGED vars
  <2>1. UNCHANGED <<account, authq, answers, authStatus>>
    BY <1>8, Zenon DEF OpenRegister, HomePage, SelectTab, TapCompare, TapReset,
                       CompareAnswered, CompareFailed, vars
  <2> QED BY <2>1 DEF SessionIInv, AllMeant, Meant, Followed, LastWord, Waiting
<1> QED
  BY <1>1, <1>2, <1>3, <1>4, <1>5, <1>6, <1>7, <1>8 DEF Next, Session

\* When every call to Firebase Auth has been answered, the splash page shows a
\* home page exactly when somebody is signed in (splash.dart, login.dart).
THEOREM SessionFollowed == Spec => []SessionMatches
<1>1. IInv /\ SessionIInv /\ [Next]_vars => SessionIInv'
  BY SessionStep DEF IInv
<1>2. IInv /\ SessionIInv => SessionMatches
  <2> SUFFICES ASSUME IInv, SessionIInv, authq = <<>>, answers = <<>>
               PROVE  /\ authStatus # "Pending"
                      /\ authStatus = "Logged_in" <=> account # NoOne
    BY DEF SessionMatches
  <2>1. authStatus = StatusOf(account)
    BY DEF SessionIInv, Followed, Waiting
  <2> QED BY <2>1 DEF StatusOf
<1> QED BY <1>1, <1>2, Invariance, SessionStarted, PTL DEF Spec
=============================================================================
