------------------------- MODULE AccountListProofs --------------------------
(***************************************************************************)
(* Whose list the grocery list page writes, for every set of accounts, and *)
(* the logins under way that it rests on.                                  *)
(***************************************************************************)
EXTENDS AccountList, AppShellProofs

LEMMA ShellStep == [AccountListNext]_allVars => [Next]_vars
<1>1. CASE EnterTap
  BY <1>1, Zenon DEF EnterTap, Next, Session
<1>2. CASE OtherTap
  <2>1. CASE TapLogout \/ OpenRegister \/ CloseRegister
    BY <2>1, Zenon DEF Next, Session
  <2>2. CASE TapCompare \/ TapReset \/ \E index \in 0 .. 2 : SelectTab(index)
    BY <2>2, Zenon DEF Next, HomePage
  <2> QED BY <1>2, <2>1, <2>2, Zenon DEF OtherTap
<1>3. CASE Arrival
  <2>1. CASE Serve \/ AuthAnswered
    BY <2>1, Zenon DEF Next, Session
  <2>2. CASE \E h \in 1 .. MaxHomes : CompareAnswered(h) \/ CompareFailed(h)
    BY <2>2, Zenon DEF Next, HomePage
  <2> QED BY <1>3, <2>1, <2>2, Zenon DEF Arrival
<1>4. CASE AppRestart
  BY <1>4, Zenon DEF AppRestart, Next, Session
<1>5. CASE UidServed \/ UidArrives \/ GetAnswered \/ VoidAnswered \/ SetLands
  BY <1>5, Zenon DEF UidServed, UidArrives, GetAnswered, VoidAnswered, SetLands
<1>6. CASE OpenSearch \/ CloseSearch \/ AddItem \/ RemoveItem
  BY <1>6, Zenon DEF OpenSearch, CloseSearch, AddItem, RemoveItem, SendWrite
<1>7. CASE UNCHANGED allVars
  BY <1>7 DEF allVars
<1> QED
  BY <1>1, <1>2, <1>3, <1>4, <1>5, <1>6, <1>7, Zenon DEF AccountListNext

\* The pages of the app behave as AppShell says, whatever is done on the list
\* page and the search page over it (home_page.dart, list.dart).
THEOREM ImplementsShell == AccountListSpec => Spec
<1>1. AccountListInit => Init
  BY DEF AccountListInit
<1> QED BY <1>1, ShellStep, PTL DEF AccountListSpec, Spec

-----------------------------------------------------------------------------
(***************************************************************************)
(* Types.                                                                  *)
(***************************************************************************)

ListTyped ==
  /\ uid \in Account \cup {NoOne, Blank}
  /\ items \subseteq Account
  /\ asking \in Seq(Account \cup {NoOne, Blank})
  /\ link \in Seq(DbCall)
  /\ stored \in [Account -> SUBSET Account]

Flags == searching \in BOOLEAN /\ hurried \in BOOLEAN

LEMMA SetCall ==
  ASSUME NEW of \in Account \cup {Blank}, NEW list \in SUBSET Account
  PROVE  [op |-> "set", of |-> of, list |-> list] \in DbCall
  BY DEF DbCall

LEMMA GetCall ==
  ASSUME NEW of \in Account \cup {NoOne}
  PROVE  [op |-> "get", of |-> of] \in DbCall
  BY DEF DbCall

LEMMA VoidCall == [op |-> "void"] \in DbCall
  BY DEF DbCall

LEMMA DbCallKinds ==
  ASSUME NEW call \in DbCall
  PROVE  /\ call.op \in {"set", "get", "void"}
         /\ IsSet(call) => call.of \in Account \cup {Blank} /\ call.list \subseteq Account
         /\ call.op = "get" => call.of \in Account \cup {NoOne}
  BY DEF DbCall, IsSet

\* What a page that is gone leaves behind: its writes, where they are in line.
LEMMA Left ==
  ASSUME link \in Seq(DbCall)
  PROVE  /\ LeftBehind(link) \in Seq(DbCall)
         /\ Len(LeftBehind(link)) = Len(link)
         /\ \A n \in 1 .. Len(link) :
              IF IsSet(link[n]) THEN LeftBehind(link)[n] = link[n]
              ELSE LeftBehind(link)[n] = [op |-> "void"]
<1> DEFINE r == [n \in DOMAIN link |-> IF IsSet(link[n]) THEN link[n] ELSE [op |-> "void"]]
<1>1. Len(link) \in Nat /\ DOMAIN link = 1 .. Len(link)
  OBVIOUS
<1>2. \A n \in 1 .. Len(link) : r[n] = IF IsSet(link[n]) THEN link[n] ELSE [op |-> "void"]
  BY <1>1
<1>3. \A n \in 1 .. Len(link) : link[n] \in DbCall
  OBVIOUS
<1>4. \A n \in 1 .. Len(link) : r[n] \in DbCall
  BY <1>2, <1>3, VoidCall
<1>5. r \in Seq(DbCall)
  BY <1>1, <1>4, IsASeq
<1>6. Len(r) = Len(link)
  BY <1>1, <1>5, LenProperties
<1> QED BY <1>2, <1>5, <1>6 DEF LeftBehind

LEMMA FollowsTyped ==
  ASSUME ListTyped, PageFollows, stored' = stored PROVE ListTyped'
<1>1. CASE UNCHANGED <<uid, items, asking, link>>
  BY <1>1 DEF ListTyped
<1>2. CASE Fresh(<<Blank>>) /\ link' = LeftBehind(link)
  <2>1. <<Blank>> \in Seq(Account \cup {NoOne, Blank})
    OBVIOUS
  <2> QED BY <1>2, <2>1, Left DEF ListTyped, Fresh
<1>3. CASE Fresh(<<>>) /\ link' = LeftBehind(link)
  BY <1>3, Left DEF ListTyped, Fresh
<1> QED BY <1>1, <1>2, <1>3, Zenon DEF PageFollows

LEMMA LinkTail ==
  ASSUME link \in Seq(DbCall), link # <<>>
  PROVE  /\ Tail(link) \in Seq(DbCall) /\ Head(link) \in DbCall
         /\ Head(link) = link[1] /\ 1 \in 1 .. Len(link)
         /\ Len(Tail(link)) = Len(link) - 1 /\ Len(link) \in Nat \ {0}
         /\ \A n \in 1 .. Len(Tail(link)) :
              n + 1 \in 1 .. Len(link) /\ Tail(link)[n] = link[n + 1]
  BY HeadTailProperties

LEMMA TypesStep ==
  ASSUME account \in Account \cup {NoOne}, ListTyped, AccountListNext
  PROVE  ListTyped'
<1> DEFINE Who == Account \cup {NoOne, Blank}
<1>1. CASE EnterTap \/ OtherTap \/ Arrival
  <2>1. PageFollows /\ stored' = stored
    BY <1>1, Zenon DEF EnterTap, OtherTap, Arrival
  <2> QED BY <2>1, FollowsTyped
<1>2. CASE AppRestart
  BY <1>2 DEF AppRestart, Fresh, ListTyped
<1>3. CASE UidServed
  <2>1. PICK n \in DOMAIN asking : asking' = [asking EXCEPT ![n] = account]
    BY <1>3 DEF UidServed
  <2>2. asking' \in Seq(Who)
    BY <2>1, ExceptSeq DEF ListTyped
  <2> QED BY <1>3, <2>2 DEF UidServed, ListTyped
<1>4. CASE UidArrives
  <2>1. /\ asking # <<>> /\ Head(asking) # Blank /\ asking' = Tail(asking)
        /\ uid' = Head(asking)
        /\ link' = Append(link, [op |-> "get", of |-> Head(asking)])
        /\ items' = items /\ stored' = stored
    BY <1>4 DEF UidArrives, Read
  <2>2. Head(asking) \in Who /\ Tail(asking) \in Seq(Who)
    BY <2>1, HeadTailProperties DEF ListTyped
  <2>3. [op |-> "get", of |-> Head(asking)] \in DbCall
    BY <2>1, <2>2, GetCall
  <2>4. link' \in Seq(DbCall)
    BY <2>1, <2>3, AppendProperties DEF ListTyped
  <2> QED BY <2>1, <2>2, <2>4 DEF ListTyped
<1>5. CASE GetAnswered
  BY <1>5, LinkTail DEF GetAnswered, ListTyped
<1>6. CASE VoidAnswered
  BY <1>6, LinkTail DEF VoidAnswered, ListTyped
<1>7. CASE SetLands
  <2>1. link # <<>> /\ IsSet(Head(link)) /\ link' = Tail(link)
        /\ uid' = uid /\ items' = items /\ asking' = asking
    BY <1>7 DEF SetLands
  <2>2. Head(link).of \in Account \cup {Blank} /\ Head(link).list \subseteq Account
    BY <2>1, LinkTail, DbCallKinds DEF ListTyped
  <2>3. CASE Head(link).of = Blank
    <3>1. stored' \in {stored, [a \in Account |-> {}]}
      BY <1>7, <2>3 DEF SetLands
    <3> QED BY <2>1, <3>1, LinkTail DEF ListTyped
  <2>4. CASE Head(link).of # Blank
    <3>1. stored' = [stored EXCEPT ![Head(link).of] = Head(link).list]
      BY <1>7, <2>4 DEF SetLands
    <3> QED BY <2>1, <2>2, <3>1, LinkTail DEF ListTyped
  <2> QED BY <2>3, <2>4
<1>8. CASE OpenSearch
  BY <1>8 DEF OpenSearch, ListTyped
<1>9. CASE CloseSearch
  <2>1. CASE ListShown
    BY <1>9, <2>1 DEF CloseSearch, ListTyped
  <2>2. CASE ~ ListShown
    BY <1>9, <2>2, Left DEF CloseSearch, Fresh, ListTyped
  <2> QED BY <2>1, <2>2
<1>10. CASE AddItem \/ RemoveItem
  <2>1. PICK list \in SUBSET Account : SendWrite(list)
    <3>1. items \cup ({uid} \ {Blank}) \in SUBSET Account \/ uid = NoOne
      BY DEF ListTyped
    <3>2. items \in SUBSET Account
      BY DEF ListTyped
    <3> QED BY <1>10, <3>1, <3>2 DEF AddItem, RemoveItem, SendWrite
  <2>2. uid \in Account \cup {Blank}
    BY <2>1 DEF SendWrite, ListTyped
  <2>3. [op |-> "set", of |-> uid, list |-> list] \in DbCall
    BY <2>2, SetCall
  <2>4. link' \in Seq(DbCall)
    BY <2>1, <2>3, AppendProperties DEF SendWrite, ListTyped
  <2>5. asking' \in Seq(Who)
    BY <2>1, AppendProperties DEF SendWrite, ListTyped
  <2> QED BY <2>1, <2>4, <2>5 DEF SendWrite, ListTyped
<1> QED
  BY <1>1, <1>2, <1>3, <1>4, <1>5, <1>6, <1>7, <1>8, <1>9, <1>10
  DEF AccountListNext

LEMMA FlagsStep ==
  ASSUME Flags, AccountListNext PROVE Flags'
<1>1. searching' \in BOOLEAN
  BY Zenon DEF Flags, AccountListNext, EnterTap, OtherTap, Arrival, AppRestart,
     UidServed, UidArrives, GetAnswered, VoidAnswered, SetLands, OpenSearch,
     CloseSearch, AddItem, RemoveItem, SendWrite
<1>2. hurried' \in {hurried, hurried \/ Hurries}
  BY Zenon DEF AccountListNext, EnterTap, OtherTap, Arrival, AppRestart,
     UidServed, UidArrives, GetAnswered, VoidAnswered, SetLands, OpenSearch,
     CloseSearch, AddItem, RemoveItem, SendWrite
<1>3. (hurried \/ Hurries) \in BOOLEAN
  BY Zenon
<1>4. hurried' \in BOOLEAN
  BY <1>2, <1>3, Zenon DEF Flags
<1> QED BY <1>1, <1>4 DEF Flags

TypesIInv == IInv /\ ListTyped /\ Flags

LEMMA TypesStart == AccountListInit => TypesIInv
<1> SUFFICES ASSUME AccountListInit PROVE TypesIInv
  OBVIOUS
<1>1. IInv
  BY Started DEF AccountListInit
<1>2. ListTyped
  BY DEF AccountListInit, NoPage, ListTyped
<1>3. Flags
  BY Zenon DEF AccountListInit, Flags
<1> QED BY <1>1, <1>2, <1>3 DEF TypesIInv

LEMMA TypesKept ==
  ASSUME TypesIInv, [AccountListNext]_allVars PROVE TypesIInv'
<1>1. IInv'
  <2>1. CASE Next
    BY <2>1, CallsStep, PagesStep DEF TypesIInv, IInv, Pages
  <2>2. CASE UNCHANGED vars
    BY <2>2, Stuttering DEF TypesIInv
  <2> QED BY ShellStep, <2>1, <2>2
<1>2. ListTyped'
  <2>1. CASE AccountListNext
    BY <2>1, TypesStep DEF TypesIInv, IInv, CallsTyped
  <2>2. CASE UNCHANGED allVars
    BY <2>2 DEF allVars, listVars, TypesIInv, ListTyped
  <2> QED BY <2>1, <2>2
<1>3. Flags'
  <2>1. CASE AccountListNext
    BY <2>1, FlagsStep DEF TypesIInv
  <2>2. CASE UNCHANGED allVars
    BY <2>2, Zenon DEF allVars, listVars, TypesIInv, Flags
  <2> QED BY <2>1, <2>2
<1> QED BY <1>1, <1>2, <1>3 DEF TypesIInv

LEMMA TypesHold == AccountListSpec => []TypesIInv
  BY TypesStart, TypesKept, PTL DEF AccountListSpec

\* The fields of the list page keep their types beside those of the shell, and
\* no list of any page goes to an account that there is not (list.dart).
THEOREM AccountListTypes == AccountListSpec => []AccountListTypeOK
<1>1. TypesIInv => TypeOK
  BY Zenon DEF TypesIInv, IInv, CallsTyped, PagesTyped, Counted, TypeOK
<1>2. TypesIInv => AccountListTypeOK
  BY <1>1, Zenon DEF TypesIInv, ListTyped, Flags, AccountListTypeOK
<1> QED BY <1>2, TypesHold, PTL

-----------------------------------------------------------------------------
(***************************************************************************)
(* The calls to Firebase Auth.                                             *)
(***************************************************************************)

\* The calls under way, those that are answered first.
Under == Len(answers) + Len(authq)

OpAt(n) ==
  IF n <= Len(answers) THEN answers[n].call.op ELSE authq[n - Len(answers)].op

EnterOps == {"signIn", "create"}

NoneIs(ops) == \A n \in 1 .. Under : OpAt(n) \notin ops

OneEnter ==
  \A k, n \in 1 .. Under : OpAt(k) \in EnterOps /\ OpAt(n) \in EnterOps => k = n

\* While the app starts it asks for the user and for nothing else.
StartAlone ==
  /\ authStatus = "Pending" =>
       Under = 1 /\ OpAt(1) = "currentUser" /\ ~ registering /\ ~ searching
  /\ authStatus # "Pending" => NoneIs({"currentUser"})

\* Without hurry, one login at a time, and none while a home page is shown or a
\* search page covers the login page, where nobody can ask for one.
Calm ==
  ~ hurried =>
    /\ HomeShown \/ searching => NoneIs(EnterOps)
    /\ OneEnter

LoginAlone == StartAlone /\ Calm

\* After a step that neither makes nor answers a call, the calls under way are
\* those of before, one by one, f[n] having come to n.
Moved(f) ==
  /\ Under' = Under
  /\ f \in [1 .. Under -> 1 .. Under]
  /\ \A k, n \in 1 .. Under : f[k] = f[n] => k = n
  /\ \A n \in 1 .. Under : OpAt(n)' = OpAt(f[n])

OpsKept == \E f : Moved(f)

LEMMA Counts ==
  ASSUME CallsTyped
  PROVE  Len(authq) \in Nat /\ Len(answers) \in Nat /\ Under \in Nat
  BY DEF CallsTyped, Under

LEMMA OpsInPlace ==
  ASSUME Under' = Under, \A n \in 1 .. Under : OpAt(n)' = OpAt(n) PROVE OpsKept
<1>1. Moved([n \in 1 .. Under |-> n])
  BY DEF Moved
<1> QED BY <1>1 DEF OpsKept

LEMMA OpsStill ==
  ASSUME UNCHANGED <<authq, answers>> PROVE OpsKept
<1>1. Under' = Under /\ \A n \in 1 .. Under : OpAt(n)' = OpAt(n)
  BY DEF Under, OpAt
<1> QED BY <1>1, OpsInPlace

LEMMA OpsAsk ==
  ASSUME CallsTyped, NEW op, NEW who, NEW page, Ask(op, who, page)
  PROVE  /\ Under' = Under + 1
         /\ \A n \in 1 .. Under' :
              IF n \in 1 .. Under THEN OpAt(n)' = OpAt(n)
              ELSE n = Under' /\ OpAt(n)' = op
<1> DEFINE call == [op |-> op, who |-> who, page |-> page]
<1>1. authq' = Append(authq, call) /\ answers' = answers
  BY DEF Ask
<1>2. /\ Len(authq') = Len(authq) + 1 /\ authq'[Len(authq) + 1] = call
      /\ \A n \in 1 .. Len(authq) : authq'[n] = authq[n]
  BY <1>1, AppendProperties DEF CallsTyped
<1>3. Under' = Under + 1
  BY <1>1, <1>2, Counts DEF Under
<1>4. ASSUME NEW n \in 1 .. Under', n \notin 1 .. Under
      PROVE  n = Under' /\ OpAt(n)' = op
  <2>1. n = Under + 1 /\ ~ n <= Len(answers) /\ n - Len(answers) = Len(authq) + 1
    BY <1>3, <1>4, Counts DEF Under
  <2>2. OpAt(n)' = authq'[Len(authq) + 1].op
    BY <1>1, <2>1 DEF OpAt
  <2> QED BY <1>2, <1>3, <2>1, <2>2
<1>5. ASSUME NEW n \in 1 .. Under PROVE OpAt(n)' = OpAt(n)
  <2>1. CASE n <= Len(answers)
    BY <1>1, <2>1 DEF OpAt
  <2>2. CASE ~ n <= Len(answers)
    <3>1. n - Len(answers) \in 1 .. Len(authq)
      BY <2>2, Counts DEF Under
    <3> QED BY <1>1, <1>2, <2>2, <3>1 DEF OpAt
  <2> QED BY <2>1, <2>2
<1> QED BY <1>3, <1>4, <1>5

\* A call that is served passes those before it in authq.
LEMMA OpsServe ==
  ASSUME CallsTyped, Serve PROVE OpsKept
<1> DEFINE L == Len(answers)
<1>1. PICK m \in 1 .. Len(authq), who \in Account \cup {NoOne}, ok \in BOOLEAN :
        ServedAt(m, who, ok)
  BY Served, Zenon
<1>2. /\ authq' = RemoveAt(authq, m)
      /\ answers' = Append(answers,
           [call |-> [op |-> authq[m].op, who |-> who, page |-> authq[m].page],
            ok |-> ok])
  BY <1>1 DEF ServedAt
<1>3. /\ authq \in Seq(Call) /\ answers \in Seq(Reply)
      /\ Len(authq) \in Nat /\ L \in Nat /\ Under = L + Len(authq)
  BY Counts DEF CallsTyped, Under
<1>4. /\ Len(authq') = Len(authq) - 1
      /\ \A j \in 1 .. Len(authq) - 1 :
           authq'[j] = IF j < m THEN authq[j] ELSE authq[j + 1]
  BY <1>2, <1>3, Removed
<1>5. /\ Len(answers') = L + 1
      /\ answers'[L + 1].call.op = authq[m].op
      /\ \A j \in 1 .. L : answers'[j] = answers[j]
  BY <1>2, <1>3, AppendProperties
<1> DEFINE f == [n \in 1 .. Under |-> IF n <= L THEN n
                                     ELSE IF n = L + 1 THEN L + m
                                     ELSE IF n <= L + m THEN n - 1 ELSE n]
<1>6. Under' = Under
  BY <1>3, <1>4, <1>5 DEF Under
<1>7. f \in [1 .. Under -> 1 .. Under]
  BY <1>3
<1>8. \A k, n \in 1 .. Under : f[k] = f[n] => k = n
  BY <1>3
<1>9. ASSUME NEW n \in 1 .. Under PROVE OpAt(n)' = OpAt(f[n])
  <2>1. CASE n <= L
    <3>1. f[n] = n /\ n \in 1 .. L /\ n <= L + 1
      BY <1>3, <2>1
    <3>2. OpAt(n)' = answers'[n].call.op
      BY <1>5, <3>1 DEF OpAt
    <3> QED BY <1>5, <2>1, <3>1, <3>2 DEF OpAt
  <2>2. CASE n = L + 1
    <3>1. f[n] = L + m /\ ~ L + m <= L /\ (L + m) - L = m
      BY <1>3, <2>2
    <3>2. OpAt(n)' = authq[m].op
      BY <1>3, <1>5, <2>2 DEF OpAt
    <3> QED BY <3>1, <3>2 DEF OpAt
  <2>3. CASE n > L + 1
    <3>1. PICK j \in 1 .. Len(authq) - 1 : n = (L + 1) + j
      <4>1. L \in Nat /\ Len(authq) \in Nat /\ n \in 1 .. L + Len(authq)
        BY <1>3
      <4>2. n - (L + 1) \in 1 .. Len(authq) - 1 /\ n = (L + 1) + (n - (L + 1))
        BY <2>3, <4>1
      <4> QED BY <4>2
    <3>2. ~ n <= L + 1 /\ n - (L + 1) = j
      BY <1>3, <3>1
    <3>3. OpAt(n)' = authq'[j].op
      BY <1>5, <3>2 DEF OpAt
    <3>4. CASE j < m
      <4>1. f[n] = L + j /\ ~ L + j <= L /\ (L + j) - L = j
        BY <1>3, <3>1, <3>4
      <4>2. authq'[j] = authq[j]
        BY <1>4, <3>4
      <4> QED BY <3>3, <4>1, <4>2 DEF OpAt
    <3>5. CASE ~ j < m
      <4>1. f[n] = L + (j + 1) /\ ~ L + (j + 1) <= L /\ (L + (j + 1)) - L = j + 1
        BY <1>3, <3>1, <3>5
      <4>2. authq'[j] = authq[j + 1]
        BY <1>4, <3>5
      <4> QED BY <3>3, <4>1, <4>2 DEF OpAt
    <3> QED BY <3>4, <3>5
  <2> QED BY <1>3, <2>1, <2>2, <2>3
<1>10. Moved(f)
  BY <1>6, <1>7, <1>8, <1>9 DEF Moved
<1> QED BY <1>10 DEF OpsKept

LEMMA OpsClose ==
  ASSUME CallsTyped, CloseRegister PROVE OpsKept
<1>1. /\ authq' = [n \in DOMAIN authq |-> Abandoned(authq[n])]
      /\ answers' = [n \in DOMAIN answers |->
                       [call |-> Abandoned(answers[n].call), ok |-> answers[n].ok]]
  BY DEF CloseRegister
<1>2. Len(authq') = Len(authq) /\ Len(answers') = Len(answers)
  BY <1>1, AbandonedQueue, AbandonedAnswers DEF CallsTyped
<1>3. DOMAIN authq = 1 .. Len(authq) /\ DOMAIN answers = 1 .. Len(answers)
  BY DEF CallsTyped
<1>4. \A n \in 1 .. Len(authq) : authq'[n].op = authq[n].op
  BY <1>1, <1>3 DEF Abandoned
<1>5. \A n \in 1 .. Len(answers) : answers'[n].call.op = answers[n].call.op
  BY <1>1, <1>3 DEF Abandoned
<1>6. ASSUME NEW n \in 1 .. Under PROVE OpAt(n)' = OpAt(n)
  <2>1. CASE n <= Len(answers)
    BY <1>2, <1>5, <2>1, Counts DEF OpAt
  <2>2. CASE ~ n <= Len(answers)
    <3>1. n - Len(answers) \in 1 .. Len(authq)
      BY <2>2, Counts DEF Under
    <3> QED BY <1>2, <1>4, <2>2, <3>1 DEF OpAt
  <2> QED BY <2>1, <2>2
<1>7. Under' = Under
  BY <1>2 DEF Under
<1> QED BY <1>6, <1>7, OpsInPlace

LEMMA OpsAnswered ==
  ASSUME CallsTyped, answers # <<>>, answers' = Tail(answers), authq' = authq
  PROVE  /\ Under' = Under - 1 /\ 1 \in 1 .. Under
         /\ OpAt(1) = Head(answers).call.op
         /\ \A n \in 1 .. Under' : n + 1 \in 1 .. Under /\ OpAt(n)' = OpAt(n + 1)
<1>1. /\ Len(answers') = Len(answers) - 1 /\ Len(answers) \in Nat \ {0}
      /\ Head(answers) = answers[1]
      /\ \A n \in 1 .. Len(answers) - 1 : answers'[n] = answers[n + 1]
  BY HeadTailProperties DEF CallsTyped
<1>2. Under' = Under - 1 /\ 1 \in 1 .. Under
  BY <1>1, Counts DEF Under
<1>3. OpAt(1) = Head(answers).call.op
  BY <1>1 DEF OpAt
<1>4. ASSUME NEW n \in 1 .. Under' PROVE n + 1 \in 1 .. Under /\ OpAt(n)' = OpAt(n + 1)
  <2>0. n + 1 \in 1 .. Under
    BY <1>2, Counts
  <2>1. CASE n <= Len(answers) - 1
    <3>1. OpAt(n)' = answers'[n].call.op
      BY <1>1, <2>1 DEF OpAt
    <3>2. OpAt(n + 1) = answers[n + 1].call.op
      BY <1>1, <2>1 DEF OpAt
    <3>3. n \in 1 .. Len(answers) - 1
      BY <1>1, <2>1
    <3> QED BY <1>1, <2>0, <3>1, <3>2, <3>3
  <2>2. CASE ~ n <= Len(answers) - 1
    <3>1. OpAt(n)' = authq[n - (Len(answers) - 1)].op
      BY <1>1, <2>2 DEF OpAt
    <3>2. OpAt(n + 1) = authq[n + 1 - Len(answers)].op
      BY <1>1, <2>2 DEF OpAt
    <3>3. n - (Len(answers) - 1) = n + 1 - Len(answers)
      BY <1>1
    <3> QED BY <2>0, <3>1, <3>2, <3>3
  <2> QED BY <2>1, <2>2
<1> QED BY <1>2, <1>3, <1>4

LEMMA OpsRestart ==
  ASSUME Restart PROVE Under' = 1 /\ OpAt(1)' = "currentUser"
<1>1. /\ authq' = <<[op |-> "currentUser", who |-> NoOne, page |-> FALSE]>>
      /\ answers' = <<>>
  BY DEF Restart
<1>2. Len(authq') = 1 /\ Len(answers') = 0 /\ authq'[1].op = "currentUser"
  BY <1>1
<1> QED BY <1>2 DEF Under, OpAt

\* Where the calls have come to makes no difference to what is said of them.
LEMMA KeptNone ==
  ASSUME OpsKept, NEW ops, NoneIs(ops) PROVE NoneIs(ops)'
<1>1. PICK f : Moved(f)
  BY DEF OpsKept
<1> QED BY <1>1 DEF Moved, NoneIs

LEMMA KeptOne ==
  ASSUME OpsKept, OneEnter PROVE OneEnter'
<1>1. PICK f : Moved(f)
  BY DEF OpsKept
<1> SUFFICES ASSUME NEW k \in 1 .. Under, NEW n \in 1 .. Under,
                    OpAt(k)' \in EnterOps, OpAt(n)' \in EnterOps
             PROVE  k = n
  BY <1>1 DEF OneEnter, Moved
<1>2. f[k] \in 1 .. Under /\ f[n] \in 1 .. Under
  BY <1>1 DEF Moved
<1>3. OpAt(f[k]) \in EnterOps /\ OpAt(f[n]) \in EnterOps
  BY <1>1 DEF Moved
<1>4. f[k] = f[n]
  BY <1>2, <1>3 DEF OneEnter
<1> QED BY <1>1, <1>4 DEF Moved

LEMMA KeptStart ==
  ASSUME OpsKept, Under = 1, OpAt(1) = "currentUser"
  PROVE  Under' = 1 /\ OpAt(1)' = "currentUser"
<1>1. PICK f : Moved(f)
  BY DEF OpsKept
<1>2. f[1] = 1
  BY <1>1 DEF Moved
<1> QED BY <1>1, <1>2 DEF Moved

LEMMA LoginStart == AccountListInit => LoginAlone
<1> SUFFICES ASSUME AccountListInit PROVE LoginAlone
  OBVIOUS
<1>1. /\ authq = <<[op |-> "currentUser", who |-> NoOne, page |-> FALSE]>>
      /\ answers = <<>> /\ authStatus = "Pending"
  BY DEF AccountListInit, Init, Starting
<1>2. Len(authq) = 1 /\ Len(answers) = 0 /\ authq[1].op = "currentUser"
  BY <1>1
<1>3. Under = 1 /\ OpAt(1) = "currentUser"
  BY <1>2 DEF Under, OpAt
<1>4. ~ registering /\ ~ searching
  BY Zenon DEF AccountListInit, Init
<1>5. StartAlone
  BY <1>1, <1>3, <1>4 DEF StartAlone
<1>6. Calm
  BY <1>3 DEF Calm, NoneIs, OneEnter, EnterOps
<1> QED BY <1>5, <1>6 DEF LoginAlone

\* What neither makes nor answers a call, nor opens a page over the screen of
\* an app that starts, nor a search page over another than the home page.
LEMMA LoginStill ==
  ASSUME LoginAlone, OpsKept, authStatus' = authStatus, hurried' = hurried,
         authStatus # "Pending" \/ ~ registering',
         searching' => searching \/ HomeShown
  PROVE  LoginAlone'
<1>1. HomeShown' = HomeShown
  BY DEF HomeShown
<1>2. CASE authStatus = "Pending"
  <2>1. Under = 1 /\ OpAt(1) = "currentUser" /\ ~ searching
    BY <1>2 DEF LoginAlone, StartAlone
  <2>2. Under' = 1 /\ OpAt(1)' = "currentUser"
    BY <2>1, KeptStart
  <2>3. ~ searching' /\ ~ registering'
    BY <1>2, <2>1 DEF HomeShown
  <2>4. StartAlone'
    BY <1>2, <2>2, <2>3 DEF StartAlone
  <2>5. Calm'
    BY <2>2 DEF Calm, NoneIs, OneEnter, EnterOps
  <2> QED BY <2>4, <2>5 DEF LoginAlone
<1>3. CASE authStatus # "Pending"
  <2>1. NoneIs({"currentUser"})'
    BY <1>3, KeptNone DEF LoginAlone, StartAlone
  <2>2. StartAlone'
    BY <1>3, <2>1 DEF StartAlone
  <2>3. ASSUME ~ hurried, HomeShown' \/ searching' PROVE NoneIs(EnterOps)'
    <3>1. NoneIs(EnterOps)
      BY <1>1, <2>3, Zenon DEF LoginAlone, Calm
    <3> QED BY <3>1, KeptNone
  <2>4. ~ hurried => OneEnter'
    BY KeptOne DEF LoginAlone, Calm
  <2>5. Calm'
    BY <2>3, <2>4, Zenon DEF Calm
  <2> QED BY <2>2, <2>5 DEF LoginAlone
<1> QED BY <1>2, <1>3

LEMMA LoginEnter ==
  ASSUME CallsTyped, PagesTyped, LoginAlone, EnterTap PROVE LoginAlone'
<1>1. PICK op \in EnterOps, who \in Account, page \in BOOLEAN : Ask(op, who, page)
  BY DEF EnterTap, TapLogin, TapRegister, EnterOps
<1>2. /\ ~ searching /\ ~ searching'
      /\ hurried' = (hurried \/ Hurries)
  BY Zenon DEF EnterTap
<1>3. authStatus # "Pending"
  <2>1. authStatus = "Not_Logged_in" \/ registering
    BY DEF EnterTap, TapLogin, TapRegister
  <2> QED BY <2>1 DEF LoginAlone, StartAlone
<1>4. authStatus' = authStatus /\ HomeShown' = HomeShown
  BY <1>1, Zenon DEF Ask, HomeShown
<1>5. /\ Under' = Under + 1 /\ Under \in Nat
      /\ \A n \in 1 .. Under' :
           IF n \in 1 .. Under THEN OpAt(n)' = OpAt(n)
           ELSE n = Under' /\ OpAt(n)' = op
  BY <1>1, OpsAsk, Counts
<1>6. op # "currentUser"
  BY DEF EnterOps
<1>7. StartAlone'
  <2>1. NoneIs({"currentUser"})
    BY <1>3 DEF LoginAlone, StartAlone
  <2>2. NoneIs({"currentUser"})'
    BY <1>5, <1>6, <2>1 DEF NoneIs
  <2> QED BY <1>3, <1>4, <2>2 DEF StartAlone
<1>8. Calm'
  <2> SUFFICES ASSUME ~ hurried'
               PROVE  (HomeShown' \/ searching' => NoneIs(EnterOps)') /\ OneEnter'
    BY DEF Calm
  <2>1. ~ Hurries
    BY <1>2, Zenon
  <2>2. ~ HomeShown
    BY <2>1, Zenon DEF Hurries
  <2>3. ASSUME NEW n \in 1 .. Under PROVE OpAt(n) \notin EnterOps
    <3>1. CASE n <= Len(answers)
      <4>1. n \in DOMAIN answers
        BY <3>1, Counts DEF CallsTyped
      <4> QED BY <2>1, <3>1, <4>1 DEF OpAt, Hurries, Enters, EnterOps
    <3>2. CASE ~ n <= Len(answers)
      <4>1. n - Len(answers) \in DOMAIN authq
        BY <3>2, Counts DEF CallsTyped, Under
      <4> QED BY <2>1, <3>2, <4>1 DEF OpAt, Hurries, Enters, EnterOps
    <3> QED BY <3>1, <3>2
  <2>4. OneEnter'
    BY <1>5, <2>3 DEF OneEnter
  <2> QED BY <1>2, <1>4, <2>2, <2>4
<1> QED BY <1>7, <1>8 DEF LoginAlone

LEMMA LoginLogout ==
  ASSUME CallsTyped, LoginAlone, TapLogout, ~ searching, searching' = searching,
         hurried' = hurried
  PROVE  LoginAlone'
<1>1. Ask("signOut", NoOne, FALSE) /\ HomeShown
  BY DEF TapLogout
<1>2. authStatus' = authStatus /\ authStatus # "Pending" /\ HomeShown' = HomeShown
  BY <1>1 DEF Ask, HomeShown
<1>3. /\ Under' = Under + 1 /\ Under \in Nat
      /\ \A n \in 1 .. Under' :
           IF n \in 1 .. Under THEN OpAt(n)' = OpAt(n)
           ELSE n = Under' /\ OpAt(n)' = "signOut"
  BY <1>1, OpsAsk, Counts
<1>4. ASSUME NEW ops, "signOut" \notin ops, NoneIs(ops) PROVE NoneIs(ops)'
  BY <1>3, <1>4 DEF NoneIs
<1>5. StartAlone'
  BY <1>2, <1>4 DEF LoginAlone, StartAlone
<1>6. ~ hurried => NoneIs(EnterOps)
  BY <1>1 DEF LoginAlone, Calm
<1>7. ~ hurried => NoneIs(EnterOps)'
  BY <1>4, <1>6 DEF EnterOps
<1>8. Calm'
  BY <1>7 DEF Calm, NoneIs, OneEnter
<1> QED BY <1>5, <1>8 DEF LoginAlone

LEMMA LoginAnswered ==
  ASSUME CallsTyped, PagesTyped, LoginAlone, AuthAnswered,
         searching' = searching, hurried' = hurried
  PROVE  LoginAlone'
<1>1. answers # <<>> /\ answers' = Tail(answers) /\ authq' = authq
  BY DEF AuthAnswered, CurrentUserAnswered, SignInAnswered, CreateAnswered,
         SignOutAnswered, Failed, Answered
<1>2. /\ Under' = Under - 1 /\ 1 \in 1 .. Under /\ Under \in Nat
      /\ OpAt(1) = Head(answers).call.op
      /\ \A n \in 1 .. Under' : n + 1 \in 1 .. Under /\ OpAt(n)' = OpAt(n + 1)
  BY <1>1, OpsAnswered, Counts
<1>3. \A n \in 1 .. Under' : 1 # n + 1
  BY <1>2
<1>4. ASSUME NEW ops, NoneIs(ops) PROVE NoneIs(ops)'
  BY <1>2, <1>4 DEF NoneIs
<1>5. OneEnter => OneEnter'
  <2>1. \A k, n \in 1 .. Under' : k + 1 = n + 1 => k = n
    BY <1>2
  <2> QED BY <1>2, <2>1 DEF OneEnter
<1>6. authStatus = "Pending" <=> OpAt(1) = "currentUser"
  BY <1>2 DEF LoginAlone, StartAlone, NoneIs
<1>7. authStatus' # "Pending"
  <2>1. authStatus' \in {"Logged_in", "Not_Logged_in"}
        \/ (authStatus' = authStatus /\ OpAt(1) # "currentUser")
    BY <1>2 DEF AuthAnswered, CurrentUserAnswered, SignInAnswered, CreateAnswered,
       SignOutAnswered, Failed, Answered, SignedIn, StatusOf
  <2> QED BY <1>6, <2>1
<1>8. StartAlone'
  <2>1. CASE authStatus = "Pending"
    <3>1. 1 .. Under' = {}
      BY <1>2, <2>1 DEF LoginAlone, StartAlone
    <3> QED BY <1>7, <3>1 DEF StartAlone, NoneIs
  <2>2. CASE authStatus # "Pending"
    BY <1>4, <1>7, <2>2 DEF LoginAlone, StartAlone
  <2> QED BY <2>1, <2>2
<1>9. ASSUME ~ hurried, HomeShown' \/ searching PROVE NoneIs(EnterOps)'
  <2>1. CASE HomeShown \/ searching
    <3>1. NoneIs(EnterOps)
      BY <1>9, <2>1, Zenon DEF LoginAlone, Calm
    <3> QED BY <1>4, <3>1
  <2>2. CASE OpAt(1) = "currentUser"
    <3>1. 1 .. Under' = {}
      BY <1>2, <1>6, <2>2 DEF LoginAlone, StartAlone
    <3> QED BY <3>1 DEF NoneIs
  \* The one login that was under way has built the home page.
  <2>3. CASE OpAt(1) \in EnterOps
    <3>1. OneEnter
      BY <1>9, Zenon DEF LoginAlone, Calm
    <3> QED BY <1>2, <1>3, <2>3, <3>1 DEF OneEnter, NoneIs
  <2>4. CASE ~ HomeShown /\ ~ searching /\ OpAt(1) \notin EnterOps \cup {"currentUser"}
    <3>1. ~ HomeShown'
      BY <1>2, <2>4 DEF AuthAnswered, CurrentUserAnswered, SignInAnswered,
         CreateAnswered, SignOutAnswered, Failed, Answered, HomeShown, EnterOps
    <3> QED BY <1>9, <2>4, <3>1, Zenon
  <2> QED BY <2>1, <2>2, <2>3, <2>4, Zenon
<1>10. Calm'
  <2>1. ~ hurried => OneEnter'
    BY <1>5, Zenon DEF LoginAlone, Calm
  <2> QED BY <1>9, <2>1, Zenon DEF Calm
<1> QED BY <1>8, <1>10 DEF LoginAlone

LEMMA LoginStep ==
  ASSUME TypesIInv, LoginAlone, [AccountListNext]_allVars PROVE LoginAlone'
<1>0. /\ CallsTyped /\ PagesTyped
      /\ authStatus = "Pending" => ~ registering
  BY DEF TypesIInv, IInv, LoginAlone, StartAlone
<1>1. CASE EnterTap
  BY <1>0, <1>1, LoginEnter
<1>2. CASE OtherTap
  <2>0. ~ searching /\ searching' = searching /\ hurried' = hurried
    BY <1>2, Zenon DEF OtherTap
  <2>1. CASE TapLogout
    BY <1>0, <2>0, <2>1, LoginLogout
  <2>2. CASE OpenRegister
    <3>1. /\ authStatus # "Pending" /\ authStatus' = authStatus
          /\ UNCHANGED <<authq, answers>>
      BY <2>2 DEF OpenRegister
    <3> QED BY <2>0, <3>1, OpsStill, LoginStill
  <2>3. CASE CloseRegister
    <3>1. OpsKept
      BY <1>0, <2>3, OpsClose
    <3>2. authStatus' = authStatus /\ ~ registering'
      BY <2>3, Zenon DEF CloseRegister
    <3> QED BY <2>0, <3>1, <3>2, LoginStill
  <2>4. CASE TapCompare \/ TapReset \/ \E index \in 0 .. 2 : SelectTab(index)
    <3>1. UNCHANGED <<authq, answers, authStatus, registering>>
      BY <2>4, Zenon DEF TapCompare, TapReset, SelectTab
    <3> QED BY <1>0, <2>0, <3>1, OpsStill, LoginStill
  <2> QED BY <1>2, <2>1, <2>2, <2>3, <2>4, Zenon DEF OtherTap
<1>3. CASE Arrival
  <2>0. searching' = searching /\ hurried' = hurried
    BY <1>3, Zenon DEF Arrival
  <2>1. CASE Serve
    <3>1. UNCHANGED <<authStatus, registering>>
      BY <2>1, Zenon DEF Serve
    <3> QED BY <1>0, <2>0, <2>1, <3>1, OpsServe, LoginStill
  <2>2. CASE AuthAnswered
    BY <1>0, <2>0, <2>2, LoginAnswered
  <2>3. CASE \E h \in 1 .. MaxHomes : CompareAnswered(h) \/ CompareFailed(h)
    <3>1. UNCHANGED <<authq, answers, authStatus, registering>>
      BY <2>3, Zenon DEF CompareAnswered, CompareFailed
    <3> QED BY <1>0, <2>0, <3>1, OpsStill, LoginStill
  <2> QED BY <1>3, <2>1, <2>2, <2>3, Zenon DEF Arrival
<1>4. CASE AppRestart
  <2>1. /\ Under' = 1 /\ OpAt(1)' = "currentUser" /\ authStatus' = "Pending"
    BY <1>4, OpsRestart DEF AppRestart, Restart, Starting
  <2>2. ~ registering' /\ ~ searching'
    BY <1>4, Zenon DEF AppRestart, Restart
  <2>3. StartAlone'
    BY <2>1, <2>2 DEF StartAlone
  <2>4. Calm'
    BY <2>1 DEF Calm, NoneIs, OneEnter, EnterOps
  <2> QED BY <2>3, <2>4 DEF LoginAlone
<1>5. CASE OpenSearch
  <2>1. /\ HomeShown /\ authStatus' = authStatus /\ UNCHANGED <<authq, answers>>
    BY <1>5 DEF OpenSearch, ListShown, vars
  <2>2. ~ registering' /\ hurried' = hurried
    BY <1>5, Zenon DEF OpenSearch, vars
  <2> QED BY <2>1, <2>2, OpsStill, LoginStill
<1>6. CASE \/ UidServed \/ UidArrives \/ GetAnswered \/ VoidAnswered \/ SetLands
           \/ CloseSearch \/ AddItem \/ RemoveItem \/ UNCHANGED allVars
  <2>1. UNCHANGED vars
    <3>1. CASE UNCHANGED allVars
      BY <3>1 DEF allVars
    <3> QED BY <1>6, <3>1, Zenon DEF UidServed, UidArrives, GetAnswered, VoidAnswered, SetLands,
                       CloseSearch, AddItem, RemoveItem, SendWrite
  <2>2. hurried' = hurried
    <3>1. CASE UNCHANGED allVars
      BY <3>1, Zenon DEF allVars, listVars
    <3> QED BY <1>6, <3>1, Zenon DEF UidServed, UidArrives, GetAnswered, VoidAnswered,
                       SetLands, CloseSearch, AddItem, RemoveItem, SendWrite
  <2>4. searching' => searching
    <3>1. CASE UNCHANGED allVars
      BY <3>1, Zenon DEF allVars, listVars
    <3>2. CASE CloseSearch
      BY <3>2, Zenon DEF CloseSearch
    <3> QED BY <1>6, <3>1, <3>2, Zenon DEF UidServed, UidArrives, GetAnswered,
                       VoidAnswered, SetLands, AddItem, RemoveItem, SendWrite
  <2>3. UNCHANGED <<authq, answers, authStatus, registering>>
    BY <2>1 DEF vars
  <2> QED BY <1>0, <2>2, <2>3, <2>4, OpsStill, LoginStill
<1> QED
  BY <1>1, <1>2, <1>3, <1>4, <1>5, <1>6, Zenon DEF AccountListNext

LEMMA LoginHolds == AccountListSpec => []LoginAlone
  BY LoginStart, LoginStep, TypesHold, PTL DEF AccountListSpec

\* An open search page stays over the list page that it was opened from, or
\* over no list page: no answer, however late, builds another below it, unless
\* logins overlapped (the callback that list.dart hands to search.dart).
THEOREM OrphanAlone == AccountListSpec => NoPageBelowOrphan
<1>1. ASSUME TypesIInv, LoginAlone, [AccountListNext]_allVars,
             searching, searching', ListShown', ~ hurried
      PROVE  SamePage
  <2>0. NoneIs(EnterOps)
    BY <1>1, Zenon DEF LoginAlone, Calm
  <2>1. CASE Arrival /\ AuthAnswered
    <3>1. answers # <<>> /\ answers' = Tail(answers) /\ authq' = authq
      BY <2>1 DEF AuthAnswered, CurrentUserAnswered, SignInAnswered,
                  CreateAnswered, SignOutAnswered, Failed, Answered
    <3>2. 1 \in 1 .. Under /\ OpAt(1) = Head(answers).call.op
      BY <1>1, <3>1, OpsAnswered DEF TypesIInv, IInv
    <3>3. authStatus # "Pending"
      BY <1>1, Zenon DEF LoginAlone, StartAlone
    <3>4. OpAt(1) # "currentUser"
      BY <1>1, <3>2, <3>3 DEF LoginAlone, StartAlone, NoneIs
    <3>5. HomeShown
      <4>1. SUFFICES ASSUME ~ HomeShown PROVE FALSE
        OBVIOUS
      <4>2. OpAt(1) \notin EnterOps
        BY <2>0, <3>2 DEF NoneIs
      <4>3. SignOutAnswered \/ \E op \in {"signIn", "create", "signOut"} : Failed(op)
        BY <2>1, <3>2, <3>4, <4>2 DEF AuthAnswered, CurrentUserAnswered,
           SignInAnswered, CreateAnswered, Answered, EnterOps
      <4>4. ~ HomeShown'
        BY <4>1, <4>3 DEF SignOutAnswered, Failed, HomeShown
      <4> QED BY <1>1, <4>4, Zenon DEF ListShown
    <3>6. UNCHANGED pageVars
      BY <2>1, <3>5 DEF AuthAnswered, CurrentUserAnswered, SignInAnswered,
         CreateAnswered, SignOutAnswered, Failed, SignedIn, pageVars
    <3> QED BY <1>1, <3>5, <3>6 DEF SamePage, ListShown, Body, pageVars
  <2>2. CASE Arrival /\ ~ AuthAnswered
    <3>1. /\ UNCHANGED <<authStatus, home>>
          /\ currentIndex' \in {currentIndex, 3}
      BY <2>2 DEF Arrival, Serve, CompareAnswered, CompareFailed, CompareIndex, pageVars
    <3>2. currentIndex' \in 0 .. 3
      BY <1>1, <3>1 DEF TypesIInv, IInv, PagesTyped
    <3>3. currentIndex' = 1 /\ HomeShown'
      BY <1>1, <3>2 DEF ListShown, Body, CompareIndex
    <3> QED BY <1>1, <3>1, <3>3 DEF SamePage, ListShown, Body, HomeShown
  <2>3. CASE UNCHANGED vars
    BY <1>1, <2>3 DEF SamePage, ListShown, Body, HomeShown, vars, pageVars
  <2>4. CASE EnterTap \/ OtherTap \/ AppRestart
    BY <1>1, <2>4, Zenon DEF EnterTap, OtherTap, AppRestart
  <2>5. CASE UNCHANGED allVars
    BY <2>3, <2>5 DEF allVars
  <2>6. CASE \/ UidServed \/ UidArrives \/ GetAnswered \/ VoidAnswered \/ SetLands
             \/ OpenSearch \/ CloseSearch \/ AddItem \/ RemoveItem
    <3>1. UNCHANGED vars
      BY <2>6, Zenon DEF UidServed, UidArrives, GetAnswered, VoidAnswered, SetLands,
                 OpenSearch, CloseSearch, AddItem, RemoveItem, SendWrite
    <3> QED BY <2>3, <3>1
  <2> QED BY <1>1, <2>1, <2>2, <2>4, <2>5, <2>6, Zenon DEF AccountListNext
<1>2. TypesIInv /\ LoginAlone /\ [AccountListNext]_allVars =>
        [searching /\ searching' /\ ListShown' => SamePage \/ hurried]_allVars
  BY <1>1, Zenon
<1> QED BY <1>2, TypesHold, LoginHolds, PTL DEF AccountListSpec, NoPageBelowOrphan

-----------------------------------------------------------------------------
(***************************************************************************)
(* Whose items are where.                                                  *)
(***************************************************************************)

Live == ListShown \/ searching

\* All that the page has is u's, who has been the user and may have left.
PageOf(u) ==
  /\ account \in {u, NoOne}
  /\ uid \in {u, NoOne, Blank} /\ items \subseteq {u}
  /\ \A n \in 1 .. Len(asking) : asking[n] \in {u, NoOne, Blank}
  /\ \A n \in 1 .. Len(link) : link[n].op = "get" => link[n].of \in {u, NoOne}
  /\ account # NoOne =>
       uid # NoOne /\ \A n \in 1 .. Len(asking) : asking[n] # NoOne

OwnPage == ~ hurried /\ Live => \E u \in Account \cup {NoOne} : PageOf(u)

\* What was read under a uid, and what goes to it, is its own.
OwnWrites ==
  ~ hurried => \A n \in 1 .. Len(link) :
    IsSet(link[n]) /\ link[n].of # Blank => link[n].list \subseteq {link[n].of}

\* A page knows its user or is about to.
Told == Live /\ asking = <<>> => uid # Blank

Owned == OwnPage /\ OwnWrites /\ Told /\ ListsAreOwn

LEMMA NamesApart == NoOne \notin Account /\ Blank \notin Account /\ Blank # NoOne
  BY ShellAssumption, AccountListAssumption

LEMMA OwnedStart == AccountListInit => Owned
<1> SUFFICES ASSUME AccountListInit PROVE Owned
  OBVIOUS
<1>1. ~ Live
  <2>1. authStatus = "Pending"
    BY DEF AccountListInit, Init, Starting
  <2>2. ~ HomeShown
    BY <2>1 DEF HomeShown
  <2> QED BY <2>2, Zenon DEF Live, ListShown, AccountListInit
<1>2. OwnPage /\ Told
  BY <1>1, Zenon DEF OwnPage, Told
<1>3. OwnWrites
  BY DEF AccountListInit, OwnWrites
<1>4. ListsAreOwn
  BY DEF AccountListInit, ListsAreOwn
<1> QED BY <1>2, <1>3, <1>4 DEF Owned

LEMMA SessionHolds == AccountListSpec => []SessionIInv
<1>1. TypesIInv /\ SessionIInv /\ [AccountListNext]_allVars => SessionIInv'
  BY ShellStep, SessionStep DEF TypesIInv, IInv
<1>2. AccountListInit => SessionIInv
  BY SessionStarted DEF AccountListInit
<1> QED BY <1>1, <1>2, TypesHold, PTL DEF AccountListSpec

\* While a page lives, nobody signs in: the user can only leave.
LEMMA AccountStays ==
  ASSUME TypesIInv, LoginAlone, AllMeant, ~ hurried, Live, Next
  PROVE  account' \in {account, NoOne}
<1>1. NoneIs(EnterOps)
  BY Zenon DEF LoginAlone, Calm, Live, ListShown
<1>2. CASE Serve
  <2>1. authq \in Seq(Call) /\ CallsTyped
    BY DEF TypesIInv, IInv, CallsTyped
  <2>2. PICK n \in 1 .. Len(authq), who \in Account \cup {NoOne}, ok \in BOOLEAN :
          ServedAt(n, who, ok)
    BY <1>2, <2>1, Served, Zenon
  <2>3. Len(answers) + n \in 1 .. Under /\ OpAt(Len(answers) + n) = authq[n].op
    BY <2>1, Counts DEF Under, OpAt
  <2>4. authq[n].op \in {"currentUser", "signOut"}
    <3>1. authq[n].op \notin EnterOps
      BY <1>1, <2>3 DEF NoneIs
    <3>2. authq[n] \in Call
      BY <2>1
    <3> QED BY <3>1, <3>2 DEF EnterOps, Call
  <2>5. authq[n].op = "signOut" => authq[n].who = NoOne
    BY DEF AllMeant, Meant
  <2>6. who \in {account, NoOne} /\ account' \in {account, who}
    BY <2>2, <2>4, <2>5 DEF ServedAt
  <2> QED BY <2>6
<1>3. CASE ~ Serve
  <2>1. account' = account
    BY <1>3, Zenon DEF Next, Session, HomePage, Restart, TapLogin, TapRegister, TapLogout, Ask,
       OpenRegister, CloseRegister, AuthAnswered, CurrentUserAnswered,
       SignInAnswered, CreateAnswered, SignOutAnswered, Failed, Answered,
       SelectTab, TapCompare, TapReset, CompareAnswered, CompareFailed
  <2> QED BY <2>1
<1> QED BY <1>2, <1>3

LEMMA LeftOwned ==
  ASSUME ListTyped, OwnWrites, ~ hurried' => ~ hurried, link' = LeftBehind(link)
  PROVE  /\ OwnWrites'
         /\ \A n \in 1 .. Len(link') : link'[n].op # "get"
<1>1. /\ Len(link') = Len(link)
      /\ \A n \in 1 .. Len(link) :
           IF IsSet(link[n]) THEN link'[n] = link[n] ELSE link'[n] = [op |-> "void"]
  BY Left DEF ListTyped
<1>2. \A n \in 1 .. Len(link) : IsSet(link'[n]) => link'[n] = link[n] /\ IsSet(link[n])
  BY <1>1 DEF IsSet
<1>3. OwnWrites'
  BY <1>1, <1>2 DEF OwnWrites
<1>4. \A n \in 1 .. Len(link') : link'[n].op # "get"
  BY <1>1 DEF IsSet
<1> QED BY <1>3, <1>4

LEMMA FollowsOwned ==
  ASSUME ListTyped, Owned, PageFollows, searching' = searching,
         ~ hurried' => ~ hurried, account' \in Account \cup {NoOne},
         ~ hurried /\ Live => account' \in {account, NoOne}, stored' = stored
  PROVE  Owned'
<1>1. ListsAreOwn'
  BY DEF Owned, ListsAreOwn
<1>2. CASE /\ SamePage \/ (~ ListShown' /\ searching)
           /\ UNCHANGED <<uid, items, asking, link>>
  <2>1. Live
    BY <1>2, Zenon DEF SamePage, Live
  <2>2. OwnWrites' /\ Told'
    BY <1>2, <2>1 DEF Owned, OwnWrites, Told
  <2>3. OwnPage'
    <3> SUFFICES ASSUME ~ hurried' PROVE \E u \in Account \cup {NoOne} : PageOf(u)'
      BY DEF OwnPage
    <3>1. PICK u \in Account \cup {NoOne} : PageOf(u)
      BY <2>1 DEF Owned, OwnPage
    <3>2. PageOf(u)'
      BY <1>2, <2>1, <3>1 DEF PageOf
    <3> QED BY <3>2
  <2> QED BY <1>1, <2>2, <2>3 DEF Owned
<1>3. CASE Fresh(<<Blank>>) /\ link' = LeftBehind(link)
  <2>1. OwnWrites' /\ \A n \in 1 .. Len(link') : link'[n].op # "get"
    BY <1>3, LeftOwned DEF Owned
  <2>2. uid' = Blank /\ items' = {} /\ asking' = <<Blank>>
    BY <1>3 DEF Fresh
  <2>3. \A n \in 1 .. Len(asking') : asking'[n] = Blank
    BY <2>2
  <2>4. Told'
    BY <2>2 DEF Told
  <2>5. PICK u \in Account \cup {NoOne} : u = account'
    OBVIOUS
  <2>6. PageOf(u)'
    BY <2>1, <2>2, <2>3, <2>5, NamesApart DEF PageOf
  <2>7. OwnPage'
    BY <2>6 DEF OwnPage
  <2> QED BY <1>1, <2>1, <2>4, <2>7 DEF Owned
<1>4. CASE ~ ListShown' /\ ~ searching /\ link' = LeftBehind(link)
  <2>1. OwnWrites'
    BY <1>4, LeftOwned DEF Owned
  <2>2. ~ Live'
    BY <1>4, Zenon DEF Live
  <2>3. OwnPage' /\ Told'
    BY <2>2, Zenon DEF OwnPage, Told
  <2> QED BY <1>1, <2>1, <2>3 DEF Owned
<1> QED BY <1>2, <1>3, <1>4, Zenon DEF PageFollows

LEMMA ReadsOwned ==
  ASSUME TypesIInv, Owned, UidServed \/ UidArrives PROVE Owned'
<1>0. /\ ListTyped /\ account \in Account \cup {NoOne}
      /\ UNCHANGED <<items, stored, account>>
  BY DEF TypesIInv, IInv, CallsTyped, UidServed, UidArrives, vars
<1>1. Live' = Live /\ hurried' = hurried
  <2>1. UNCHANGED vars /\ hurried' = hurried /\ searching' = searching
    BY Zenon DEF UidServed, UidArrives
  <2>2. ListShown' = ListShown
    BY <2>1 DEF vars, pageVars, ListShown, HomeShown, Body
  <2> QED BY <2>1, <2>2, Zenon DEF Live
<1>2. ListsAreOwn'
  BY <1>0, <1>1 DEF Owned, ListsAreOwn
<1>3. CASE UidServed
  <2>1. PICK n \in DOMAIN asking : asking' = [asking EXCEPT ![n] = account]
    BY <1>3 DEF UidServed
  <2>2. /\ DOMAIN asking = 1 .. Len(asking) /\ Len(asking) \in Nat
        /\ Len(asking') = Len(asking) /\ asking # <<>>
        /\ \A k \in 1 .. Len(asking) : asking'[k] = IF k = n THEN account ELSE asking[k]
    BY <1>0, <2>1, ExceptSeq DEF ListTyped
  <2>3. uid' = uid /\ link' = link
    BY <1>3 DEF UidServed
  <2>4. OwnWrites'
    BY <1>1, <2>3 DEF Owned, OwnWrites
  <2>5. Told'
    BY <2>2 DEF Told
  <2>6. ASSUME NEW u \in Account \cup {NoOne}, PageOf(u) PROVE PageOf(u)'
    BY <1>0, <2>2, <2>3, <2>6 DEF PageOf
  <2>7. OwnPage'
    BY <1>1, <2>6 DEF Owned, OwnPage
  <2> QED BY <1>2, <2>4, <2>5, <2>7 DEF Owned
<1>4. CASE UidArrives
  <2>1. /\ asking # <<>> /\ Head(asking) # Blank /\ asking' = Tail(asking)
        /\ uid' = Head(asking)
        /\ link' = Append(link, [op |-> "get", of |-> Head(asking)])
    BY <1>4 DEF UidArrives, Read
  <2>2. /\ Head(asking) = asking[1] /\ 1 \in 1 .. Len(asking)
        /\ \A n \in 1 .. Len(asking') :
             n + 1 \in 1 .. Len(asking) /\ asking'[n] = asking[n + 1]
    BY <1>0, <2>1, HeadTailProperties DEF ListTyped
  <2>3. /\ Len(link') = Len(link) + 1 /\ Len(link) \in Nat
        /\ link'[Len(link) + 1] = [op |-> "get", of |-> Head(asking)]
        /\ \A n \in 1 .. Len(link) : link'[n] = link[n]
    BY <1>0, <2>1, AppendProperties DEF ListTyped
  <2>4. \A n \in 1 .. Len(link') : n \in 1 .. Len(link) \/ n = Len(link) + 1
    BY <2>3
  <2>5. ~ IsSet(link'[Len(link) + 1]) /\ link'[Len(link) + 1].of = Head(asking)
    BY <2>3 DEF IsSet
  <2>6. OwnWrites'
    BY <1>1, <2>3, <2>4, <2>5 DEF Owned, OwnWrites
  <2>7. Told'
    BY <2>1 DEF Told
  <2>8. ASSUME NEW u \in Account \cup {NoOne}, PageOf(u) PROVE PageOf(u)'
    <3>1. asking[1] \in {u, NoOne}
      BY <2>1, <2>2, <2>8 DEF PageOf
    <3>2. \A n \in 1 .. Len(link') : link'[n].op = "get" => link'[n].of \in {u, NoOne}
      BY <2>2, <2>3, <2>4, <2>5, <2>8, <3>1 DEF PageOf
    <3> QED BY <1>0, <2>1, <2>2, <2>8, <3>1, <3>2 DEF PageOf
  <2>9. OwnPage'
    BY <1>1, <2>8 DEF Owned, OwnPage
  <2> QED BY <1>2, <2>6, <2>7, <2>9 DEF Owned
<1> QED BY <1>3, <1>4

LEMMA DatabaseOwned ==
  ASSUME TypesIInv, Owned, GetAnswered \/ VoidAnswered \/ SetLands PROVE Owned'
<1>0. /\ ListTyped /\ link # <<>> /\ link' = Tail(link)
      /\ UNCHANGED <<uid, asking, account>>
  BY DEF TypesIInv, GetAnswered, VoidAnswered, SetLands, vars
<1>1. Live' = Live /\ hurried' = hurried
  <2>1. UNCHANGED vars /\ hurried' = hurried /\ searching' = searching
    BY Zenon DEF GetAnswered, VoidAnswered, SetLands
  <2>2. ListShown' = ListShown
    BY <2>1 DEF vars, pageVars, ListShown, HomeShown, Body
  <2> QED BY <2>1, <2>2, Zenon DEF Live
<1>2. /\ Head(link) = link[1] /\ 1 \in 1 .. Len(link) /\ Head(link) \in DbCall
      /\ \A n \in 1 .. Len(link') : n + 1 \in 1 .. Len(link) /\ link'[n] = link[n + 1]
  BY <1>0, LinkTail DEF ListTyped
<1>3. OwnWrites'
  BY <1>1, <1>2 DEF Owned, OwnWrites
<1>4. Told'
  BY <1>0, <1>1 DEF Owned, Told
<1>5. ListsAreOwn'
  <2>1. CASE stored' = stored
    BY <1>1, <2>1 DEF Owned, ListsAreOwn
  <2>2. CASE SetLands /\ stored' # stored
    <3>1. CASE Head(link).of = Blank
      <4>1. stored' = [a \in Account |-> {}]
        BY <2>2, <3>1 DEF SetLands
      <4> QED BY <4>1 DEF ListsAreOwn
    <3>2. CASE Head(link).of # Blank
      <4>1. /\ IsSet(Head(link))
            /\ stored' = [stored EXCEPT ![Head(link).of] = Head(link).list]
        BY <2>2, <3>2 DEF SetLands
      <4>2. ~ hurried => Head(link).list \subseteq {Head(link).of}
        BY <1>2, <3>2, <4>1 DEF Owned, OwnWrites
      <4> QED BY <1>0, <1>1, <4>1, <4>2 DEF Owned, ListsAreOwn, ListTyped
    <3> QED BY <3>1, <3>2
  <2> QED BY <2>1, <2>2 DEF GetAnswered, VoidAnswered
<1>6. OwnPage'
  <2> SUFFICES ASSUME ~ hurried, Live PROVE \E u \in Account \cup {NoOne} : PageOf(u)'
    BY <1>1 DEF OwnPage
  <2>1. PICK u \in Account \cup {NoOne} : PageOf(u)
    BY DEF Owned, OwnPage
  <2>2. items' \subseteq {u}
    <3>1. CASE GetAnswered
      <4>1. Head(link).op = "get"
            /\ items' = IF Head(link).of \in Account THEN stored[Head(link).of] ELSE {}
        BY <3>1 DEF GetAnswered
      <4>2. Head(link).of \in {u, NoOne}
        BY <1>2, <2>1, <4>1 DEF PageOf
      <4>3. \A a \in Account : stored[a] \subseteq {a}
        BY DEF Owned, ListsAreOwn
      <4> QED BY <4>1, <4>2, <4>3, NamesApart
    <3>2. CASE VoidAnswered \/ SetLands
      BY <2>1, <3>2 DEF VoidAnswered, SetLands, PageOf
    <3> QED BY <3>1, <3>2
  <2>3. PageOf(u)'
    BY <1>0, <1>2, <2>1, <2>2 DEF PageOf
  <2> QED BY <2>3
<1> QED BY <1>3, <1>4, <1>5, <1>6 DEF Owned

LEMMA EditsOwned ==
  ASSUME TypesIInv, Owned, AddItem \/ RemoveItem PROVE Owned'
<1>0. /\ ListTyped /\ uid # NoOne
      /\ UNCHANGED <<uid, items, stored, account>>
      /\ asking' = Append(asking, Blank)
  BY DEF TypesIInv, AddItem, RemoveItem, SendWrite, vars
<1>1. Live /\ Live' = Live /\ hurried' = hurried
  <2>1. UNCHANGED vars /\ hurried' = hurried /\ searching' = searching
    BY Zenon DEF AddItem, RemoveItem, SendWrite
  <2>2. ListShown' = ListShown
    BY <2>1 DEF vars, pageVars, ListShown, HomeShown, Body
  <2> QED BY <2>1, <2>2, Zenon DEF Live, AddItem, RemoveItem
<1>2. PICK list \in {items, items \cup ({uid} \ {Blank})} :
        link' = Append(link, [op |-> "set", of |-> uid, list |-> list])
  BY DEF AddItem, RemoveItem, SendWrite
<1>3. /\ Len(link') = Len(link) + 1 /\ Len(link) \in Nat
      /\ link'[Len(link) + 1] = [op |-> "set", of |-> uid, list |-> list]
      /\ \A n \in 1 .. Len(link) : link'[n] = link[n]
  BY <1>0, <1>2, AppendProperties DEF ListTyped
<1>4. \A n \in 1 .. Len(link') : n \in 1 .. Len(link) \/ n = Len(link) + 1
  BY <1>3
<1>5. /\ Len(asking') = Len(asking) + 1 /\ Len(asking) \in Nat
      /\ asking'[Len(asking) + 1] = Blank
      /\ \A n \in 1 .. Len(asking) : asking'[n] = asking[n]
  BY <1>0, AppendProperties DEF ListTyped
<1>6. \A n \in 1 .. Len(asking') : n \in 1 .. Len(asking) \/ n = Len(asking) + 1
  BY <1>5
<1>7. ~ hurried => \E u \in Account \cup {NoOne} : PageOf(u)
  BY <1>1 DEF Owned, OwnPage
<1>8. ASSUME NEW u \in Account \cup {NoOne}, PageOf(u)
      PROVE  PageOf(u)' /\ (uid # Blank => list \subseteq {uid})
  <2>1. uid \in {u, Blank}
    BY <1>0, <1>8 DEF PageOf
  <2>2. uid # Blank => list \subseteq {uid}
    BY <1>2, <1>8, <2>1 DEF PageOf
  <2>3. link'[Len(link) + 1].op # "get"
    BY <1>3
  <2>4. \A n \in 1 .. Len(link') : link'[n].op = "get" => link'[n].of \in {u, NoOne}
    BY <1>3, <1>4, <1>8, <2>3 DEF PageOf
  <2>5. \A n \in 1 .. Len(asking') : asking'[n] \in {u, NoOne, Blank}
    BY <1>5, <1>6, <1>8 DEF PageOf
  <2>6. account # NoOne => \A n \in 1 .. Len(asking') : asking'[n] # NoOne
    BY <1>5, <1>6, <1>8, NamesApart DEF PageOf
  <2>7. PageOf(u)'
    BY <1>0, <1>8, <2>4, <2>5, <2>6 DEF PageOf
  <2> QED BY <2>2, <2>7
<1>9. OwnPage'
  BY <1>1, <1>7, <1>8 DEF OwnPage
<1>10. OwnWrites'
  <2>1. /\ link'[Len(link) + 1].of = uid /\ link'[Len(link) + 1].list = list
    BY <1>3
  <2>2. ~ hurried /\ uid # Blank => list \subseteq {uid}
    BY <1>7, <1>8
  <2> QED BY <1>1, <1>3, <1>4, <2>1, <2>2 DEF Owned, OwnWrites
<1>11. Told'
  <2>1. asking' # <<>>
    BY <1>5
  <2> QED BY <2>1 DEF Told
<1>12. ListsAreOwn'
  BY <1>0, <1>1 DEF Owned, ListsAreOwn
<1> QED BY <1>9, <1>10, <1>11, <1>12 DEF Owned

LEMMA SearchOwned ==
  ASSUME TypesIInv, Owned, OpenSearch \/ CloseSearch PROVE Owned'
<1>0. /\ ListTyped /\ UNCHANGED <<vars, stored>> /\ account' = account
      /\ ListShown' = ListShown
  BY DEF TypesIInv, OpenSearch, CloseSearch, vars, pageVars, ListShown, HomeShown, Body
<1>1. hurried' = hurried
  BY Zenon DEF OpenSearch, CloseSearch
<1>2. ListsAreOwn'
  BY <1>0, <1>1 DEF Owned, ListsAreOwn
<1>3. CASE ListShown
  <2>1. UNCHANGED <<uid, items, asking, link>>
    BY <1>3 DEF OpenSearch, CloseSearch
  <2>2. Live /\ Live'
    BY <1>0, <1>3, Zenon DEF Live
  <2>3. Told' /\ OwnWrites'
    BY <1>1, <2>1, <2>2 DEF Owned, Told, OwnWrites
  <2>4. ASSUME NEW u, PageOf(u) PROVE PageOf(u)'
    BY <1>0, <2>1, <2>4 DEF PageOf
  <2>5. OwnPage'
    BY <1>1, <2>2, <2>4 DEF Owned, OwnPage
  <2> QED BY <1>2, <2>3, <2>5 DEF Owned
<1>4. CASE ~ ListShown
  <2>1. ~ searching' /\ link' = LeftBehind(link)
    BY <1>4, Zenon DEF OpenSearch, CloseSearch
  <2>2. ~ Live'
    BY <1>0, <1>4, <2>1, Zenon DEF Live
  <2>3. OwnWrites'
    BY <1>0, <1>1, <2>1, LeftOwned DEF Owned
  <2>4. OwnPage' /\ Told'
    BY <2>2, Zenon DEF OwnPage, Told
  <2> QED BY <1>2, <2>3, <2>4 DEF Owned
<1> QED BY <1>3, <1>4

LEMMA OwnedStep ==
  ASSUME TypesIInv, TypesIInv', LoginAlone, SessionIInv, Owned,
         [AccountListNext]_allVars
  PROVE  Owned'
<1>1. CASE EnterTap \/ OtherTap \/ Arrival
  <2>1. /\ PageFollows /\ stored' = stored
    BY <1>1, Zenon DEF EnterTap, OtherTap, Arrival
  <2>2. searching' = searching
    BY <1>1, Zenon DEF EnterTap, OtherTap, Arrival
  <2>3. ~ hurried' => ~ hurried
    BY <1>1, Zenon DEF EnterTap, OtherTap, Arrival
  <2>4. Next \/ UNCHANGED account
    <3>1. CASE EnterTap \/ OtherTap
      BY <3>1, Zenon DEF EnterTap, OtherTap, TapLogin, TapRegister, TapLogout, Ask,
         OpenRegister, CloseRegister, TapCompare, TapReset, SelectTab
    <3>2. CASE Arrival /\ Serve
      BY <3>2, Zenon DEF Next, Session
    <3>3. CASE Arrival /\ ~ Serve
      BY <3>3, Zenon DEF Arrival, AuthAnswered, CurrentUserAnswered, SignInAnswered,
         CreateAnswered, SignOutAnswered, Failed, Answered, CompareAnswered, CompareFailed
    <3> QED BY <1>1, <3>1, <3>2, <3>3, Zenon
  <2>5. ~ hurried /\ Live => account' \in {account, NoOne}
    BY <2>4, AccountStays DEF SessionIInv
  <2>6. ListTyped /\ account' \in Account \cup {NoOne}
    BY DEF TypesIInv, IInv, CallsTyped
  <2> QED BY <2>1, <2>2, <2>3, <2>5, <2>6, FollowsOwned
<1>2. CASE AppRestart
  <2>1. authStatus' = "Pending" /\ link' = <<>> /\ stored' = stored
    BY <1>2 DEF AppRestart, Restart, Starting
  <2>2. ~ searching' /\ hurried' = hurried
    BY <1>2, Zenon DEF AppRestart
  <2>3. ~ Live'
    <3>1. ~ HomeShown'
      BY <2>1 DEF HomeShown
    <3> QED BY <2>2, <3>1, Zenon DEF Live, ListShown
  <2>4. OwnPage' /\ Told'
    BY <2>3, Zenon DEF OwnPage, Told
  <2>5. OwnWrites'
    BY <2>1 DEF OwnWrites
  <2>6. ListsAreOwn'
    BY <2>1, <2>2 DEF Owned, ListsAreOwn
  <2> QED BY <2>4, <2>5, <2>6 DEF Owned
<1>3. CASE UidServed \/ UidArrives
  BY <1>3, ReadsOwned
<1>4. CASE GetAnswered \/ VoidAnswered \/ SetLands
  BY <1>4, DatabaseOwned
<1>5. CASE OpenSearch \/ CloseSearch
  BY <1>5, SearchOwned
<1>6. CASE AddItem \/ RemoveItem
  BY <1>6, EditsOwned
<1>7. CASE UNCHANGED allVars
  <2>1. /\ UNCHANGED <<uid, items, asking, link, stored, account>>
        /\ ListShown' = ListShown
    BY <1>7 DEF allVars, listVars, vars, pageVars, ListShown, HomeShown, Body
  <2>2. hurried' = hurried /\ Live' = Live
    BY <1>7, <2>1, Zenon DEF allVars, listVars, Live
  <2>3. ASSUME NEW u PROVE PageOf(u)' <=> PageOf(u)
    BY <2>1 DEF PageOf
  <2>4. OwnPage'
    BY <2>2, <2>3 DEF Owned, OwnPage
  <2>5. OwnWrites' /\ Told' /\ ListsAreOwn'
    BY <2>1, <2>2 DEF Owned, OwnWrites, Told, ListsAreOwn
  <2> QED BY <2>4, <2>5 DEF Owned
<1> QED
  BY <1>1, <1>2, <1>3, <1>4, <1>5, <1>6, <1>7, Zenon DEF AccountListNext

LEMMA OwnedHolds == AccountListSpec => []Owned
  BY OwnedStart, OwnedStep, TypesHold, LoginHolds, SessionHolds, PTL DEF AccountListSpec

\* For any number of accounts: no stored list takes in another's items unless a
\* login or registration overlapped another (addFB, removeFB and initializeVars
\* of list.dart, in their place in the app).
THEOREM NobodysItemsStray == AccountListSpec => []ListsAreOwn
<1>1. Owned => ListsAreOwn
  BY DEF Owned
<1> QED BY <1>1, OwnedHolds, PTL

\* A page with nothing under way, below no unanswered call, is that of the
\* account that is signed in (list.dart, splash.dart).
THEOREM SettledIsOwn == AccountListSpec => []SettledPageIsOwn
<1>1. TypesIInv /\ SessionIInv /\ Owned => SettledPageIsOwn
  <2> SUFFICES ASSUME TypesIInv, SessionIInv, Owned, ListShown, ~ hurried,
                      authq = <<>>, answers = <<>>, asking = <<>>
               PROVE  uid = account /\ items \subseteq {account}
    BY Zenon DEF SettledPageIsOwn
  <2>1. authStatus = "Logged_in" /\ Live
    BY Zenon DEF ListShown, HomeShown, Live
  <2>2. StatusOf(account) = "Logged_in"
    BY <2>1 DEF SessionIInv, Followed, Waiting
  <2>3. account # NoOne
    BY <2>2 DEF StatusOf
  <2>4. PICK u \in Account \cup {NoOne} : PageOf(u)
    BY <2>1 DEF Owned, OwnPage
  <2>5. uid # Blank
    BY <2>1 DEF Owned, Told
  <2> QED BY <2>3, <2>4, <2>5 DEF PageOf
<1> QED BY <1>1, TypesHold, SessionHolds, OwnedHolds, PTL
=============================================================================
