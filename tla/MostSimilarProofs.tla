------------------------- MODULE MostSimilarProofs --------------------------
(***************************************************************************)
(* findMostSimilar returns the first of the most similar rows, for any     *)
(* names, prices, scores and answers of the database.                      *)
(***************************************************************************)
EXTENDS MostSimilar, SequenceTheorems, TLAPS

LEMMA TypedRows ==
  ASSUME TypeOK
  PROVE  /\ Len(results) \in Nat \ {0}
         /\ i \in Nat /\ score \in Nat
         /\ \A j \in 1 .. Len(results) :
              results[j] \in Row /\ Score[target][results[j].name] \in Nat
<1>1. Len(results) \in Nat \ {0} /\ i \in Nat /\ score \in Nat
  BY EmptySeq DEF TypeOK
<1>2. ASSUME NEW j \in 1 .. Len(results)
      PROVE  results[j] \in Row
  BY ElementOfSeq DEF TypeOK
<1>3. ASSUME NEW j \in 1 .. Len(results)
      PROVE  Score[target][results[j].name] \in Nat
  <2>1. target \in Name /\ results[j].name \in Name
    BY <1>2 DEF TypeOK, Row
  <2> QED
    BY <2>1, ScoreAssumption
<1> QED
  BY <1>1, <1>2, <1>3

LEMMA InitLoopInv == Init => LoopInv
<1> SUFFICES ASSUME Init
             PROVE  LoopInv
  OBVIOUS
<1>1. PICK n \in 1 .. MaxRows : results \in [1 .. n -> Row]
  BY DEF Init
<1>2. results \in Seq(Row) /\ Len(results) = n /\ n \in Nat \ {0}
  BY <1>1, MaxRowsAssumption
<1>3. 1 \in 1 .. Len(results) /\ results # <<>> /\ results[1] \in Row
  BY <1>1, <1>2
<1>4. TypeOK
  BY <1>2, <1>3 DEF Init, TypeOK
<1>5. sim = results[1] /\ i = 1 /\ score = 0 /\ pc = "loop"
  BY DEF Init
<1>6. BestSoFar(1)
  <2>1. 1 .. i - 1 = {} /\ 1 .. 1 - 1 = {}
    BY <1>5
  <2> QED
    BY <1>5, <2>1 DEF BestSoFar
<1>7. \E k \in 1 .. Len(results) : BestSoFar(k)
  BY <1>3, <1>6
<1> QED
  BY <1>4, <1>5, <1>7 DEF LoopInv

LEMMA StepLoopInv ==
  ASSUME LoopInv, [Next]_vars
  PROVE  LoopInv'
<1>t. TypeOK
  BY DEF LoopInv
<1>a. Len(results) \in Nat \ {0} /\ i \in Nat /\ score \in Nat
  BY <1>t, TypedRows
<1>s. \A j \in 1 .. Len(results) :
        results[j] \in Row /\ Score[target][results[j].name] \in Nat
  BY <1>t, TypedRows
<1>k. PICK k \in 1 .. Len(results) : BestSoFar(k)
  BY DEF LoopInv
<1>1. CASE Iterate
  <2>1. /\ i \in 1 .. Len(results)
        /\ i' = i + 1
    BY <1>1, <1>t DEF Iterate, TypeOK
  <2>2. target' = target /\ results' = results /\ pc = "loop" /\ pc' = "loop"
    BY <1>1 DEF Iterate
  <2>3. CASE Exceeds(Similar)
    <3>1. score' = Score[target][results[i].name] /\ sim' = results[i]
      BY <1>1, <2>3 DEF Iterate, Similar
    <3>2. score' > score
      BY <2>3, <3>1 DEF Exceeds, Similar
    <3>3. TypeOK'
      <4>1. score' \in Nat /\ sim' \in Row
        BY <1>a, <1>s, <2>1, <2>2, <3>1
      <4>2. i' \in 1 .. Len(results') + 1
        BY <1>a, <1>s, <2>1, <2>2
      <4> QED
        BY <1>t, <2>1, <2>2, <4>1, <4>2 DEF TypeOK
    <3>4. \A j \in 1 .. i - 1 : Score[target][results[j].name] < score'
      <4> SUFFICES ASSUME NEW j \in 1 .. i - 1
                   PROVE  Score[target][results[j].name] < score'
        OBVIOUS
      <4>1. j \in 1 .. Len(results) /\ Score[target][results[j].name] <= score
        BY <1>k, <1>a, <2>1 DEF BestSoFar
      <4>2. Score[target][results[j].name] \in Nat /\ score' \in Nat
        BY <1>s, <2>1, <3>1, <4>1
      <4> QED
        BY <1>a, <3>2, <4>1, <4>2
    <3>5. \A j \in 1 .. i' - 1 : Score[target][results[j].name] <= score'
      <4> SUFFICES ASSUME NEW j \in 1 .. i
                   PROVE  Score[target][results[j].name] <= score'
        BY <1>a, <2>1
      <4>1. j \in 1 .. Len(results) /\ score' \in Nat
        BY <1>a, <1>s, <2>1, <3>1
      <4>2. Score[target][results[j].name] \in Nat
        BY <1>s, <4>1
      <4>3. CASE j = i
        BY <3>1, <4>1, <4>2, <4>3
      <4>4. CASE j \in 1 .. i - 1
        BY <3>4, <4>1, <4>2, <4>4
      <4> QED
        BY <1>a, <4>3, <4>4
    <3> QED
      <4>m. PICK m \in 1 .. Len(results) : m = i
        BY <2>1, <2>2
      <4>1. BestSoFar(m)'
        BY <4>m, <1>a, <1>s, <2>1, <2>2, <3>1, <3>2, <3>4, <3>5 DEF BestSoFar
      <4>2. \E n \in 1 .. Len(results') : BestSoFar(n)'
        BY <2>1, <2>2, <4>1
      <4> QED
        BY <2>1, <2>2, <3>3, <4>2 DEF LoopInv
  <2>4. CASE ~ Exceeds(Similar)
    <3>1. score' = score /\ sim' = sim
      BY <1>1, <2>4 DEF Iterate
    <3>2. Score[target][results[i].name] <= score
      BY <1>a, <1>s, <2>1, <2>2, <2>4 DEF Exceeds, Similar
    <3>3. TypeOK'
      BY <1>t, <1>a, <1>s, <2>1, <2>2, <3>1 DEF TypeOK
    <3>4. \A j \in 1 .. i' - 1 : Score[target][results[j].name] <= score'
      BY <1>k, <1>a, <1>s, <2>1, <2>2, <3>1, <3>2 DEF BestSoFar
    <3>5. BestSoFar(k)'
      BY <1>k, <1>a, <1>s, <2>1, <2>2, <3>1, <3>4 DEF BestSoFar
    <3>6. \E m \in 1 .. Len(results') : BestSoFar(m)'
      BY <2>1, <2>2, <3>5
    <3> QED
      BY <2>1, <2>2, <3>3, <3>6 DEF LoopInv
  <2> QED
    BY <2>3, <2>4
<1>2. CASE Return
  <2>1. i = Len(results) + 1
    BY <1>2, <1>t, <1>a, <1>s DEF Return, TypeOK
  <2>2. UNCHANGED <<target, results, i, score, sim>> /\ pc' = "returned"
    BY <1>2 DEF Return
  <2>3. BestSoFar(k)'
    BY <1>k, <2>2 DEF BestSoFar
  <2>4. \E m \in 1 .. Len(results') : BestSoFar(m)'
    BY <2>2, <2>3
  <2>5. TypeOK'
    BY <1>t, <2>2 DEF TypeOK
  <2> QED
    BY <2>1, <2>2, <2>4, <2>5 DEF LoopInv
<1>3. CASE UNCHANGED vars
  <2>1. TypeOK'
    BY <1>3, <1>t DEF vars, TypeOK
  <2>2. BestSoFar(k)'
    BY <1>3, <1>k DEF vars, BestSoFar
  <2>3. \E m \in 1 .. Len(results') : BestSoFar(m)'
    BY <1>3, <2>2 DEF vars
  <2> QED
    BY <1>3, <2>1, <2>3 DEF vars, LoopInv
<1> QED
  BY <1>1, <1>2, <1>3 DEF Next

LEMMA Exit == LoopInv => ReturnsMostSimilar
<1> SUFFICES ASSUME LoopInv, pc = "returned"
             PROVE  sim = MostSimilarRow(target, results)
  BY DEF ReturnsMostSimilar
<1> USE ScoreAssumption
<1> DEFINE sc(j) == Score[target][results[j].name]
           B == Best(target, results)
<1>a. /\ Len(results) \in Nat \ {0}
      /\ i = Len(results) + 1 /\ score \in Nat
      /\ \A j \in 1 .. Len(results) : sc(j) \in Nat
  BY TypedRows DEF LoopInv
<1>k. PICK k \in 1 .. Len(results) :
        /\ sim = results[k]
        /\ score > 0 => score = sc(k)
        /\ score = 0 => k = 1
        /\ \A j \in 1 .. i - 1 : sc(j) <= score
        /\ \A j \in 1 .. k - 1 : sc(j) < score
  BY DEF LoopInv, BestSoFar
<1>1. \A j \in 1 .. Len(results) : sc(j) <= score
  BY <1>a, <1>k
<1>2. k \in B
  <2>1. \A j \in 1 .. Len(results) : sc(j) <= sc(k)
    <3>1. CASE score > 0
      BY <3>1, <1>1, <1>k
    <3>2. CASE score = 0
      BY <3>2, <1>1, <1>a
    <3> QED
      BY <3>1, <3>2, <1>a
  <2> QED
    BY <2>1 DEF Best
<1>3. \A j \in B : k <= j
  <2> SUFFICES ASSUME NEW j \in B, j < k
               PROVE  FALSE
    BY <1>a DEF Best
  <2>1. j \in 1 .. k - 1 /\ sc(k) <= sc(j)
    BY <1>k DEF Best
  <2>2. sc(j) < score /\ score > 0
    BY <1>k, <1>a, <2>1
  <2>3. j \in 1 .. Len(results) /\ score = sc(k)
    BY <1>k, <2>2 DEF Best
  <2>4. sc(j) \in Nat /\ sc(k) \in Nat
    BY <1>a, <2>3
  <2> HIDE DEF sc
  <2> QED
    BY <1>a, <2>1, <2>2, <2>3, <2>4
<1>4. \A x \in B : (\A y \in B : x <= y) => x = k
  BY <1>2, <1>3, <1>a DEF Best
<1>5. Min(B) = k
  <2> HIDE DEF B
  <2> QED
    BY <1>2, <1>3, <1>4 DEF Min
<1> QED
  BY <1>5, <1>k DEF MostSimilarRow

\* At every step of the loop sim is the first best of the rows seen.
THEOREM LoopInvariance == Spec => []LoopInv
<1>1. LoopInv /\ [Next]_vars => LoopInv'
  BY StepLoopInv
<1> QED
  BY InitLoopInv, <1>1, PTL DEF Spec

\* What the function returns is the first of the most similar rows.
THEOREM MostSimilarReturned == Spec => []ReturnsMostSimilar
  BY Exit, LoopInvariance, PTL
=============================================================================
