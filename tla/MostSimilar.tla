---------------------------- MODULE MostSimilar -----------------------------
(***************************************************************************)
(* The loop of findMostSimilar (src/Server/Node/eg_server.js) over the rows*)
(* that the database answered, one iteration per step.                     *)
(***************************************************************************)
EXTENDS Similarity

CONSTANT MaxRows    \* a bound on the rows of an answer, for TLC

ASSUME MaxRowsAssumption == MaxRows \in Nat

VARIABLES
  target,     \* the name to be matched
  results,    \* the rows of the answer
  i,          \* the row the loop has come to
  score,      \* the highest similarity so far
  sim,        \* simName and simPrice
  pc          \* "loop", then "returned"

vars == <<target, results, i, score, sim, pc>>

TypeOK ==
  /\ target \in Name
  /\ results \in Seq(Row) /\ results # <<>>
  /\ i \in 1 .. Len(results) + 1
  /\ score \in Nat
  /\ sim \in Row
  /\ pc \in {"loop", "returned"}

\* An answer without rows returns "NULL" before the loop.
Init ==
  /\ target \in Name
  /\ results \in UNION {[1 .. n -> Row] : n \in 1 .. MaxRows}
  /\ i = 1
  /\ score = 0
  /\ sim = results[1]
  /\ pc = "loop"

Similar == Score[target][results[i].name]

\* Fault: of equally similar rows the last one is taken.
FaultyExceeds(sc) == sc >= score

Exceeds(sc) == sc > score

Iterate ==
  /\ pc = "loop"
  /\ i <= Len(results)
  /\ IF Exceeds(Similar)
       THEN score' = Similar /\ sim' = results[i]
       ELSE UNCHANGED <<score, sim>>
  /\ i' = i + 1
  /\ UNCHANGED <<target, results, pc>>

Return ==
  /\ pc = "loop"
  /\ i > Len(results)
  /\ pc' = "returned"
  /\ UNCHANGED <<target, results, i, score, sim>>

Next == Iterate \/ Return

Spec == Init /\ [][Next]_vars

-----------------------------------------------------------------------------

\* The function returns the first of the most similar rows: ties go to the
\* row the database lists first, and when no word is shared to the first row.
ReturnsMostSimilar ==
  pc = "returned" => sim = MostSimilarRow(target, results)

\* Row k is the first best of the rows before i, or the first row while none
\* of those scored.
BestSoFar(k) ==
  /\ sim = results[k]
  /\ k < i \/ k = 1
  /\ score > 0 => score = Score[target][results[k].name]
  /\ score = 0 => k = 1
  /\ \A j \in 1 .. i - 1 : Score[target][results[j].name] <= score
  /\ \A j \in 1 .. k - 1 : Score[target][results[j].name] < score

\* The loop invariant: sim is the best of the rows seen so far.
LoopInv ==
  /\ TypeOK
  /\ \E k \in 1 .. Len(results) : BestSoFar(k)
  /\ pc = "returned" => i = Len(results) + 1
=============================================================================
