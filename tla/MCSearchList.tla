---------------------------- MODULE MCSearchList ----------------------------
(* An instance of SearchList for TLC: two words that find one product in   *)
(* common and one that finds nothing.                                      *)
EXTENDS SearchList, TLC

CONSTANTS milk, oat, salt, milkCarton, oatMilk, oatFlakes

MCProducts ==
  milk :> <<milkCarton, oatMilk>> @@ oat :> <<oatMilk, oatFlakes>> @@ salt :> <<>>
=============================================================================
