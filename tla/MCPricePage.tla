---------------------------- MODULE MCPricePage -----------------------------
(* An instance of PricePage for TLC: the lists of up to three items, where *)
(* a name may come twice, at the end or not, and one with a name that      *)
(* cannot be sent.                                                         *)
EXTENDS PricePage

CONSTANTS milk, eggs, salsa, walmart, safeway

MCLists ==
  { <<>>, <<milk>>, <<milk, eggs>>, <<eggs, eggs>>, <<milk, milk, eggs>>,
    <<eggs, milk, eggs>>, <<salsa, milk>> }

\* Walmart has something for every list, Safeway for those that end in eggs.
MCOffered ==
  [list \in MCLists |->
     [s \in Stores |->
        IF s = walmart /\ list # <<>> THEN 1
        ELSE IF list # <<>> /\ list[Len(list)] = eggs THEN 1 ELSE 0]]
=============================================================================
