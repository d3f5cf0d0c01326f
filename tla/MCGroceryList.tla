--------------------------- MODULE MCGroceryList ----------------------------
(***************************************************************************)
(* Instances of GroceryList for TLC.                                       *)
(***************************************************************************)
EXTENDS GroceryList

CONSTANTS d1, d2, milk, eggs

TwoDevices == {d1, d2}
OneDevice == {d1}
TwoItems == {milk, eggs}
-----------------------------------------------------------------------------
(***************************************************************************)
(* A session that nothing disturbs: the app is not ended, the page stays   *)
(* in its place and the account is known before the first edit.  The hasty *)
(* user taps at will, the patient one waits for each change to settle.     *)
(***************************************************************************)

Undisturbed(d) ==
  \/ Mount(d) \/ OpenSearch(d) \/ CloseSearch(d)
  \/ UidArrives(d) \/ Answer(d)

HastySession ==
  /\ Init
  /\ [][\E d \in Devices : (uidKnown[d] /\ Edit(d)) \/ Undisturbed(d)]_vars
  /\ Fairness

PatientSession ==
  /\ Init
  /\ [][\E d \in Devices : (Quiet(d) /\ Edit(d)) \/ Undisturbed(d)]_vars
  /\ Fairness
=============================================================================
