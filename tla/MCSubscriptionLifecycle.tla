---------------------- MODULE MCSubscriptionLifecycle ----------------------
(***************************************************************************)
(* Three units for a price that does not divide by them, replaced by a     *)
(* smaller and cheaper package or by a dearer one; lessons of one and two  *)
(* units.  One payment covers the first contract and not the dearer one.   *)
(***************************************************************************)
EXTENDS SubscriptionLifecycle

CONSTANT e1

MCCost == [x \in Lesson |-> IF x = 2 THEN 2 ELSE 1]
MCIssued == {[units |-> 3, price |-> 5]}
MCPackages == {[units |-> 1, price |-> 3], [units |-> 3, price |-> 7]}
=============================================================================
