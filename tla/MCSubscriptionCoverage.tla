----------------------- MODULE MCSubscriptionCoverage -----------------------
(***************************************************************************)
(* Three lessons: one that frees units, one that gets them and one that is *)
(* passed over; a subscription of two units and one of one, so that a plan *)
(* can need all, half or none of the first or move to the second.          *)
(***************************************************************************)
EXTENDS SubscriptionCoverage, TLC

CONSTANTS c1, c2

MCTotal == [s \in Sub |-> 3 - s]
MCPlan == {Unfunded} \union
          {p \in {[sub |-> 1, units |-> 1], [sub |-> 1, units |-> 2],
                  [sub |-> 2, units |-> 1]} : p.sub \in Sub}

Symmetric == Permutations(Connection)
=============================================================================
