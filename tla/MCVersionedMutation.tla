------------------------- MODULE MCVersionedMutation -------------------------
(***************************************************************************)
(* Three connections race on two keys and two aggregates.  The commands    *)
(* include a repeat with another payload, a rival for the same version, a  *)
(* follow-up, and a key that is reused for another aggregate.  Other code  *)
(* also writes a1, up to a version no command expects, and creates a2.     *)
(***************************************************************************)
EXTENDS VersionedMutation

CONSTANTS s1, s2, s3, k1, k2, a1, a2, p, q

MCCommand ==
    {[key |-> k1, agg |-> a1, expected |-> 0, payload |-> p],
     [key |-> k1, agg |-> a1, expected |-> 0, payload |-> q],
     [key |-> k2, agg |-> a1, expected |-> 0, payload |-> p],
     [key |-> k2, agg |-> a1, expected |-> 1, payload |-> p],
     [key |-> k1, agg |-> a2, expected |-> 1, payload |-> p]}
=============================================================================
