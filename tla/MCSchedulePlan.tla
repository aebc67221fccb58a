---------------------------- MODULE MCSchedulePlan ----------------------------
(***************************************************************************)
(* Three dates in weeks of two days: a row on the odd dates and one on the *)
(* even date.  The first date comes with two to go, the horizon is one     *)
(* day, so that the worker has something left to fill, and a plan can be   *)
(* made for the past, of today and for the future.                         *)
(***************************************************************************)
EXTENDS SchedulePlan

MCRows == {[weekday |-> 1, time |-> 1], [weekday |-> 0, time |-> 1]}
MCSpots == {<<LastDate, 1>>}
MCEnds == {Open}

\* One lesson on every date, no single lessons: the shortest plan whose changes
\* leave two rows in force.
MCOneRow == {[weekday |-> 0, time |-> 1]}
MCNoSpots == {}
=============================================================================
