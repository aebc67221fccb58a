--------------------------- MODULE MCAccessControl ---------------------------
(***************************************************************************)
(* Two users in any roles, one with a staff card and one with a teacher    *)
(* card, and two connections: enough for two administrators to be demoted  *)
(* at once, for a director and a subject, and for any two commands that    *)
(* race over one user.  MaxVersion 3 leaves room for an off-boarding, a    *)
(* restoration and the role changes before, between and after them.        *)
(***************************************************************************)
EXTENDS AccessControl, TLC

Symmetric == Permutations(Connection)
=============================================================================
