--------------------------- MODULE MCPlatformOutbox ---------------------------
(***************************************************************************)
(* Two events and two or three process incarnations with batches of two    *)
(* and two attempts: enough for a slow worker to be overtaken, for a late  *)
(* mark, and for a crash on a first and on a last attempt.  The second     *)
(* event is of a type that the dispatcher does not know.                   *)
(***************************************************************************)
EXTENDS PlatformOutbox, TLC

Symmetric == Permutations(Worker)
=============================================================================
