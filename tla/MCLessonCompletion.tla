-------------------------- MODULE MCLessonCompletion --------------------------
(***************************************************************************)
(* Two lessons and two workers with two attempts: enough for a claim that  *)
(* is overtaken, a crash on a first and on a last attempt, the lock        *)
(* inversion of claimDue and completion, and staff changing a lesson       *)
(* between any two steps.  Liveness has batches of one lesson, so that the *)
(* other waits for its turn to be claimed and to be recovered.             *)
(***************************************************************************)
EXTENDS LessonCompletion, TLC

Symmetric == Permutations(Worker) \union Permutations(Lesson)
=============================================================================
