---------------------------- MODULE MCAuthSession ----------------------------
(***************************************************************************)
(* Four sessions of one user and two connections: a family of three links  *)
(* beside another family, a reuse that races with the rotation of a        *)
(* successor, and a revocation that races with either.                     *)
(***************************************************************************)
EXTENDS AuthSession, TLC

Symmetric == Permutations(Session) \union Permutations(Connection)
=============================================================================
