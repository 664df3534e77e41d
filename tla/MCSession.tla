----------------------------- MODULE MCSession ------------------------------
(***************************************************************************)
(* Session on small instances.                                             *)
(***************************************************************************)
EXTENDS SessionInv, TLC

ConnSymmetry == Permutations(Conn)
=============================================================================
