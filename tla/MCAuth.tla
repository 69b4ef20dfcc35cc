-------------------------------- MODULE MCAuth ---------------------------------
(***************************************************************************)
(* AuthSession for TLC.  Request slots are interchangeable; tokens are not,*)
(* because the initial sessions are named.                                 *)
(***************************************************************************)
EXTENDS AuthSession, TLC

RequestSymmetry == Permutations(Requests)
================================================================================
