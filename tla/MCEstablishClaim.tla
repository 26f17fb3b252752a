-------------------------- MODULE MCEstablishClaim --------------------------
(***************************************************************************)
(* EstablishClaim for model checking: users, requests and executions are   *)
(* alike.                                                                  *)
(***************************************************************************)
EXTENDS EstablishClaim, TLC

Symmetry == Permutations(Users) \union Permutations(Requests) \union Permutations(Jobs)
=============================================================================
