---------------------------- MODULE MCPrincipals ----------------------------
(***************************************************************************)
(* Principals for TLC.  Ids, clients and credentials only occur in         *)
(* equalities, so permuting each of these sets is a symmetry.              *)
(***************************************************************************)
EXTENDS Principals, TLC

Symmetry ==
  Permutations(Ids) \cup Permutations(Clients) \cup
  Permutations(Credentials)
=============================================================================
