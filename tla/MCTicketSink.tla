---------------------------- MODULE MCTicketSink ----------------------------
(***************************************************************************)
(* TicketSink for TLC.  Clients, companies and workers only occur in       *)
(* equalities, so permuting each of these sets is a symmetry.              *)
(***************************************************************************)
EXTENDS TicketSink, TLC

Symmetry ==
  Permutations(Clients) \cup Permutations(Companies) \cup Permutations(Workers)
=============================================================================
