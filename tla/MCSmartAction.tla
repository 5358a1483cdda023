--------------------------- MODULE MCSmartAction ----------------------------
(***************************************************************************)
(* SmartAction for TLC.  Workers only occur in equalities, so permuting    *)
(* them is a symmetry.                                                     *)
(***************************************************************************)
EXTENDS SmartAction, TLC

Symmetry == Permutations(Workers)
=============================================================================
