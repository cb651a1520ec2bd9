-------------------------- MODULE MCLegacyRedemption --------------------------
(***************************************************************************)
(* Instances of LegacyRedemption for TLC.                                  *)
(***************************************************************************)
EXTENDS LegacyRedemption, TLC

CONSTANTS v1, v2, q1, q2, q3

Symmetry == Permutations(Redeems)

=============================================================================
