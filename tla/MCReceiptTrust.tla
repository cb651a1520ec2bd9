--------------------------- MODULE MCReceiptTrust ---------------------------
(***************************************************************************)
(* Instances of ReceiptTrust for TLC.                                      *)
(***************************************************************************)
EXTENDS ReceiptTrust, TLC

CONSTANTS n1, n2, p1, p2, p3

Symmetry == Permutations(Names) \cup Permutations(Pairs)

=============================================================================
