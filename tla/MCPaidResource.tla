--------------------------- MODULE MCPaidResource ---------------------------
(***************************************************************************)
(* Instances of PaidResourceServer for TLC.                                *)
(***************************************************************************)
EXTENDS PaidResourceServer, TLC

CONSTANTS c1, c2, c3, r1

=============================================================================
