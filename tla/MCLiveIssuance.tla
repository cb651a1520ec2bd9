--------------------------- MODULE MCLiveIssuance ---------------------------
(***************************************************************************)
(* Instances of LiveIssuance for TLC.                                      *)
(***************************************************************************)
EXTENDS LiveIssuance

(* The node's clock may be behind, in step or ahead.                       *)
SomeSkews == {-1, 0, 1}

=============================================================================
