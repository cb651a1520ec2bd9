------------------------ MODULE MCRoutingDiagnostics ------------------------
(***************************************************************************)
(* The script's instance of RoutingDiagnostics for TLC.                    *)
(***************************************************************************)
EXTENDS RoutingDiagnostics

(* TEST_AMOUNTS, in shannons: two tiny ones and one that is not.           *)
ScriptAmounts == <<1000, 10000, 1000000>>

=============================================================================
