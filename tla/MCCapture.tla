------------------------------ MODULE MCCapture -----------------------------
(***************************************************************************)
(* Capture, for TLC.  Four marks at three times: enough for a mark to be   *)
(* lost, doubled or late, for two suites, and for more intervals than may  *)
(* be kept.                                                                *)
(***************************************************************************)
EXTENDS Capture

MCIssued == {-1}
MCPolicies == {[walk |-> TRUE, idle |-> FALSE, highlight |-> TRUE, suites |-> TRUE]}
=============================================================================
