------------------------- MODULE MCInstructionClient -------------------------
(***************************************************************************)
(* Small instances of InstructionClient for TLC.                           *)
(***************************************************************************)
EXTENDS InstructionClient

CONSTANTS b1, b2, e1, e2

MCBot == {b1, b2}
MCEnvelope == {e1, e2}
=============================================================================
