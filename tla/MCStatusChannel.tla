--------------------------- MODULE MCStatusChannel ---------------------------
(***************************************************************************)
(* Two requests whose replies together have twice as many lines as the     *)
(* buffer of the bot holds.                                                *)
(***************************************************************************)
EXTENDS StatusChannel
=============================================================================
