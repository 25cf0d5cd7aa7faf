----------------------------- MODULE MCTickLoop -----------------------------
(***************************************************************************)
(* Small instances of TickLoop for TLC.                                    *)
(***************************************************************************)
EXTENDS TickLoop

CONSTANTS c1, c2
MCCaller == {c1, c2}
=============================================================================
