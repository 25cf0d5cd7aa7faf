--------------------------- MODULE MCInstructions ---------------------------
(***************************************************************************)
(* Two navigateToBlock, three breakBlock, holdInput and getInventory, a    *)
(* suite of two tests and a suite of a skipped one, and one walk through   *)
(* at most three of four forms, for TLC.                                   *)
(***************************************************************************)
EXTENDS Instructions

CONSTANTS r1, r2, r3, t1, t2, t3, f1, f2, f3, f4

MCRun == {r1, r2}
MCRun3 == {r1, r2, r3}
MCSuites == <<<<t1, t2>>, <<t3>>>>
MCForm == {f1, f2, f3, f4}
=============================================================================
