--------------------------- MODULE MCViewerStream ---------------------------
(***************************************************************************)
(* Two columns with a budget of one, and one entity, for TLC.              *)
(***************************************************************************)
EXTENDS ViewerStream

CONSTANTS a, b, e
MCColumn == {a, b}
=============================================================================
