-------------------------------- MODULE MCPaper --------------------------------
(***************************************************************************)
(* An instance of PaperView for TLC.                                       *)
(***************************************************************************)
EXTENDS PaperView, TLC
=============================================================================
