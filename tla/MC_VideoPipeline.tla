------------------------- MODULE MC_VideoPipeline -------------------------
(***************************************************************************)
(* The runs of VideoPipeline: all constants stand in the cfg files.        *)
(***************************************************************************)
EXTENDS VideoPipeline
=============================================================================
