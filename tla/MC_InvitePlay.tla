--------------------------- MODULE MC_InvitePlay ---------------------------
(***************************************************************************)
(* The runs of InvitePlay take their constants from their cfg files.       *)
(***************************************************************************)
EXTENDS InvitePlay
=============================================================================
