-------------------------- MODULE MC_RtpAssembly --------------------------
(***************************************************************************)
(* The runs of RtpAssembly: all constants are numbers and sets of numbers  *)
(* and stand in the cfg files.                                             *)
(***************************************************************************)
EXTENDS RtpAssembly
=============================================================================
