------------------------ MODULE MC_ServerLifecycle ------------------------
(***************************************************************************)
(* The run of ServerLifecycle takes its constants from its cfg file.       *)
(***************************************************************************)
EXTENDS ServerLifecycle
=============================================================================
