--------------------------- MODULE MC_MainWindow ---------------------------
(***************************************************************************)
(* The run of MainWindow takes its constants from its cfg file.            *)
(***************************************************************************)
EXTENDS MainWindow
=============================================================================
