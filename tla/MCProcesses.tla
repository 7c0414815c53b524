---------------------------- MODULE MCProcesses ----------------------------
(* Instances of Processes for TLC; the constants are in the cfg files. *)
EXTENDS ProcessesProps
=============================================================================
