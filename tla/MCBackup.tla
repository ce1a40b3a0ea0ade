------------------------------- MODULE MCBackup -------------------------------
(***************************************************************************)
(* The invocations and the other producers of MCImporter under one policy, *)
(* with one backup, one loss of the store and one death of anybody.        *)
(***************************************************************************)
EXTENDS MCImporter, ReportBackup
=============================================================================
