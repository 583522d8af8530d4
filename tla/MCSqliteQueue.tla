---------------------------- MODULE MCSqliteQueue ----------------------------
(***************************************************************************)
(* Instances of SqliteQueue for TLC.                                       *)
(***************************************************************************)
EXTENDS SqliteQueue, TLC

=============================================================================
