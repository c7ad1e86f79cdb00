------------------------------ MODULE MCBackups ------------------------------
(***************************************************************************)
(* Two backups of one destination over the database, a document and a      *)
(* customer source; two restores of one archive and another process, over  *)
(* the config and one more file.                                           *)
(***************************************************************************)
EXTENDS Backups
===============================================================================
