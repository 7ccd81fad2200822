--------------------------- MODULE MCBackupSyncer ---------------------------
(* Small instances of BackupSyncer for TLC. *)
EXTENDS BackupSyncer, TLC

Symmetry == Permutations(Files)
=============================================================================
