---- MODULE MCBackupManager ----
(* Model-checking instance of BackupManager. *)
EXTENDS BackupManager, TLC

Symmetry == Permutations(Callers) \cup Permutations(AppThreads)

====
