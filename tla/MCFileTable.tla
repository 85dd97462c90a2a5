---- MODULE MCFileTable ----
(* Model-checking instance of FileTable. *)
EXTENDS FileTable, TLC

Symmetry == Permutations(Threads)

====
