---- MODULE MCCaptureCopy ----
(* Model-checking instance of CaptureCopy. *)
EXTENDS CaptureCopy, TLC

Symmetry == Permutations(AppThreads) \cup Permutations(Values)

====
