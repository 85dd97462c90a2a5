---- MODULE MCRangeLock ----
(* Model-checking instance of RangeLock: three threads, offsets 0..2, so   *)
(* that the ranges include empty ones, inverted ones, and pairs that are   *)
(* adjacent, nested, overlapping and equal.  No symmetry: RangeLock.cfg    *)
(* checks liveness and refinement, too.                                    *)
EXTENDS RangeLock

====
