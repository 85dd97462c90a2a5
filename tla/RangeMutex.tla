---- MODULE RangeMutex ----
(***************************************************************************)
(* What the byte-range lock of a source_file promises its callers          *)
(* (src/backup/source_file.h, lock_range and unlock_range): a thread that  *)
(* holds [lo, hi) excludes every other thread from the bytes of it.        *)
(*                                                                         *)
(* The abstraction knows bytes, not interval endpoints: two ranges exclude *)
(* each other when they have a byte in common.  There is no vector, no     *)
(* condition variable and no waiting; RangeLock is shown to implement it.  *)
(***************************************************************************)
EXTENDS Integers

CONSTANTS Threads,    \* the threads of the program
          MaxOffset   \* the largest offset; the code's LLONG_MAX

VARIABLE held         \* the range each thread holds, as a set of at most one

----------------------------------------------------------------------------

Ranges == [lo : 0..MaxOffset, hi : 0..MaxOffset]

(* The bytes of the half-open interval [r.lo, r.hi). *)
Bytes(r) == {b \in 0..MaxOffset : r.lo <= b /\ b < r.hi}

----------------------------------------------------------------------------

Init == held = [t \in Threads |-> {}]

Acquire(t, r) ==
    /\ held[t] = {}
    /\ \A u \in Threads : \A s \in held[u] : Bytes(s) \cap Bytes(r) = {}
    /\ held' = [held EXCEPT ![t] = {r}]

Release(t) ==
    /\ held[t] # {}
    /\ held' = [held EXCEPT ![t] = {}]

Next == \E t \in Threads : Release(t) \/ \E r \in Ranges : Acquire(t, r)

Spec == Init /\ [][Next]_held

====
