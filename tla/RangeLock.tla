---- MODULE RangeLock ----
(***************************************************************************)
(* The byte-range lock of a source_file (src/backup/source_file.cc).       *)
(*                                                                         *)
(* m_locked_ranges is a vector of the ranges that are locked.  lock_range  *)
(* and unlock_range hold the object's m_mutex throughout, except inside    *)
(* pthread_cond_wait, so each test of the vector together with what        *)
(* follows it is one step.  A thread inside pthread_cond_wait is           *)
(* "waiting": it takes no step until the condition variable is broadcast,  *)
(* or until pthread_cond_wait returns spuriously, as POSIX allows.         *)
(*                                                                         *)
(* The callers pass uint64_t ranges they compute from an offset and a      *)
(* length, so a range may be empty or even inverted (hi < lo, after a      *)
(* failed lseek); such a range locks no byte but still has an entry.       *)
(***************************************************************************)
EXTENDS Integers, Sequences, Functions

CONSTANTS Threads,    \* the threads that lock ranges of this file
          MaxOffset   \* the largest offset; the code's LLONG_MAX

ASSUME OffsetAssumption == MaxOffset \in Nat

VARIABLES lockedRanges,   \* m_locked_ranges, in vector order
          phase,          \* where each thread is with respect to this lock
          request,        \* the range each thread passed to lock_range
          dead            \* manager_state::m_is_dead, set by a fatal_error

vars == <<lockedRanges, phase, request, dead>>

----------------------------------------------------------------------------

Ranges == [lo : 0..MaxOffset, hi : 0..MaxOffset]

(* The request of a thread that neither holds nor wants a range. *)
NoRequest == [lo |-> 0, hi |-> 0]

(* "out": no call in progress; "trying": about to test the vector;         *)
(* "waiting": in pthread_cond_wait; "holding": lock_range has returned.    *)
Phases == {"out", "trying", "waiting", "holding"}

TypeOK ==
    /\ lockedRanges \in Seq(Ranges)
    /\ phase \in [Threads -> Phases]
    /\ request \in [Threads -> Ranges]
    /\ dead \in BOOLEAN

(* Mutant: only the start of the second range is tested. *)
RangesIntersect_StartOnly(r, s) ==
    /\ r.lo < r.hi
    /\ s.lo < s.hi
    /\ r.lo <= s.lo
    /\ s.lo < r.hi

RangesIntersect(r, s) ==
    /\ r.lo < r.hi
    /\ s.lo < s.hi
    /\ s.lo < r.hi
    /\ r.lo < s.hi

LockRangeWouldBlock(r) ==
    \E i \in DOMAIN lockedRanges : RangesIntersect(lockedRanges[i], r)

(* m_locked_ranges[i] = m_locked_ranges[size-1], then pop_back(). *)
RemoveSwap(s, i) ==
    [k \in 1..Len(s) - 1 |-> IF k = i THEN s[Len(s)] ELSE s[k]]

Locked(r) == \E i \in DOMAIN lockedRanges : lockedRanges[i] = r

(* The index at which unlock_range's loop stops. *)
FirstMatch(r) ==
    CHOOSE i \in DOMAIN lockedRanges :
        /\ lockedRanges[i] = r
        /\ \A j \in 1..i - 1 : lockedRanges[j] # r

----------------------------------------------------------------------------

Init ==
    /\ lockedRanges = <<>>
    /\ phase = [t \in Threads |-> "out"]
    /\ request = [t \in Threads |-> NoRequest]
    /\ dead = FALSE

(* A call of lock_range(r.lo, r.hi) begins. *)
LockRange(t, r) ==
    /\ phase[t] = "out"
    /\ phase' = [phase EXCEPT ![t] = "trying"]
    /\ request' = [request EXCEPT ![t] = r]
    /\ UNCHANGED <<lockedRanges, dead>>

(* Mutant: a range that is already in the vector is not pushed again. *)
LockGranted_NoDuplicates(t) ==
    /\ phase[t] = "trying"
    /\ ~LockRangeWouldBlock(request[t])
    /\ lockedRanges' = IF Locked(request[t]) THEN lockedRanges
                       ELSE Append(lockedRanges, request[t])
    /\ phase' = [phase EXCEPT ![t] = "holding"]
    /\ UNCHANGED <<request, dead>>

(* The while loop's test is false: push_back the range and return. *)
LockGranted(t) ==
    /\ phase[t] = "trying"
    /\ ~LockRangeWouldBlock(request[t])
    /\ lockedRanges' = Append(lockedRanges, request[t])
    /\ phase' = [phase EXCEPT ![t] = "holding"]
    /\ UNCHANGED <<request, dead>>

(* The test is true: pthread_cond_wait gives up m_mutex. *)
LockBlocks(t) ==
    /\ phase[t] = "trying"
    /\ LockRangeWouldBlock(request[t])
    /\ phase' = [phase EXCEPT ![t] = "waiting"]
    /\ UNCHANGED <<lockedRanges, request, dead>>

(* pthread_cond_wait returns although nobody signalled. *)
SpuriousWakeup(t) ==
    /\ phase[t] = "waiting"
    /\ phase' = [phase EXCEPT ![t] = "trying"]
    /\ UNCHANGED <<lockedRanges, request, dead>>

(* Mutant: pthread_cond_signal instead of pthread_cond_broadcast. *)
Broadcast_Signal(t) ==
    \/ \E u \in Threads :
          /\ phase[u] = "waiting"
          /\ phase' = [phase EXCEPT ![t] = "out", ![u] = "trying"]
    \/ /\ \A u \in Threads : phase[u] # "waiting"
       /\ phase' = [phase EXCEPT ![t] = "out"]

(* Mutant: nobody is signalled. *)
Broadcast_Forgotten(t) == phase' = [phase EXCEPT ![t] = "out"]

(* t leaves unlock_range having signalled every waiting thread. *)
Broadcast(t) ==
    phase' = [u \in Threads |-> IF u = t THEN "out"
                                ELSE IF phase[u] = "waiting" THEN "trying"
                                ELSE phase[u]]

(* A call of unlock_range with the range t locked.  It removes one copy of *)
(* the range and broadcasts; if the vector has no such range it makes the  *)
(* fatal error "Range doesn't exist" and signals nobody.                   *)
UnlockRange(t) ==
    /\ phase[t] = "holding"
    /\ IF Locked(request[t])
       THEN /\ lockedRanges' = RemoveSwap(lockedRanges, FirstMatch(request[t]))
            /\ Broadcast(t)
            /\ UNCHANGED dead
       ELSE /\ dead' = TRUE
            /\ phase' = [phase EXCEPT ![t] = "out"]
            /\ UNCHANGED lockedRanges
    /\ request' = [request EXCEPT ![t] = NoRequest]

Next ==
    \E t \in Threads :
        \/ \E r \in Ranges : LockRange(t, r)
        \/ LockGranted(t)
        \/ LockBlocks(t)
        \/ SpuriousWakeup(t)
        \/ UnlockRange(t)

Spec == Init /\ [][Next]_vars

(* A thread inside lock_range or unlock_range keeps running when it can,   *)
(* and every caller in manager.cc and copier.cc unlocks what it locked     *)
(* (no path returns between the two calls).  Nothing makes a thread call   *)
(* lock_range, and nothing makes m_mutex fair.                             *)
Fairness ==
    \A t \in Threads : /\ WF_vars(LockGranted(t) \/ LockBlocks(t))
                       /\ WF_vars(UnlockRange(t))

FairSpec == Spec /\ Fairness

----------------------------------------------------------------------------
(*                              Properties                                 *)

Holders == {t \in Threads : phase[t] = "holding"}

Bytes(r) == {b \in 0..MaxOffset : r.lo <= b /\ b < r.hi}

(* No two threads ever hold a byte in common: what makes the pair "write   *)
(* the source, then write the backup" atomic with respect to the copier    *)
(* and to other writers (manager.cc:461).                                  *)
MutualExclusion ==
    \A t, u \in Holders :
        t # u => Bytes(request[t]) \cap Bytes(request[u]) = {}

(* The vector holds exactly one entry per holder.  An entry too many would *)
(* block its bytes for ever; one too few, with two equal empty ranges      *)
(* locked, would make somebody's unlock_range fail.                        *)
OneEntryPerHolder ==
    \E slot \in Bijection(Holders, DOMAIN lockedRanges) :
        \A t \in Holders : lockedRanges[slot[t]] = request[t]

(* unlock_range's fatal_error is never reached: the backup system is not   *)
(* killed by its own locking (source_file.cc:186).                         *)
UnlockNeverFails == ~dead

(* No wakeup is lost: a thread that sleeps in pthread_cond_wait is blocked *)
(* by a range that is locked now, whose unlock will wake it.               *)
NoLostWakeup ==
    \A t \in Threads : phase[t] = "waiting" => LockRangeWouldBlock(request[t])

(* A thread that goes to sleep in lock_range is woken again.  (That it     *)
(* then gets the lock is not promised: it may find the range taken again.) *)
SleepersWake ==
    \A t \in Threads : phase[t] = "waiting" ~> phase[t] # "waiting"

(* The lock implements mutual exclusion over bytes. *)
heldRanges == [t \in Threads |-> IF phase[t] = "holding" THEN {request[t]}
                                 ELSE {}]

Abstract == INSTANCE RangeMutex WITH held <- heldRanges

ImplementsRangeMutex == Abstract!Spec

====
