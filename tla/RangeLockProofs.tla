---- MODULE RangeLockProofs ----
(***************************************************************************)
(* Proofs about RangeLock, for any set of threads and any largest offset.  *)
(*                                                                         *)
(* MutualExclusion is not inductive alone: a granted lock is compared with *)
(* the entries of the vector, not with the holders.  The bridge is         *)
(* OneEntryPerHolder, a bijection from holders to entries, and it has to   *)
(* be a bijection because empty ranges may be locked many times over, so   *)
(* the entry an unlock removes may be the one that stands for another      *)
(* holder of an equal range.                                               *)
(***************************************************************************)
EXTENDS RangeLock, SequenceTheorems, WellFoundedInduction, TLAPS

IInv == /\ TypeOK
        /\ OneEntryPerHolder
        /\ MutualExclusion
        /\ UnlockNeverFails
        /\ NoLostWakeup

----------------------------------------------------------------------------
(*                     Lemmas about the operators                          *)

(* The endpoint test of ranges_intersect is exactly "have a byte in        *)
(* common".                                                                *)
LEMMA IntersectIffShareByte ==
    ASSUME NEW r \in Ranges, NEW s \in Ranges
    PROVE  RangesIntersect(r, s) <=> Bytes(r) \cap Bytes(s) # {}
<1> USE OffsetAssumption
<1>1. ASSUME RangesIntersect(r, s)
      PROVE  Bytes(r) \cap Bytes(s) # {}
  <2> DEFINE b == IF r.lo < s.lo THEN s.lo ELSE r.lo
  <2>1. b \in Bytes(r) /\ b \in Bytes(s)
    BY <1>1 DEF RangesIntersect, Bytes, Ranges
  <2> QED
    BY <2>1
<1>2. ASSUME NEW b \in Bytes(r) \cap Bytes(s)
      PROVE  RangesIntersect(r, s)
  BY DEF RangesIntersect, Bytes, Ranges
<1> QED
  BY <1>1, <1>2

(* Every nonempty set of naturals has a least element. *)
LessThan == {p \in Nat \X Nat : p[1] < p[2]}

LEMMA LessThanWellFounded == IsWellFoundedOn(LessThan, Nat)
  BY NatLessThanWellFounded DEF OpToRel, LessThan

LEMMA LeastElement ==
    ASSUME NEW T, T \subseteq Nat, T # {}
    PROVE  \E x \in T : \A y \in T : x <= y
<1>1. PICK x \in T : \A y \in T : ~(<<y, x>> \in LessThan)
  BY LessThanWellFounded, WFMin, Zenon
<1>2. SUFFICES ASSUME NEW y \in T, y < x
               PROVE  FALSE
  OBVIOUS
<1>3. <<y, x>> \in Nat \X Nat
  OBVIOUS
<1>4. <<y, x>> \in LessThan
  BY <1>2, <1>3 DEF LessThan
<1> QED
  BY <1>1, <1>4

(* unlock_range's loop stops at an entry equal to the range it was passed, *)
(* if there is one.                                                        *)
LEMMA FirstMatchFinds ==
    ASSUME TypeOK, NEW r, Locked(r)
    PROVE  /\ FirstMatch(r) \in DOMAIN lockedRanges
           /\ lockedRanges[FirstMatch(r)] = r
<1> DEFINE T == {i \in DOMAIN lockedRanges : lockedRanges[i] = r}
<1>1. DOMAIN lockedRanges = 1..Len(lockedRanges) /\ Len(lockedRanges) \in Nat
  BY DEF TypeOK
<1>2. T \subseteq Nat /\ T # {}
  BY <1>1 DEF Locked
<1>3. PICK x \in T : \A y \in T : x <= y
  BY <1>2, LeastElement
<1>4. \A j \in 1..x - 1 : lockedRanges[j] # r
  BY <1>1, <1>3
<1> QED
  BY <1>3, <1>4 DEF FirstMatch

(* Swapping the last entry in and popping shortens the vector by one and   *)
(* loses only the entry at i.                                              *)
LEMMA RemoveSwapProperties ==
    ASSUME NEW S, NEW s \in Seq(S), NEW i \in DOMAIN s
    PROVE  /\ RemoveSwap(s, i) \in Seq(S)
           /\ DOMAIN RemoveSwap(s, i) = 1..Len(s) - 1
           /\ \A k \in 1..Len(s) - 1 :
                 RemoveSwap(s, i)[k] = IF k = i THEN s[Len(s)] ELSE s[k]
<1>1. Len(s) \in Nat /\ Len(s) - 1 \in Nat /\ DOMAIN s = 1..Len(s)
  OBVIOUS
<1>2. RemoveSwap(s, i) \in [1..Len(s) - 1 -> S]
  BY <1>1 DEF RemoveSwap
<1>3. RemoveSwap(s, i) \in Seq(S)
  BY <1>1, <1>2, SeqDef
<1> QED
  BY <1>3 DEF RemoveSwap

----------------------------------------------------------------------------
(*                          The invariant                                  *)

LEMMA InitIInv == Init => IInv
<1> SUFFICES ASSUME Init PROVE IInv
  OBVIOUS
<1> USE OffsetAssumption
<1>1. Holders = {} /\ DOMAIN lockedRanges = {}
  BY DEF Init, Holders
<1>2. TypeOK
  <2>1. lockedRanges \in Seq(Ranges)
    BY EmptySeq DEF Init
  <2>2. NoRequest \in Ranges
    BY DEF Ranges, NoRequest
  <2>3. request \in [Threads -> Ranges]
    BY <2>2 DEF Init
  <2>4. phase \in [Threads -> Phases] /\ dead \in BOOLEAN
    BY DEF Init, Phases
  <2> QED
    BY <2>1, <2>3, <2>4 DEF TypeOK
<1>3. OneEntryPerHolder
  <2> DEFINE f == [t \in {} |-> 0]
  <2>1. f \in Bijection({}, {})
    BY DEF Bijection, Injection, Surjection, IsInjective
  <2> QED
    BY <1>1, <2>1 DEF OneEntryPerHolder
<1>4. MutualExclusion
  BY <1>1 DEF MutualExclusion
<1>5. UnlockNeverFails /\ NoLostWakeup
  BY DEF Init, UnlockNeverFails, NoLostWakeup
<1> QED
  BY <1>2, <1>3, <1>4, <1>5 DEF IInv

(* A holder always finds its range in the vector. *)
LEMMA HolderIsLocked ==
    ASSUME IInv, NEW t \in Holders
    PROVE  Locked(request[t])
<1>1. PICK slot \in Bijection(Holders, DOMAIN lockedRanges) :
           \A u \in Holders : lockedRanges[slot[u]] = request[u]
  BY DEF IInv, OneEntryPerHolder
<1>2. slot[t] \in DOMAIN lockedRanges
  BY DEF Bijection, Injection
<1> QED
  BY <1>1, <1>2 DEF Locked

LEMMA LockGrantedIInv ==
    ASSUME IInv, NEW t \in Threads, LockGranted(t)
    PROVE  IInv'
<1> DEFINE n == Len(lockedRanges)
           req == request[t]
<1> USE DEF LockGranted
<1>1. /\ req \in Ranges
      /\ n \in Nat
      /\ DOMAIN lockedRanges = 1..n
      /\ DOMAIN lockedRanges' = 1..n + 1
      /\ \A k \in 1..n : lockedRanges'[k] = lockedRanges[k]
      /\ lockedRanges'[n + 1] = req
      /\ lockedRanges' \in Seq(Ranges)
  BY AppendProperties DEF IInv, TypeOK
<1>2. /\ Holders' = Holders \cup {t}
      /\ t \notin Holders
  BY DEF Holders, IInv, TypeOK
<1>3. TypeOK'
  BY <1>1 DEF IInv, TypeOK, Phases
<1>4. PICK slot \in Bijection(Holders, DOMAIN lockedRanges) :
           \A u \in Holders : lockedRanges[slot[u]] = request[u]
  BY DEF IInv, OneEntryPerHolder
<1>5. OneEntryPerHolder'
  <2> DEFINE f == [u \in Holders \cup {t} |-> IF u = t THEN n + 1 ELSE slot[u]]
  <2>1. /\ slot \in [Holders -> 1..n]
        /\ \A a, b \in Holders : slot[a] = slot[b] => a = b
        /\ \A k \in 1..n : \E u \in Holders : slot[u] = k
    BY <1>1 DEF Bijection, Injection, Surjection, IsInjective
  <2>2. f \in [Holders \cup {t} -> 1..n + 1]
    BY <2>1, <1>1, <1>2
  <2>3. \A a, b \in Holders \cup {t} : f[a] = f[b] => a = b
    BY <2>1, <1>1, <1>2
  <2>4. \A k \in 1..n + 1 : \E u \in Holders \cup {t} : f[u] = k
    BY <2>1, <1>1, <1>2
  <2>5. f \in Bijection(Holders \cup {t}, 1..n + 1)
    BY <2>2, <2>3, <2>4 DEF Bijection, Injection, Surjection, IsInjective
  <2>6. \A u \in Holders \cup {t} : lockedRanges'[f[u]] = request'[u]
    BY <2>1, <1>1, <1>2, <1>4
  <2> QED
    BY <2>5, <2>6, <1>1, <1>2 DEF OneEntryPerHolder
<1>6. ASSUME NEW u \in Holders
      PROVE  Bytes(request[u]) \cap Bytes(req) = {}
  <2>1. /\ slot[u] \in DOMAIN lockedRanges
        /\ request[u] \in Ranges
    BY DEF Bijection, Injection, Holders, IInv, TypeOK
  <2>2. ~RangesIntersect(request[u], req)
    BY <2>1, <1>4 DEF LockRangeWouldBlock
  <2> QED
    BY <2>1, <2>2, <1>1, IntersectIffShareByte
<1>7. MutualExclusion'
  BY <1>2, <1>6 DEF MutualExclusion, IInv, Bytes
<1>8. UnlockNeverFails'
  BY DEF UnlockNeverFails, IInv
<1>9. NoLostWakeup'
  <2> SUFFICES ASSUME NEW u \in Threads, phase'[u] = "waiting"
               PROVE  LockRangeWouldBlock(request[u])'
    BY DEF NoLostWakeup
  <2>1. phase[u] = "waiting"
    BY DEF IInv, TypeOK
  <2>2. PICK i \in DOMAIN lockedRanges :
             RangesIntersect(lockedRanges[i], request[u])
    BY <2>1 DEF IInv, NoLostWakeup, LockRangeWouldBlock
  <2>3. /\ i \in DOMAIN lockedRanges'
        /\ lockedRanges'[i] = lockedRanges[i]
        /\ request' = request
    BY <1>1
  <2> QED
    BY <2>2, <2>3 DEF LockRangeWouldBlock, RangesIntersect
<1> QED
  BY <1>3, <1>5, <1>7, <1>8, <1>9 DEF IInv

LEMMA UnlockRangeIInv ==
    ASSUME IInv, NEW t \in Threads, UnlockRange(t)
    PROVE  IInv'
<1> DEFINE n == Len(lockedRanges)
           req == request[t]
           i == FirstMatch(req)
<1>1. /\ n \in Nat
      /\ DOMAIN lockedRanges = 1..n
      /\ req \in Ranges
  BY DEF IInv, TypeOK
<1>2. t \in Holders
  BY DEF UnlockRange, Holders
<1>3. Locked(req)
  BY <1>2, HolderIsLocked
<1>4. /\ lockedRanges' = RemoveSwap(lockedRanges, i)
      /\ phase' = [u \in Threads |-> IF u = t THEN "out"
                                      ELSE IF phase[u] = "waiting" THEN "trying"
                                      ELSE phase[u]]
      /\ request' = [request EXCEPT ![t] = NoRequest]
      /\ UNCHANGED dead
  BY <1>3 DEF UnlockRange, Broadcast
<1>5. i \in 1..n /\ lockedRanges[i] = req
  BY <1>1, <1>3, FirstMatchFinds DEF IInv
<1>6. /\ lockedRanges' \in Seq(Ranges)
      /\ DOMAIN lockedRanges' = 1..n - 1
      /\ \A k \in 1..n - 1 :
            lockedRanges'[k] = IF k = i THEN lockedRanges[n] ELSE lockedRanges[k]
  BY <1>1, <1>4, <1>5, RemoveSwapProperties DEF IInv, TypeOK
<1>7. /\ Holders' = Holders \ {t}
      /\ \A u \in Holders' : request'[u] = request[u]
  BY <1>4 DEF Holders, IInv, TypeOK
<1>8. TypeOK'
  <2>1. NoRequest \in Ranges
    BY OffsetAssumption DEF NoRequest, Ranges
  <2> QED
    BY <2>1, <1>4, <1>6 DEF IInv, TypeOK, Phases
<1>9. OneEntryPerHolder'
  <2>1. PICK slot \in Bijection(Holders, DOMAIN lockedRanges) :
             \A u \in Holders : lockedRanges[slot[u]] = request[u]
    BY DEF IInv, OneEntryPerHolder
  <2>2. /\ slot \in [Holders -> 1..n]
        /\ \A a, b \in Holders : slot[a] = slot[b] => a = b
        /\ \A k \in 1..n : \E u \in Holders : slot[u] = k
    BY <1>1 DEF Bijection, Injection, Surjection, IsInjective
  (* The holder whose entry was removed takes over t's, which is equal;   *)
  (* then the holder of the last entry follows it to its new place.       *)
  <2> DEFINE before(u) == IF slot[u] = i THEN slot[t] ELSE slot[u]
             f == [u \in Holders \ {t} |->
                     IF before(u) = n THEN i ELSE before(u)]
  <2>3. ASSUME NEW u \in Holders \ {t}
        PROVE  /\ before(u) \in 1..n
               /\ before(u) # i
               /\ lockedRanges[before(u)] = request[u]
    BY <1>2, <1>5, <2>1, <2>2
  <2>4. \A a, b \in Holders \ {t} : before(a) = before(b) => a = b
    BY <1>2, <2>2
  <2>5. f \in [Holders \ {t} -> 1..n - 1]
    BY <1>1, <1>5, <2>3
  <2>6. \A a, b \in Holders \ {t} : f[a] = f[b] => a = b
    <3> SUFFICES ASSUME NEW a \in Holders \ {t}, NEW b \in Holders \ {t},
                        f[a] = f[b]
                 PROVE  before(a) = before(b)
      BY <2>4
    <3> HIDE DEF before
    <3> QED
      BY <1>1, <1>5, <2>3
  <2>7. ASSUME NEW k \in 1..n - 1
        PROVE  \E u \in Holders \ {t} : f[u] = k
    <3> DEFINE m == IF k = i THEN n ELSE k
    <3>1. m \in 1..n /\ m # i
      BY <1>1, <1>5
    <3>2. \E u \in Holders \ {t} : before(u) = m
      <4>1. CASE m = slot[t]
        <5>1. PICK u \in Holders : slot[u] = i
          BY <1>5, <2>2
        <5> QED
          BY <4>1, <5>1, <3>1
      <4>2. CASE m # slot[t]
        <5>1. PICK u \in Holders : slot[u] = m
          BY <3>1, <2>2
        <5> QED
          BY <4>2, <5>1, <3>1
      <4> QED
        BY <4>1, <4>2
    <3>3. PICK u \in Holders \ {t} : before(u) = m
      BY <3>2
    <3>4. f[u] = k
      <4> HIDE DEF before
      <4> QED
        BY <3>3, <1>1
    <3> QED
      BY <3>4
  <2>8. \A u \in Holders \ {t} : lockedRanges'[f[u]] = request'[u]
    <3> SUFFICES ASSUME NEW u \in Holders \ {t}
                 PROVE  lockedRanges'[f[u]] = request[u]
      BY <1>7
    <3> HIDE DEF before
    <3>1. f[u] \in 1..n - 1
      BY <2>5
    <3>2. f[u] = IF before(u) = n THEN i ELSE before(u)
      OBVIOUS
    <3> QED
      BY <3>1, <3>2, <1>6, <2>3
  <2>9. f \in Bijection(Holders \ {t}, 1..n - 1)
    BY <2>5, <2>6, <2>7 DEF Bijection, Injection, Surjection, IsInjective
  <2> QED
    BY <2>8, <2>9, <1>6, <1>7 DEF OneEntryPerHolder
<1>10. MutualExclusion'
  BY <1>4, <1>7 DEF MutualExclusion, IInv, Bytes
<1>11. UnlockNeverFails'
  BY <1>4 DEF UnlockNeverFails, IInv
<1>12. NoLostWakeup'
  BY <1>4 DEF NoLostWakeup
<1> QED
  BY <1>8, <1>9, <1>10, <1>11, <1>12 DEF IInv

(* The steps that neither lock nor unlock leave the vector and the holders *)
(* alone.                                                                  *)
LEMMA NoEntryChangeIInv ==
    ASSUME IInv, UNCHANGED <<lockedRanges, dead>>, Holders' = Holders,
           TypeOK',
           \A u \in Holders : request'[u] = request[u],
           NoLostWakeup'
    PROVE  IInv'
<1>1. OneEntryPerHolder'
  BY DEF IInv, OneEntryPerHolder
<1>2. MutualExclusion'
  BY DEF IInv, MutualExclusion, Bytes
<1>3. UnlockNeverFails'
  BY DEF IInv, UnlockNeverFails
<1> QED
  BY <1>1, <1>2, <1>3 DEF IInv

LEMMA StepIInv == IInv /\ [Next]_vars => IInv'
<1> SUFFICES ASSUME IInv, [Next]_vars
             PROVE  IInv'
  OBVIOUS
<1>1. ASSUME NEW t \in Threads, NEW r \in Ranges, LockRange(t, r)
      PROVE  IInv'
  <2>1. TypeOK'
    BY <1>1 DEF LockRange, IInv, TypeOK, Phases
  <2>2. Holders' = Holders /\ t \notin Holders
    BY <1>1 DEF LockRange, Holders, IInv, TypeOK
  <2>3. NoLostWakeup'
    BY <1>1 DEF LockRange, NoLostWakeup, LockRangeWouldBlock, RangesIntersect,
                IInv, TypeOK
  <2> QED
    BY <1>1, <2>1, <2>2, <2>3, NoEntryChangeIInv DEF LockRange, Holders, IInv, TypeOK
<1>2. ASSUME NEW t \in Threads, LockGranted(t)
      PROVE  IInv'
  BY <1>2, LockGrantedIInv
<1>3. ASSUME NEW t \in Threads, LockBlocks(t) \/ SpuriousWakeup(t)
      PROVE  IInv'
  <2>1. TypeOK'
    BY <1>3 DEF LockBlocks, SpuriousWakeup, IInv, TypeOK, Phases
  <2>2. Holders' = Holders
    BY <1>3 DEF LockBlocks, SpuriousWakeup, Holders, IInv, TypeOK
  <2>3. NoLostWakeup'
    BY <1>3 DEF LockBlocks, SpuriousWakeup, NoLostWakeup, LockRangeWouldBlock,
                RangesIntersect, IInv, TypeOK
  <2> QED
    BY <1>3, <2>1, <2>2, <2>3, NoEntryChangeIInv DEF LockBlocks, SpuriousWakeup
<1>4. ASSUME NEW t \in Threads, UnlockRange(t)
      PROVE  IInv'
  BY <1>4, UnlockRangeIInv
<1>5. CASE UNCHANGED vars
  <2>1. UNCHANGED lockedRanges /\ UNCHANGED phase /\ UNCHANGED request
        /\ UNCHANGED dead
    BY <1>5 DEF vars
  <2> QED
    BY <2>1, NoEntryChangeIInv
       DEF Holders, IInv, TypeOK, NoLostWakeup, LockRangeWouldBlock,
           RangesIntersect
<1> QED
  BY <1>1, <1>2, <1>3, <1>4, <1>5 DEF Next

----------------------------------------------------------------------------
(*                              Theorems                                   *)

(* Every reachable state satisfies the inductive invariant. *)
THEOREM Invariance == Spec => []IInv
  BY InitIInv, StepIInv, PTL DEF Spec

(* The vector and the threads' states keep their types. *)
THEOREM TypeCorrect == Spec => []TypeOK
<1>1. IInv => TypeOK
  BY DEF IInv
<1> QED
  BY <1>1, Invariance, PTL

(* Two threads never hold locked ranges that share a byte. *)
THEOREM MutualExclusionHolds == Spec => []MutualExclusion
<1>1. IInv => MutualExclusion
  BY DEF IInv
<1> QED
  BY <1>1, Invariance, PTL

(* There are exactly as many entries as holders, each equal to its         *)
(* holder's range, so nothing stays locked after its unlock_range.         *)
THEOREM NoEntryLeaks == Spec => []OneEntryPerHolder
<1>1. IInv => OneEntryPerHolder
  BY DEF IInv
<1> QED
  BY <1>1, Invariance, PTL

(* The fatal error of unlock_range is unreachable. *)
THEOREM UnlockAlwaysFindsItsRange == Spec => []UnlockNeverFails
<1>1. IInv => UnlockNeverFails
  BY DEF IInv
<1> QED
  BY <1>1, Invariance, PTL

(* Whoever sleeps in lock_range sleeps for a range that is still locked. *)
THEOREM WakeupsAreNotLost == Spec => []NoLostWakeup
<1>1. IInv => NoLostWakeup
  BY DEF IInv
<1> QED
  BY <1>1, Invariance, PTL

(* Each step of the vector-and-condition-variable lock is a step of the    *)
(* abstract lock over bytes, or changes nothing it can see.                *)
LEMMA StepRefines == IInv /\ [Next]_vars => [Abstract!Next]_heldRanges
<1> SUFFICES ASSUME IInv, [Next]_vars
             PROVE  [Abstract!Next]_heldRanges
  OBVIOUS
<1> USE DEF heldRanges
<1>1. ASSUME NEW t \in Threads, LockGranted(t)
      PROVE  Abstract!Acquire(t, request[t])
  <2>1. request[t] \in Ranges /\ phase[t] # "holding"
    BY <1>1 DEF LockGranted, IInv, TypeOK
  <2>2. ASSUME NEW u \in Threads, NEW s \in heldRanges[u]
        PROVE  Abstract!Bytes(s) \cap Abstract!Bytes(request[t]) = {}
    <3>1. u \in Holders /\ s = request[u] /\ s \in Ranges
      BY <2>2 DEF Holders, IInv, TypeOK
    <3>2. Locked(s)
      BY <3>1, HolderIsLocked
    <3>3. ~RangesIntersect(s, request[t])
      BY <1>1, <3>2 DEF Locked, LockGranted, LockRangeWouldBlock
    <3> QED
      BY <3>1, <3>3, <2>1, IntersectIffShareByte DEF Bytes, Abstract!Bytes
  <2>3. heldRanges' = [heldRanges EXCEPT ![t] = {request[t]}]
    BY <1>1 DEF LockGranted, IInv, TypeOK
  <2>4. heldRanges[t] = {}
    BY <2>1
  <2> HIDE DEF heldRanges
  <2> QED
    BY <2>2, <2>3, <2>4 DEF Abstract!Acquire
<1>2. ASSUME NEW t \in Threads, UnlockRange(t)
      PROVE  Abstract!Release(t)
  <2>1. heldRanges[t] # {}
    BY <1>2 DEF UnlockRange
  <2>2. Locked(request[t])
    BY <1>2, HolderIsLocked DEF Holders, UnlockRange
  <2>3. heldRanges' = [heldRanges EXCEPT ![t] = {}]
    BY <1>2, <2>2 DEF UnlockRange, Broadcast, IInv, TypeOK
  <2> HIDE DEF heldRanges
  <2> QED
    BY <2>1, <2>3 DEF Abstract!Release
<1>3. ASSUME NEW t \in Threads,
             \/ \E r \in Ranges : LockRange(t, r)
             \/ LockBlocks(t)
             \/ SpuriousWakeup(t)
      PROVE  UNCHANGED heldRanges
  BY <1>3 DEF LockRange, LockBlocks, SpuriousWakeup, IInv, TypeOK
<1>4. ASSUME UNCHANGED vars
      PROVE  UNCHANGED heldRanges
  BY <1>4 DEF vars
<1>5. \A t \in Threads : request[t] \in Abstract!Ranges
  BY DEF Abstract!Ranges, Ranges, IInv, TypeOK
<1> HIDE DEF heldRanges
<1> QED
  BY <1>1, <1>2, <1>3, <1>4, <1>5 DEF Next, Abstract!Next

(* The range lock of source_file implements mutual exclusion over bytes.   *)
THEOREM RangeLockImplementsRangeMutex == Spec => ImplementsRangeMutex
<1>1. Init => Abstract!Init
  BY DEF Init, Abstract!Init, heldRanges
<1> QED
  BY <1>1, StepRefines, Invariance, PTL
     DEF Spec, ImplementsRangeMutex, Abstract!Spec

====
