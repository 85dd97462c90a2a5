------------------------- MODULE InterpositionProofs -------------------------
(***************************************************************************)
(* What an interposed call does apart from the work of the manager.  The   *)
(* pointers of real_syscalls.cc are set when they are used, for any number *)
(* of callers, calls and registrations (RealSyscalls).  And calls that     *)
(* take their locks in one order do not block each other for ever, for any *)
(* number of threads, locks and calls (LockOrder).                         *)
(***************************************************************************)
EXTENDS LockOrder, RealSyscalls, WellFoundedInduction, TLAPS

----------------------------------------------------------------------------
(*                      The pointers of real_syscalls                      *)

(* Who has passed the look-up is concerned with a pointer that is set, and *)
(* nobody sets one back.                                                   *)
LookedUp ==
    \A t \in Callers :
      /\ pc[t] \in {"unlock", "use", "store", "return"} => real[callOf[t]] # NULL
      /\ pc[t] \in {"store", "return"} => old[t] # NULL /\ hookOf[t] # NULL

IInv == TypeOK /\ LookedUp

USE RealSyscallsAssumption DEF Steps, Functions, Goto

LEMMA InitHasIInv == LookupInit => IInv
  BY DEF LookupInit, IInv, TypeOK, LookedUp

LEMMA EnterKeepsIInv ==
  ASSUME IInv, NEW t \in Callers, NEW c \in Calls, NEW h \in Hooks \cup {NULL},
         Enter(t, c, h)
  PROVE  IInv'
<1>1. TypeOK'
  BY DEF Enter, IInv, TypeOK
<1>2. LookedUp'
  BY DEF Enter, IInv, TypeOK, LookedUp
<1> QED BY <1>1, <1>2 DEF IInv

(* One step per action: the steps that change a pointer set it, and the    *)
(* steps that move a thread past the look-up have seen it set.             *)
LEMMA StepKeepsIInv == IInv /\ [LookupNext]_lookupVars => IInv'
<1> SUFFICES ASSUME IInv, [LookupNext]_lookupVars PROVE IInv'
  OBVIOUS
<1> USE DEF IInv, TypeOK, LookedUp
<1>1. CASE UNCHANGED lookupVars
  BY <1>1 DEF lookupVars
<1>2. ASSUME NEW t \in Callers, Call(t) PROVE IInv'
  BY <1>2, EnterKeepsIInv DEF Call
<1>3. ASSUME NEW t \in Callers, Register(t) PROVE IInv'
  BY <1>3, EnterKeepsIInv DEF Register
<1>4. ASSUME NEW t \in Callers, dlsym_set(t) PROVE IInv'
  BY <1>4 DEF dlsym_set
<1>5. ASSUME NEW t \in Callers, LockDlsym(t) PROVE IInv'
  BY <1>5 DEF LockDlsym
<1>6. ASSUME NEW t \in Callers, Recheck(t) PROVE IInv'
  BY <1>6 DEF Recheck
<1>7. ASSUME NEW t \in Callers, SetPointer(t) PROVE IInv'
  BY <1>7 DEF SetPointer
<1>8. ASSUME NEW t \in Callers, UnlockDlsym(t) PROVE IInv'
  BY <1>8 DEF UnlockDlsym
<1>9. ASSUME NEW t \in Callers, CallReal(t) PROVE IInv'
  BY <1>9 DEF CallReal
<1>10. ASSUME NEW t \in Callers, ReadOld(t) PROVE IInv'
  BY <1>10 DEF ReadOld
<1>11. ASSUME NEW t \in Callers, StoreHook(t) PROVE IInv'
  BY <1>11 DEF StoreHook
<1>12. ASSUME NEW t \in Callers, ReturnOld(t) PROVE IInv'
  BY <1>12 DEF ReturnOld
<1> QED
  BY <1>1, <1>2, <1>3, <1>4, <1>5, <1>6, <1>7, <1>8, <1>9, <1>10, <1>11, <1>12
     DEF LookupNext, Work

LEMMA IInvHolds == LookupSpec => []IInv
  BY InitHasIInv, StepKeepsIInv, PTL DEF LookupSpec

(* The state of the look-ups and registrations is well-typed.              *)
THEOREM TypeCorrect == LookupSpec => []TypeOK
<1>1. IInv => TypeOK
  BY DEF IInv
<1> QED BY <1>1, IInvHolds, PTL

(* The reads of the pointers that dlsym_mutex does not protect find them   *)
(* set: neither call_real_... nor a registered function calls NULL.        *)
THEOREM NullIsNeverCalledHolds == LookupSpec => []NullIsNeverCalled
<1>1. IInv => NullIsNeverCalled
  BY DEF IInv, LookedUp, NullIsNeverCalled
<1> QED BY <1>1, IInvHolds, PTL

----------------------------------------------------------------------------
(*                       The chain of registrations                        *)

(* register_... reads the pointer and writes it without a lock, so that    *)
(* what is said here of its caller needs that nobody else registers.       *)
OneRegistrar == \A t, u \in Registrars : t = u

(* A function is being registered by a registrar, for the first time; what *)
(* it is to call is what the pointer holds until it is written, and the    *)
(* pointer holds the function until register_... returns.                  *)
RegisteringInv ==
    \A t \in Callers :
      /\ hookOf[t] # NULL =>
           t \in Registrars /\ pc[t] # "idle" /\ below[hookOf[t]] = NULL
      /\ pc[t] = "store" => old[t] = real[callOf[t]]
      /\ pc[t] = "return" => real[callOf[t]] = hookOf[t]

ChainInv == IInv /\ RegisteringInv /\ NoHookIsLost

(* Whoever reads or writes a pointer for register_... is the registrar.    *)
LEMMA OneIsRegistering ==
  ASSUME OneRegistrar, ChainInv, NEW t \in Callers, NEW u \in Callers,
         pc[t] \in {"store", "return"}, pc[u] \in {"store", "return"}
  PROVE  t = u
<1>1. hookOf[t] # NULL /\ hookOf[u] # NULL
  BY DEF ChainInv, IInv, LookedUp
<1> QED BY <1>1 DEF OneRegistrar, ChainInv, RegisteringInv

(* A step that leaves the pointers and the chain alone leaves all as it is.*)
LEMMA NoRegistrationKeepsChain ==
  ASSUME ChainInv, IInv', NEW t \in Callers, UNCHANGED <<real, below, callOf, hookOf, old>>,
         \E step \in Steps \ {"idle", "store", "return"} : Goto(t, step),
         pc[t] \notin {"store", "return"}
  PROVE  ChainInv'
<1> USE DEF ChainInv, IInv, TypeOK
<1>1. RegisteringInv'
  BY DEF RegisteringInv
<1>2. NoHookIsLost'
  BY DEF NoHookIsLost
<1> QED BY <1>1, <1>2

LEMMA EnterKeepsChain ==
  ASSUME ChainInv, IInv', NEW t \in Callers, NEW c \in Calls, NEW h \in Hooks \cup {NULL},
         h # NULL => t \in Registrars /\ Unregistered(h), Enter(t, c, h)
  PROVE  ChainInv'
<1> USE DEF ChainInv, IInv, TypeOK
<1>1. RegisteringInv'
  BY DEF RegisteringInv, Enter, Unregistered
<1>2. NoHookIsLost'
  BY DEF NoHookIsLost, Enter
<1> QED BY <1>1, <1>2

(* A pointer is written over what old has kept: it moves from the pointer  *)
(* to the writer, and from there to the function that is registered.       *)
LEMMA StoreKeepsChain ==
  ASSUME OneRegistrar, ChainInv, IInv', NEW t \in Callers, StoreHook(t)
  PROVE  ChainInv'
<1> USE DEF ChainInv, IInv, TypeOK
<1>1. /\ pc[t] = "store" /\ pc' = [pc EXCEPT ![t] = "return"]
      /\ real' = [real EXCEPT ![callOf[t]] = hookOf[t]]
      /\ UNCHANGED <<callOf, hookOf, old, below>>
  BY DEF StoreHook
<1>2. \A u \in Callers \ {t} : pc[u] \notin {"store", "return"}
  BY <1>1, OneIsRegistering
<1>3. old[t] = real[callOf[t]] /\ below[hookOf[t]] = NULL
  BY <1>1 DEF RegisteringInv, LookedUp
<1>4. RegisteringInv'
  BY <1>1, <1>2 DEF RegisteringInv
<1>5. ASSUME NEW h \in Hooks, below[h] # NULL
      PROVE  \/ \E c \in Calls : real'[c] = h
             \/ \E g \in Hooks \ {h} : below'[g] = h
             \/ \E u \in Callers : pc'[u] = "return" /\ hookOf'[u] # h /\ old'[u] = h
  <2>1. CASE \E c \in Calls : real[c] = h
    <3>1. PICK c \in Calls : real[c] = h
      BY <2>1
    <3>2. CASE c = callOf[t]
      BY <1>1, <1>3, <1>5, <3>1, <3>2
    <3>3. CASE c # callOf[t]
      BY <1>1, <3>1, <3>3
    <3> QED BY <3>2, <3>3
  <2>2. CASE \E g \in Hooks \ {h} : below[g] = h
    BY <1>1, <2>2
  <2>3. ~ \E u \in Callers : pc[u] = "return"
    BY <1>1, <1>2
  <2> QED BY <1>5, <2>1, <2>2, <2>3 DEF NoHookIsLost
<1>6. NoHookIsLost'
  BY <1>1, <1>5 DEF NoHookIsLost
<1> QED BY <1>4, <1>6

LEMMA ReturnKeepsChain ==
  ASSUME OneRegistrar, ChainInv, IInv', NEW t \in Callers, ReturnOld(t)
  PROVE  ChainInv'
<1> USE DEF ChainInv, IInv, TypeOK
<1>1. /\ pc[t] = "return" /\ pc' = [pc EXCEPT ![t] = "idle"]
      /\ below' = [below EXCEPT ![hookOf[t]] = old[t]]
      /\ hookOf' = [hookOf EXCEPT ![t] = NULL]
      /\ UNCHANGED <<real, callOf, old>>
  BY DEF ReturnOld
<1>2. /\ hookOf[t] \in Hooks /\ below[hookOf[t]] = NULL /\ callOf[t] \in Calls
      /\ real[callOf[t]] = hookOf[t]
  BY <1>1 DEF RegisteringInv, LookedUp
<1>3. RegisteringInv'
  <2>1. ASSUME NEW u \in Callers, hookOf'[u] # NULL
        PROVE  u \in Registrars /\ pc'[u] # "idle" /\ below'[hookOf'[u]] = NULL
    <3>1. u # t /\ hookOf'[u] = hookOf[u] /\ hookOf[u] # NULL
      BY <1>1, <2>1
    <3>2. t \in Registrars /\ u \in Registrars
      BY <1>2, <3>1 DEF RegisteringInv
    <3> QED BY <3>1, <3>2 DEF OneRegistrar
  <2> QED BY <1>1, <2>1 DEF RegisteringInv
<1>4. ASSUME NEW h \in Hooks, below'[h] # NULL
      PROVE  \/ \E c \in Calls : real'[c] = h
             \/ \E g \in Hooks \ {h} : below'[g] = h
             \/ \E u \in Callers : pc'[u] = "return" /\ hookOf'[u] # h /\ old'[u] = h
  <2>1. CASE h = hookOf[t]
    BY <1>1, <1>2, <2>1
  <2>2. CASE h # hookOf[t]
    <3>1. below[h] # NULL
      BY <1>1, <1>4, <2>2
    <3>2. CASE \E c \in Calls : real[c] = h
      BY <1>1, <3>2
    <3>3. CASE \E g \in Hooks \ {h} : below[g] = h
      BY <1>1, <1>2, <3>3
    <3>4. CASE \E u \in Callers : pc[u] = "return" /\ hookOf[u] # h /\ old[u] = h
      <4>1. PICK u \in Callers : pc[u] = "return" /\ hookOf[u] # h /\ old[u] = h
        BY <3>4
      <4>2. CASE u = t
        BY <1>1, <1>2, <4>1, <4>2
      <4>3. CASE u # t
        BY <1>1, <4>1, <4>3
      <4> QED BY <4>2, <4>3
    <3> QED BY <3>1, <3>2, <3>3, <3>4 DEF NoHookIsLost
  <2> QED BY <2>1, <2>2
<1>5. NoHookIsLost'
  BY <1>4 DEF NoHookIsLost
<1> QED BY <1>3, <1>5

LEMMA StepKeepsChain ==
  ASSUME OneRegistrar, ChainInv, [LookupNext]_lookupVars
  PROVE  ChainInv'
<1>1. IInv'
  BY StepKeepsIInv DEF ChainInv
<1> USE <1>1
<1>2. CASE UNCHANGED lookupVars
  BY <1>2 DEF lookupVars, ChainInv, RegisteringInv, NoHookIsLost
<1>3. ASSUME NEW t \in Callers, Call(t) PROVE ChainInv'
  BY <1>3, EnterKeepsChain DEF Call
<1>4. ASSUME NEW t \in Callers, Register(t) PROVE ChainInv'
  BY <1>4, EnterKeepsChain DEF Register
<1>5. ASSUME NEW t \in Callers, dlsym_set(t) PROVE ChainInv'
  BY <1>5, NoRegistrationKeepsChain DEF dlsym_set
<1>6. ASSUME NEW t \in Callers, LockDlsym(t) PROVE ChainInv'
  BY <1>6, NoRegistrationKeepsChain DEF LockDlsym
<1>7. ASSUME NEW t \in Callers, Recheck(t) PROVE ChainInv'
  BY <1>7, NoRegistrationKeepsChain DEF Recheck
<1>8. ASSUME NEW t \in Callers, UnlockDlsym(t) PROVE ChainInv'
  BY <1>8, NoRegistrationKeepsChain DEF UnlockDlsym
<1>9. ASSUME NEW t \in Callers, SetPointer(t) PROVE ChainInv'
  <2>1. /\ pc[t] = "set" /\ pc' = [pc EXCEPT ![t] = "unlock"]
        /\ \A c \in Calls : real[c] # NULL => real'[c] = real[c]
        /\ UNCHANGED <<callOf, hookOf, old, below>>
    BY <1>9 DEF SetPointer, ChainInv, IInv, TypeOK
  <2>2. RegisteringInv'
    BY <2>1 DEF RegisteringInv, ChainInv, IInv, TypeOK, LookedUp
  <2>3. NoHookIsLost'
    BY <2>1 DEF NoHookIsLost, ChainInv, IInv, TypeOK
  <2> QED BY <2>2, <2>3 DEF ChainInv
<1>10. ASSUME NEW t \in Callers, CallReal(t) PROVE ChainInv'
  <2>1. RegisteringInv'
    BY <1>10 DEF CallReal, RegisteringInv, ChainInv, IInv, TypeOK
  <2>2. NoHookIsLost'
    BY <1>10 DEF CallReal, NoHookIsLost, ChainInv, IInv, TypeOK
  <2> QED BY <2>1, <2>2 DEF ChainInv
<1>11. ASSUME NEW t \in Callers, ReadOld(t) PROVE ChainInv'
  <2>1. RegisteringInv'
    BY <1>11 DEF ReadOld, RegisteringInv, ChainInv, IInv, TypeOK
  <2>2. NoHookIsLost'
    BY <1>11 DEF ReadOld, NoHookIsLost, ChainInv, IInv, TypeOK
  <2> QED BY <2>1, <2>2 DEF ChainInv
<1>12. ASSUME NEW t \in Callers, StoreHook(t) \/ ReturnOld(t) PROVE ChainInv'
  BY <1>12, StoreKeepsChain, ReturnKeepsChain
<1> QED
  BY <1>2, <1>3, <1>4, <1>5, <1>6, <1>7, <1>8, <1>9, <1>10, <1>11, <1>12 DEF LookupNext, Work

(* If one thread does all the registrations then every function that has   *)
(* been registered stays in the chain that starts at a pointer, whatever   *)
(* calls look the pointers up at the same time.                            *)
THEOREM NoHookIsLostHolds == ASSUME OneRegistrar PROVE LookupSpec => []NoHookIsLost
<1>1. LookupInit => ChainInv
  BY InitHasIInv DEF LookupInit, ChainInv, RegisteringInv, NoHookIsLost
<1>2. ChainInv /\ [LookupNext]_lookupVars => ChainInv'
  BY StepKeepsChain
<1>3. ChainInv => NoHookIsLost
  BY DEF ChainInv
<1> QED BY <1>1, <1>2, <1>3, PTL DEF LookupSpec

----------------------------------------------------------------------------
(*                         The order of the locks                          *)
(*                                                                         *)
(* Of threads that all wait, one waits for the lock that comes last in the *)
(* order.  Whoever held that lock would wait for a later one.              *)

(* The place in the order of the lock a thread waits for.                  *)
WaitRank(t) == Rank[<<At(t).lock, At(t).mode>>]

(* The inductive invariant: threads are in calls of their own, and locks   *)
(* that are waited for exist.                                              *)
CallsOfThreads ==
    /\ call \in [Threads -> (UNION {ProgramsOf[t] : t \in Threads}) \cup {<<>>}]
    /\ \A t \in Threads : call[t] # <<>> => call[t] \in ProgramsOf[t]
    /\ pos \in [Threads -> Nat]

(* A set of threads that wait has one that waits for the last lock.        *)
LEMMA LastInOrder ==
  ASSUME NEW S, S # {}, NEW f, \A t \in S : f[t] \in 0..MaxRank
  PROVE  \E t \in S : \A u \in S : f[u] <= f[t]
<1> DEFINE D == {MaxRank - f[t] : t \in S}
<1>1. D \in SUBSET Nat
  BY LockOrderAssumption
<1>2. D # {}
  OBVIOUS
<1> DEFINE R == OpToRel(<, Nat)
<1>3. PICK d \in D : \A e \in D : d <= e
  <2>1. PICK d \in D : \A e \in D : ~(<<e, d>> \in R)
    <3> HIDE DEF D, R
    <3>1. IsWellFoundedOn(R, Nat)
      BY NatLessThanWellFounded DEF R
    <3> QED BY <1>1, <1>2, <3>1, WFMin
  <2>2. \A e \in D : e < d => <<e, d>> \in R
    <3> HIDE DEF D
    <3> QED BY <1>1 DEF OpToRel
  <2>3. \A e \in D : d <= e
    <3> HIDE DEF D, R
    <3>1. d \in Nat /\ \A e \in D : e \in Nat
      BY <1>1
    <3>2. \A e \in D : ~(e < d)
      BY <2>1, <2>2
    <3> QED BY <3>1, <3>2
  <2> QED BY <2>3
<1>4. PICK t \in S : d = MaxRank - f[t]
  BY <1>3
<1>5. ASSUME NEW u \in S PROVE f[u] <= f[t]
  <2>1. MaxRank - f[u] \in D
    OBVIOUS
  <2>2. d <= MaxRank - f[u]
    BY <2>1, <1>3
  <2> QED BY <2>2, <1>4, LockOrderAssumption
<1> QED BY <1>5

(* A thread that waits for another comes before it in the order.           *)
LEMMA BlockedComesFirst ==
  ASSUME LocksAreOrdered,
         NEW t \in Threads, Waits(t), At(t).mode \in Modes,
         NEW u \in Threads, Waits(u), Blocks(u, At(t))
  PROVE  WaitRank(t) < WaitRank(u)
<1>1. PICK m \in Modes : /\ <<At(t).lock, m>> \in Held(u)
                              /\ Conflict(At(t).mode, m)
  BY DEF Blocks
<1>2. InOrder(call[u], pos[u])
  BY DEF LocksAreOrdered
<1>3. At(u) = call[u][pos[u]]
  BY DEF Waits, At, None
<1>4. call[u][pos[u]].op = "lock"
  BY <1>3 DEF Waits
<1>5. \A x \in HeldAt(call[u], pos[u]), n \in Modes :
        Conflict(n, x[2]) => Rank[<<x[1], n>>] < WaitRank(u)
  BY <1>2, <1>3, <1>4 DEF InOrder, WaitRank
<1> QED BY <1>1, <1>5 DEF Held, WaitRank

(* The order excludes every circle of waiting threads.                     *)
THEOREM OrderExcludesDeadlock ==
  ASSUME LocksAreOrdered,
         \A t \in Threads : Waits(t) =>
           At(t).lock \in Locks /\ At(t).mode \in Modes
  PROVE  NoDeadlock
<1> SUFFICES ASSUME NEW S \in SUBSET Threads, S # {},
                    \A t \in S : /\ Waits(t)
                                 /\ \E u \in S : Blocks(u, At(t))
             PROVE  FALSE
  BY DEF NoDeadlock
<1> DEFINE f == [t \in S |-> WaitRank(t)]
<1>1. ASSUME NEW t \in S PROVE f[t] \in 0..MaxRank
  <2>1. <<At(t).lock, At(t).mode>> \in Locks \X Modes
    OBVIOUS
  <2> QED BY <2>1, LockOrderAssumption DEF WaitRank
<1>2. PICK t \in S : \A u \in S : f[u] <= f[t]
  <2> HIDE DEF f
  <2> QED BY <1>1, LastInOrder
<1>3. PICK u \in S : Blocks(u, At(t))
  OBVIOUS
<1>4. WaitRank(t) < WaitRank(u)
  BY <1>3, BlockedComesFirst
<1>5. f[t] \in Int /\ f[u] \in Int
  BY <1>1
<1> QED BY <1>2, <1>4, <1>5

(* Threads stay in calls of their own. *)
LEMMA CallsOfThreadsHolds == Spec => []CallsOfThreads
<1>1. Init => CallsOfThreads
  BY DEF Init, CallsOfThreads
<1>2. CallsOfThreads /\ [Next]_vars => CallsOfThreads'
  <2> SUFFICES ASSUME CallsOfThreads, [Next]_vars PROVE CallsOfThreads'
    OBVIOUS
  <2>1. CASE UNCHANGED vars
    BY <2>1 DEF CallsOfThreads, vars
  <2>2. ASSUME NEW t \in Threads, Advance(t) PROVE CallsOfThreads'
    BY <2>2 DEF CallsOfThreads, Advance
  <2>3. ASSUME NEW t \in Threads, Finish(t) PROVE CallsOfThreads'
    BY <2>3 DEF CallsOfThreads, Finish
  <2>4. ASSUME NEW t \in Threads, Begin(t) PROVE CallsOfThreads'
    BY <2>4 DEF CallsOfThreads, Begin
  <2>5. ASSUME NEW t \in Threads, Lock(t) PROVE CallsOfThreads'
    BY <2>5, <2>2 DEF Lock
  <2>6. ASSUME NEW t \in Threads, Unlock(t) PROVE CallsOfThreads'
    BY <2>6, <2>2 DEF Unlock
  <2>7. ASSUME NEW t \in Threads, TryLock(t) PROVE CallsOfThreads'
    BY <2>7, <2>2, <2>3 DEF TryLock
  <2>8. ASSUME NEW t \in Threads, Return(t) PROVE CallsOfThreads'
    BY <2>8, <2>3 DEF Return
  <2> QED BY <2>1, <2>4, <2>5, <2>6, <2>7, <2>8 DEF Next
<1> QED BY <1>1, <1>2, PTL DEF Spec

(* Ordered calls make ordered threads. *)
LEMMA OrderedCallsMakeOrderedThreads ==
  ASSUME CallsAreOrdered, CallsOfThreads
  PROVE  /\ LocksAreOrdered
         /\ \A t \in Threads : Waits(t) =>
              At(t).lock \in Locks /\ At(t).mode \in Modes
<1> SUFFICES ASSUME NEW t \in Threads, Waits(t)
             PROVE  /\ InOrder(call[t], pos[t])
                    /\ At(t).lock \in Locks /\ At(t).mode \in Modes
  BY DEF LocksAreOrdered
<1>1. pos[t] \in DOMAIN call[t] /\ At(t) = call[t][pos[t]]
  BY DEF Waits, At, None
<1>2. call[t] # <<>>
  BY <1>1
<1>3. call[t] \in ProgramsOf[t]
  BY <1>2 DEF CallsOfThreads
<1> QED BY <1>1, <1>3 DEF CallsAreOrdered, Waits

(* The locks of the library are taken in one order, whatever threads there *)
(* are, if each call takes them in that order.                             *)
THEOREM LocksAreOrderedHolds ==
  ASSUME CallsAreOrdered PROVE Spec => []LocksAreOrdered
<1>1. CallsOfThreads => LocksAreOrdered
  BY OrderedCallsMakeOrderedThreads
<1> QED BY <1>1, CallsOfThreadsHolds, PTL

(* No calls of the library wait for each other in a circle.                *)
THEOREM NoDeadlockHolds ==
  ASSUME CallsAreOrdered PROVE Spec => []NoDeadlock
<1>1. CallsOfThreads => NoDeadlock
  BY OrderedCallsMakeOrderedThreads, OrderExcludesDeadlock
<1> QED BY <1>1, CallsOfThreadsHolds, PTL

=============================================================================
