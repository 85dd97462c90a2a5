---- MODULE LockOrder ----
(***************************************************************************)
(* Threads that take and release the locks of the library (mutex.cc,       *)
(* rwlock.cc), each in the order its calls prescribe: a call is a sequence *)
(* of steps, and all that is kept of a thread is its call and how far it   *)
(* has come.  LockPrograms has the calls of the code.                      *)
(*                                                                         *)
(* A lock is held for reading or for writing; a mutex is a lock that is    *)
(* only held for writing.  None of them may be taken twice by a thread.    *)
(* As glibc does it by default, a reader waits for writers that hold the   *)
(* lock, and not for those that wait.                                      *)
(***************************************************************************)
EXTENDS Integers, Sequences

CONSTANTS
    Threads,
    Locks,
    Rank,           \* the order in which threads may wait
    MaxRank,        \* its greatest value
    ProgramsOf,     \* the calls each thread makes
    MaxCalls        \* bound: calls of a thread

Modes == {"read", "write"}

ASSUME LockOrderAssumption ==
    /\ MaxRank \in Nat /\ MaxCalls \in Nat
    /\ Rank \in [Locks \X Modes -> 0..MaxRank]

VARIABLES
    call,           \* the steps of the call a thread is in; <<>>: none
    pos,            \* the step that is next
    callsLeft

vars == <<call, pos, callsLeft>>

None == [op |-> "return"]

(* The step that a thread is at. *)
At(t) == IF pos[t] \in DOMAIN call[t] THEN call[t][pos[t]] ELSE None

(* What a thread that has come to step i of program p holds: what it has   *)
(* taken at a step j and not released at a step k since.                   *)
HeldAt(p, i) ==
    {<<p[j].lock, p[j].mode>> : j \in
       {j \in 1..(i - 1) :
          /\ p[j].op \in {"lock", "try"}
          /\ \A k \in j..(i - 1) : p[k].op = "unlock" => p[k].lock # p[j].lock}}

Held(t) == HeldAt(call[t], pos[t])

Conflict(mode, other) == mode = "write" \/ other = "write"

(* u has what t must wait for at step s; a thread can block itself. *)
Blocks(u, s) ==
    \E m \in Modes : <<s.lock, m>> \in Held(u) /\ Conflict(s.mode, m)

Granted(s) == \A u \in Threads : ~Blocks(u, s)

Advance(t) ==
    /\ pos' = [pos EXCEPT ![t] = @ + 1]
    /\ UNCHANGED <<call, callsLeft>>

(* A thread makes a call when it is in none. *)
Begin(t) ==
    /\ call[t] = <<>> /\ callsLeft[t] > 0
    /\ \E p \in ProgramsOf[t] : call' = [call EXCEPT ![t] = p]
    /\ callsLeft' = [callsLeft EXCEPT ![t] = @ - 1]
    /\ UNCHANGED pos

Finish(t) ==
    /\ call' = [call EXCEPT ![t] = <<>>] /\ pos' = [pos EXCEPT ![t] = 1]
    /\ UNCHANGED callsLeft

(* pmutex_lock, prwlock_rdlock, prwlock_wrlock. *)
Lock(t) == At(t).op = "lock" /\ Granted(At(t)) /\ Advance(t)

(* pmutex_unlock, prwlock_unlock. *)
Unlock(t) == At(t).op = "unlock" /\ Advance(t)

(* pthread_mutex_trylock does not wait: the call ends if the lock is held. *)
TryLock(t) ==
    /\ At(t).op = "try"
    /\ IF Granted(At(t)) THEN Advance(t) ELSE Finish(t)

Return(t) == call[t] # <<>> /\ At(t) = None /\ Finish(t)

Init ==
    /\ call = [t \in Threads |-> <<>>] /\ pos = [t \in Threads |-> 1]
    /\ callsLeft = [t \in Threads |-> MaxCalls]

Next ==
    \E t \in Threads : Begin(t) \/ Lock(t) \/ Unlock(t) \/ TryLock(t) \/ Return(t)

Spec == Init /\ [][Next]_vars

----------------------------------------------------------------------------
(*                             Properties                                  *)

Waits(t) == At(t).op = "lock"

(* At step i of call p: what is held comes before what is waited for, as   *)
(* far as somebody can wait for what is held.                              *)
InOrder(p, i) ==
    p[i].op = "lock" =>
      \A x \in HeldAt(p, i), m \in Modes :
        Conflict(m, x[2]) => Rank[<<x[1], m>>] < Rank[<<p[i].lock, p[i].mode>>]

(* Every lock that the threads are waiting for comes after those they      *)
(* hold: prepare, capture, copy and the calls of the application nest      *)
(* their locks in one order.                                               *)
LocksAreOrdered ==
    \A t \in Threads : Waits(t) => InOrder(call[t], pos[t])

(* No threads wait for each other in a circle, and none for itself: among  *)
(* any threads there is one that does not wait, or waits for none of them. *)
NoDeadlock ==
    \A S \in SUBSET Threads :
      S = {} \/ \E t \in S : Waits(t) => \A u \in S : ~Blocks(u, At(t))

(* What a library must do for that: each call takes locks that exist, in   *)
(* their order.  A run shows it of the calls of LockPrograms.              *)
CallsAreOrdered ==
    \A t \in Threads : \A p \in ProgramsOf[t] : \A i \in DOMAIN p :
      /\ p[i].op = "lock" => p[i].lock \in Locks /\ p[i].mode \in Modes
      /\ InOrder(p, i)

====
