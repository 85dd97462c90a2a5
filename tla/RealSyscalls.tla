---------------------------- MODULE RealSyscalls ----------------------------
(***************************************************************************)
(* The functions below the interposed calls (real_syscalls.cc): a pointer  *)
(* for each, which the first thread that needs it looks up in the C        *)
(* library, and which register_... replaces by a function of the caller.   *)
(*                                                                         *)
(* All pointers share dlsym_mutex.  They are read without it, and          *)
(* register_... writes them without it.                                    *)
(***************************************************************************)

CONSTANTS
    Callers,
    Registrars,     \* the threads that register functions
    Calls,          \* open, close, write, ...: the pointers
    Hooks,          \* the functions that are registered, each at most once
    Library,        \* the function of the C library
    NULL

ASSUME RealSyscallsAssumption ==
    Registrars \subseteq Callers /\ Library # NULL
      /\ Library \notin Hooks /\ NULL \notin Hooks

VARIABLES
    real,           \* real_open, real_close, ...
    dlsymMutex,     \* the thread that holds it, or NULL
    pc,
    callOf,         \* the pointer that a thread is concerned with
    hookOf,         \* the function it registers, or NULL: it calls
    old,            \* r of register_...
    below           \* what register_... returned for a function; NULL: not yet

lookupVars == <<real, dlsymMutex, pc, callOf, hookOf, old, below>>

Functions == Hooks \cup {Library, NULL}
Steps == {"idle", "check", "lock", "recheck", "set", "unlock", "use", "store",
          "return"}

Goto(t, step) == pc' = [pc EXCEPT ![t] = step]

(* A call of call_real_... or of register_...; hook NULL: the former. *)
Enter(t, c, hook) ==
    /\ pc[t] = "idle" /\ Goto(t, "check")
    /\ callOf' = [callOf EXCEPT ![t] = c]
    /\ hookOf' = [hookOf EXCEPT ![t] = hook]
    /\ UNCHANGED <<real, dlsymMutex, old, below>>

(* Each function is registered once, by whoever is the first. *)
Unregistered(hook) ==
    /\ below[hook] = NULL
    /\ \A u \in Callers : hookOf[u] # hook

Call(t) == \E c \in Calls : Enter(t, c, NULL)
Register(t) ==
    /\ t \in Registrars
    /\ \E c \in Calls, hook \in Hooks : Unregistered(hook) /\ Enter(t, c, hook)

(* Mutant: whoever finds the mutex taken relies on its holder. *)
dlsym_set_Trusts(t) ==
    /\ pc[t] = "check"
    /\ Goto(t, IF real[callOf[t]] # NULL \/ dlsymMutex # NULL THEN "use" ELSE "lock")
    /\ UNCHANGED <<real, dlsymMutex, callOf, hookOf, old, below>>

(* dlsym_set, dlvsym_set: the look without the mutex. *)
dlsym_set(t) ==
    /\ pc[t] = "check"
    /\ Goto(t, IF real[callOf[t]] # NULL THEN "use" ELSE "lock")
    /\ UNCHANGED <<real, dlsymMutex, callOf, hookOf, old, below>>

LockDlsym(t) ==
    /\ pc[t] = "lock" /\ dlsymMutex = NULL
    /\ dlsymMutex' = t /\ Goto(t, "recheck")
    /\ UNCHANGED <<real, callOf, hookOf, old, below>>

(* The second look, with the mutex. *)
Recheck(t) ==
    /\ pc[t] = "recheck"
    /\ Goto(t, IF real[callOf[t]] = NULL THEN "set" ELSE "unlock")
    /\ UNCHANGED <<real, dlsymMutex, callOf, hookOf, old, below>>

(* dlsym, and the compare-and-swap.  A dlsym that finds nothing is left    *)
(* out: the pointer stays NULL then, and the code expects "the segfault    *)
(* when the call takes place".                                             *)
SetPointer(t) ==
    /\ pc[t] = "set" /\ Goto(t, "unlock")
    /\ real' = IF real[callOf[t]] = NULL
                 THEN [real EXCEPT ![callOf[t]] = Library] ELSE real
    /\ UNCHANGED <<dlsymMutex, callOf, hookOf, old, below>>

UnlockDlsym(t) ==
    /\ pc[t] = "unlock" /\ dlsymMutex' = NULL /\ Goto(t, "use")
    /\ UNCHANGED <<real, callOf, hookOf, old, below>>

(* call_real_...: the call through the pointer. *)
CallReal(t) ==
    /\ pc[t] = "use" /\ hookOf[t] = NULL /\ Goto(t, "idle")
    /\ UNCHANGED <<real, dlsymMutex, callOf, hookOf, old, below>>

(* register_...: the pointer is read, *)
ReadOld(t) ==
    /\ pc[t] = "use" /\ hookOf[t] # NULL /\ Goto(t, "store")
    /\ old' = [old EXCEPT ![t] = real[callOf[t]]]
    /\ UNCHANGED <<real, dlsymMutex, callOf, hookOf, below>>

(* Mutant: the pointer is read again when it has been written. *)
StoreHook_ReadsBack(t) ==
    /\ pc[t] = "store" /\ Goto(t, "return")
    /\ real' = [real EXCEPT ![callOf[t]] = hookOf[t]]
    /\ old' = [old EXCEPT ![t] = hookOf[t]]
    /\ UNCHANGED <<dlsymMutex, callOf, hookOf, below>>

(* and written, without a look at what it has become, *)
StoreHook(t) ==
    /\ pc[t] = "store" /\ Goto(t, "return")
    /\ real' = [real EXCEPT ![callOf[t]] = hookOf[t]]
    /\ UNCHANGED <<dlsymMutex, callOf, hookOf, old, below>>

(* and what was read is for the new function to call. *)
ReturnOld(t) ==
    /\ pc[t] = "return" /\ Goto(t, "idle")
    /\ below' = [below EXCEPT ![hookOf[t]] = old[t]]
    /\ hookOf' = [hookOf EXCEPT ![t] = NULL]
    /\ UNCHANGED <<real, dlsymMutex, callOf, old>>

LookupInit ==
    /\ real = [c \in Calls |-> NULL] /\ dlsymMutex = NULL
    /\ pc = [t \in Callers |-> "idle"]
    /\ callOf \in [Callers -> Calls] /\ hookOf = [t \in Callers |-> NULL]
    /\ old = [t \in Callers |-> NULL] /\ below = [h \in Hooks |-> NULL]

Work(t) ==
    \/ dlsym_set(t) \/ LockDlsym(t) \/ Recheck(t) \/ SetPointer(t) \/ UnlockDlsym(t)
    \/ CallReal(t) \/ ReadOld(t) \/ StoreHook(t) \/ ReturnOld(t)

LookupNext == \E t \in Callers : Call(t) \/ Register(t) \/ Work(t)

LookupSpec == LookupInit /\ [][LookupNext]_lookupVars

----------------------------------------------------------------------------
(*                             Properties                                  *)

TypeOK ==
    /\ real \in [Calls -> Functions] /\ dlsymMutex \in Callers \cup {NULL}
    /\ pc \in [Callers -> Steps] /\ callOf \in [Callers -> Calls]
    /\ hookOf \in [Callers -> Hooks \cup {NULL}]
    /\ old \in [Callers -> Functions] /\ below \in [Hooks -> Functions]

(* No thread calls through a pointer that is not set, and none is told to  *)
(* call NULL by register_..., although the pointers are read without the   *)
(* mutex.                                                                  *)
NullIsNeverCalled ==
    \A t \in Callers :
      /\ pc[t] = "use" => real[callOf[t]] # NULL
      /\ pc[t] \in {"store", "return"} => old[t] # NULL

(* "The system will call new_pwrite in the future": a function that has    *)
(* been registered is called from the pointer, or from a function that was *)
(* registered after it or is about to be.                                  *)
NoHookIsLost ==
    \A h \in Hooks : below[h] # NULL =>
      \/ \E c \in Calls : real[c] = h
      \/ \E g \in Hooks \ {h} : below[g] = h
      \/ \E t \in Callers : pc[t] = "return" /\ hookOf[t] # h /\ old[t] = h

=============================================================================
