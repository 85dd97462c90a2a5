---- MODULE BackupManager ----
(***************************************************************************)
(* manager::do_backup: the life of a backup, and what happens to it when   *)
(* something fails.                                                        *)
(*                                                                         *)
(* Callers are the threads that call tokubackup_create_backup; m_mutex     *)
(* lets one of them work at a time.  Application threads enter the session *)
(* (hold m_session_rwlock for reading) while they repeat a call on the     *)
(* backup.  A failure goes through backup_error, which turns capturing and *)
(* copying off and then                                                    *)
(*   - on a thread inside do_backup, calls the user's error_fun at once;   *)
(*   - on any other thread, saves the error in the manager for the backup  *)
(*     thread to report when it is done.                                   *)
(* The copier looks at the flag between files and between buffers, and     *)
(* stops without an error of its own.                                      *)
(*                                                                         *)
(* What is copied is modelled in CaptureCopy; here the todo list is the    *)
(* number of files that are left.  manager_state::m_is_dead is left out:   *)
(* it is set by failed checks, which abort the program, and by an          *)
(* unlock_range that does not find its range, which RangeLockProofs shows  *)
(* never happens.                                                          *)
(***************************************************************************)
EXTENDS Integers

CONSTANTS
    Callers,        \* threads that call tokubackup_create_backup
    AppThreads,     \* threads whose calls are captured
    NFiles,         \* files a backup has to copy
    MaxBackups,     \* bound: calls of do_backup
    MaxErrors,      \* bound: errors on application threads
    OutsideErrors,  \* such an error may occur outside the session lock
    CloseFails      \* close() of a backup file may fail on the backup thread

NoOne == "no one"
NoString == 0

ASSUME BackupManagerAssumption ==
    /\ NoOne \notin Callers \cup AppThreads
    /\ NFiles \in Nat
    /\ MaxBackups \in Nat
    /\ MaxErrors \in Nat
    /\ OutsideErrors \in BOOLEAN
    /\ CloseFails \in BOOLEAN

VARIABLES
    (* do_backup, for each caller *)
    pc,             \* where the caller is
    result,         \* r: "ok", or the error that it will return
    reported,       \* error_fun was called during the caller's latest call
    held,           \* the m_errstring it is passing to error_fun
    (* the manager *)
    mutex,          \* the caller that has m_mutex, or NoOne
    session,        \* the caller that created m_session, or NoOne
    readers,        \* application threads in the session
    captureEnabled, copyEnabled,        \* manager_state
    errorMutex,     \* holder of m_error_mutex
    errorHappened,  \* m_an_error_happened
    errnum,         \* m_errnum
    errstring,      \* m_errstring, as the number of the string
    (* the copier *)
    todo,           \* files left to copy
    (* the application *)
    apc,            \* where each application thread is
    (* bounds and history *)
    backupsLeft, errorsLeft,
    incomplete,     \* the caller's latest backup lacks a file
    captureFailed   \* a call captured in its session has failed

callerVars == <<pc, result, reported, held>>
flagVars   == <<captureEnabled, copyEnabled>>
errorVars  == <<errorMutex, errorHappened, errnum, errstring>>
vars == <<callerVars, mutex, session, readers, flagVars, errorVars, todo, apc,
          backupsLeft, errorsLeft, incomplete, captureFailed>>

----------------------------------------------------------------------------
(* The part of backup_error that every thread performs first. *)
TurnOff ==
    /\ captureEnabled' = FALSE
    /\ copyEnabled' = FALSE

(* All of backup_error on a thread that has backup calls. *)
ReportFrom(c) ==
    /\ TurnOff
    /\ reported' = [reported EXCEPT ![c] = TRUE]

Goto(c, label) == pc' = [pc EXCEPT ![c] = label]

Fail(c, error) == result' = [result EXCEPT ![c] = error]

----------------------------------------------------------------------------
(*                             do_backup                                   *)

(* The saved error of an earlier backup is forgotten. *)
Start(c) ==
    /\ pc[c] = "idle"
    /\ backupsLeft > 0
    /\ backupsLeft' = backupsLeft - 1
    /\ Goto(c, "polling")
    /\ result' = [result EXCEPT ![c] = "ok"]
    /\ reported' = [reported EXCEPT ![c] = FALSE]
    /\ errorHappened' = FALSE
    /\ incomplete' = [incomplete EXCEPT ![c] = TRUE]
    /\ captureFailed' = [captureFailed EXCEPT ![c] = FALSE]
    /\ UNCHANGED <<held, mutex, session, readers, flagVars, errorMutex, errnum,
                   errstring, todo, apc, errorsLeft>>

PollPasses(c) ==
    /\ pc[c] = "polling"
    /\ Goto(c, "trying")
    /\ UNCHANGED <<result, reported, held, mutex, session, readers, flagVars,
                   errorVars, todo, apc, backupsLeft, errorsLeft, incomplete,
                   captureFailed>>

PollAborts(c) ==
    /\ pc[c] = "polling"
    /\ Fail(c, "aborted")
    /\ ReportFrom(c)
    /\ Goto(c, "idle")
    /\ UNCHANGED <<held, mutex, session, readers, errorVars, todo, apc,
                   backupsLeft, errorsLeft, incomplete, captureFailed>>

(* Mutant: EBUSY is taken for success. *)
TryLock_IgnoresBusy(c) ==
    /\ pc[c] = "trying"
    /\ mutex' = c
    /\ Goto(c, "validating")
    /\ UNCHANGED <<result, reported, flagVars, held, session, readers, errorVars,
                   todo, apc, backupsLeft, errorsLeft, incomplete,
                   captureFailed>>

(* pthread_mutex_trylock(&m_mutex): the loser of a race does not wait. *)
TryLock(c) ==
    /\ pc[c] = "trying"
    /\ IF mutex = NoOne
       THEN /\ mutex' = c
            /\ Goto(c, "validating")
            /\ UNCHANGED <<result, reported, flagVars>>
       ELSE /\ Fail(c, "EBUSY")
            /\ ReportFrom(c)
            /\ Goto(c, "idle")
            /\ UNCHANGED mutex
    /\ UNCHANGED <<held, session, readers, errorVars, todo, apc, backupsLeft,
                   errorsLeft, incomplete, captureFailed>>

(* directory_set::validate. *)
Validate(c) ==
    /\ pc[c] = "validating"
    /\ \/ /\ Goto(c, "opening")
          /\ UNCHANGED <<result, reported, flagVars>>
       \/ /\ Fail(c, "EINVAL")
          /\ ReportFrom(c)
          /\ Goto(c, "unlocking")
    /\ UNCHANGED <<held, mutex, session, readers, errorVars, todo, apc,
                   backupsLeft, errorsLeft, incomplete, captureFailed>>

(* Under the write lock: create the session, prepare the open files and    *)
(* turn everything on.                                                     *)
OpenSession(c) ==
    /\ pc[c] = "opening"
    /\ readers = {}
    /\ session' = c
    /\ todo' = NFiles
    /\ \/ /\ captureEnabled' = TRUE
          /\ copyEnabled' = TRUE
          /\ Goto(c, "copying")
          /\ UNCHANGED <<result, reported>>
       \/ /\ Fail(c, "EIO")
          /\ ReportFrom(c)
          /\ Goto(c, "stopping")
    /\ UNCHANGED <<held, mutex, readers, errorVars, apc, backupsLeft,
                   errorsLeft, incomplete, captureFailed>>

(* Mutant: the copier waits for copying to be turned on again. *)
CopyNext_Waits(c) ==
    /\ pc[c] = "copying"
    /\ todo = 0 \/ copyEnabled
    /\ IF todo = 0
       THEN Goto(c, "stopping") /\ UNCHANGED todo
       ELSE Goto(c, "copying file") /\ todo' = todo - 1
    /\ UNCHANGED <<result, reported, held, mutex, session, readers, flagVars,
                   errorVars, apc, backupsLeft, errorsLeft, incomplete,
                   captureFailed>>

(* copier::do_copy, the top of the loop: the list is empty, or copying was *)
(* turned off and the copier leaves with r = 0, or the next file is taken. *)
CopyNext(c) ==
    /\ pc[c] = "copying"
    /\ IF todo = 0 \/ ~copyEnabled
       THEN /\ Goto(c, "stopping")
            /\ incomplete' = [incomplete EXCEPT ![c] = @ /\ todo # 0]
            /\ UNCHANGED todo
       ELSE /\ Goto(c, "copying file")
            /\ todo' = todo - 1
            /\ UNCHANGED incomplete
    /\ UNCHANGED <<result, reported, held, mutex, session, readers, flagVars,
                   errorVars, apc, backupsLeft, errorsLeft, captureFailed>>

(* Mutant: the failure of close() is not reported. *)
FileCopied_Silent(c) ==
    /\ pc[c] = "copying file"
    /\ Goto(c, "copying")
    /\ \/ UNCHANGED flagVars
       \/ CloseFails /\ TurnOff
    /\ UNCHANGED <<result, reported, held, mutex, session, readers, errorVars,
                   todo, apc, backupsLeft, errorsLeft, incomplete,
                   captureFailed>>

(* The file is copied and its destination_file, if it is not also open in  *)
(* the application, is closed: try_to_remove_destination ignores what      *)
(* close() returns, which has been through backup_error by then.           *)
FileCopied(c) ==
    /\ pc[c] = "copying file"
    /\ Goto(c, "copying")
    /\ \/ UNCHANGED <<reported, flagVars>>
       \/ CloseFails /\ ReportFrom(c)
    /\ UNCHANGED <<result, held, mutex, session, readers, errorVars, todo, apc,
                   backupsLeft, errorsLeft, incomplete, captureFailed>>

(* copy_file_data notices in the middle of the file that copying was       *)
(* turned off, and leaves with r = 0; do_copy then stops in the same way.  *)
FileAbandoned(c) ==
    /\ pc[c] = "copying file"
    /\ ~copyEnabled
    /\ Goto(c, "stopping")
    /\ UNCHANGED <<result, reported, held, mutex, session, readers, flagVars,
                   errorVars, todo, apc, backupsLeft, errorsLeft, incomplete,
                   captureFailed>>

(* The poll function asks to abort, or a call on either file fails:        *)
(* do_backup gets the error from do_copy.                                  *)
CopyFails(c) ==
    /\ pc[c] \in {"copying", "copying file"}
    /\ pc[c] = "copying" => copyEnabled /\ todo > 0
    /\ \E error \in {"aborted", "EIO"} :
          (pc[c] = "copying" => error = "aborted") /\ Fail(c, error)
    /\ ReportFrom(c)
    /\ Goto(c, "stopping")
    /\ UNCHANGED <<held, mutex, session, readers, errorVars, todo, apc,
                   backupsLeft, errorsLeft, incomplete, captureFailed>>

(* Mutant: the session is deleted without the write lock. *)
CloseSession_WithoutLock(c) ==
    /\ pc[c] = "stopping"
    /\ session' = NoOne
    /\ captureEnabled' = FALSE
    /\ Goto(c, "unlocking")
    /\ UNCHANGED <<result, reported, held, mutex, readers, copyEnabled, errorVars,
                   todo, apc, backupsLeft, errorsLeft, incomplete,
                   captureFailed>>

(* Under the write lock: close what is open in the backup (which may fail, *)
(* as in FileCopied) and delete the session.                               *)
CloseSession(c) ==
    /\ pc[c] = "stopping"
    /\ readers = {}
    /\ session' = NoOne
    /\ captureEnabled' = FALSE
    /\ \/ UNCHANGED <<copyEnabled, reported>>
       \/ /\ CloseFails
          /\ copyEnabled' = FALSE
          /\ reported' = [reported EXCEPT ![c] = TRUE]
    /\ Goto(c, "unlocking")
    /\ UNCHANGED <<result, held, mutex, readers, errorVars, todo, apc,
                   backupsLeft, errorsLeft, incomplete, captureFailed>>

Unlock(c) ==
    /\ pc[c] = "unlocking"
    /\ mutex' = NoOne
    /\ Goto(c, "checking")
    /\ UNCHANGED <<result, reported, held, session, readers, flagVars, errorVars,
                   todo, apc, backupsLeft, errorsLeft, incomplete, captureFailed>>

(* m_an_error_happened and m_errstring are read without m_error_mutex. *)
CheckError(c) ==
    /\ pc[c] = "checking"
    /\ IF errorHappened
       THEN Goto(c, "reporting") /\ held' = [held EXCEPT ![c] = errstring]
       ELSE Goto(c, "idle") /\ UNCHANGED held
    /\ UNCHANGED <<result, reported, mutex, session, readers, flagVars, errorVars,
                   todo, apc, backupsLeft, errorsLeft, incomplete, captureFailed>>

ReportSavedError(c) ==
    /\ pc[c] = "reporting"
    /\ reported' = [reported EXCEPT ![c] = TRUE]
    /\ held' = [held EXCEPT ![c] = NoString]
    /\ result' = [result EXCEPT ![c] = IF @ = "ok" THEN errnum ELSE @]
    /\ Goto(c, "idle")
    /\ UNCHANGED <<mutex, session, readers, flagVars, errorVars, todo, apc,
                   backupsLeft, errorsLeft, incomplete, captureFailed>>

----------------------------------------------------------------------------
(*                         Application threads                             *)

(* try_to_enter_session_and_lock; without a session the lock is let go and *)
(* nothing is captured.                                                    *)
EnterSession(t) ==
    /\ apc[t] = "idle"
    /\ session # NoOne
    /\ readers' = readers \cup {t}
    /\ apc' = [apc EXCEPT ![t] = "capturing"]
    /\ UNCHANGED <<callerVars, mutex, session, flagVars, errorVars, todo,
                   backupsLeft, errorsLeft, incomplete, captureFailed>>

(* Mutant: the thread leaves the session before it saves its error. *)
CaptureFails_LeavesFirst(t) ==
    /\ apc[t] = "capturing"
    /\ errorsLeft > 0
    /\ errorsLeft' = errorsLeft - 1
    /\ TurnOff
    /\ readers' = readers \ {t}
    /\ apc' = [apc EXCEPT ![t] = "failing"]
    /\ captureFailed' = [captureFailed EXCEPT ![session] = TRUE]
    /\ UNCHANGED <<callerVars, mutex, session, errorVars, todo, backupsLeft,
                   incomplete>>

(* The call on the backup fails. *)
CaptureFails(t) ==
    /\ apc[t] = "capturing"
    /\ errorsLeft > 0
    /\ errorsLeft' = errorsLeft - 1
    /\ TurnOff
    /\ apc' = [apc EXCEPT ![t] = "failing"]
    /\ captureFailed' = [captureFailed EXCEPT ![session] = TRUE]
    /\ UNCHANGED <<callerVars, mutex, session, readers, errorVars, todo,
                   backupsLeft, incomplete>>

(* A call fails before it enters the session: open(), unlink(), rename()   *)
(* or truncate() could not resolve the path, or open() could not fstat.    *)
OutsideCallFails(t) ==
    /\ OutsideErrors
    /\ apc[t] = "idle"
    /\ errorsLeft > 0
    /\ errorsLeft' = errorsLeft - 1
    /\ TurnOff
    /\ apc' = [apc EXCEPT ![t] = "failing"]
    /\ UNCHANGED <<callerVars, mutex, session, readers, errorVars, todo,
                   backupsLeft, incomplete, captureFailed>>

(* Mutant: a later error replaces the first one. *)
SaveError_Replaces(t) ==
    /\ apc[t] = "failing"
    /\ errorMutex = NoOne
    /\ apc' = [apc EXCEPT ![t] = "saving"]
    /\ errorMutex' = t
    /\ errnum' = "EIO"
    /\ errstring' = errstring + 1
    /\ UNCHANGED <<callerVars, mutex, session, readers, flagVars, errorHappened,
                   todo, backupsLeft, errorsLeft, incomplete, captureFailed>>

(* set_error_internal: the first error is kept, with a new string ...      *)
SaveError(t) ==
    /\ apc[t] = "failing"
    /\ errorMutex = NoOne
    /\ IF errorHappened
       THEN /\ apc' = [apc EXCEPT ![t] = "leaving"]
            /\ UNCHANGED <<errorMutex, errnum, errstring>>
       ELSE /\ apc' = [apc EXCEPT ![t] = "saving"]
            /\ errorMutex' = t
            /\ errnum' = "EIO"
            /\ errstring' = errstring + 1
    /\ UNCHANGED <<callerVars, mutex, session, readers, flagVars, errorHappened,
                   todo, backupsLeft, errorsLeft, incomplete, captureFailed>>

(* ... and the flag is set last. *)
FlagError(t) ==
    /\ apc[t] = "saving"
    /\ errorHappened' = TRUE
    /\ errorMutex' = NoOne
    /\ apc' = [apc EXCEPT ![t] = "leaving"]
    /\ UNCHANGED <<callerVars, mutex, session, readers, flagVars, errnum,
                   errstring, todo, backupsLeft, errorsLeft, incomplete,
                   captureFailed>>

(* exit_session_and_unlock_or_die, if the thread is in the session. *)
LeaveSession(t) ==
    /\ apc[t] \in {"capturing", "leaving"}
    /\ readers' = readers \ {t}
    /\ apc' = [apc EXCEPT ![t] = "idle"]
    /\ UNCHANGED <<callerVars, mutex, session, flagVars, errorVars, todo,
                   backupsLeft, errorsLeft, incomplete, captureFailed>>

----------------------------------------------------------------------------

Init ==
    /\ pc = [c \in Callers |-> "idle"]
    /\ result = [c \in Callers |-> "ok"]
    /\ reported = [c \in Callers |-> FALSE]
    /\ held = [c \in Callers |-> NoString]
    /\ mutex = NoOne
    /\ session = NoOne
    /\ readers = {}
    /\ captureEnabled = FALSE
    /\ copyEnabled = FALSE
    /\ errorMutex = NoOne
    /\ errorHappened = FALSE
    /\ errnum = "ok"
    /\ errstring = NoString
    /\ todo = 0
    /\ apc = [t \in AppThreads |-> "idle"]
    /\ backupsLeft = MaxBackups
    /\ errorsLeft = MaxErrors
    /\ incomplete = [c \in Callers |-> FALSE]
    /\ captureFailed = [c \in Callers |-> FALSE]

CallerStep(c) ==
    \/ PollPasses(c)
    \/ PollAborts(c)
    \/ TryLock(c)
    \/ Validate(c)
    \/ OpenSession(c)
    \/ CopyNext(c)
    \/ FileCopied(c)
    \/ FileAbandoned(c)
    \/ CopyFails(c)
    \/ CloseSession(c)
    \/ Unlock(c)
    \/ CheckError(c)
    \/ ReportSavedError(c)

AppStep(t) ==
    \/ CaptureFails(t)
    \/ SaveError(t)
    \/ FlagError(t)
    \/ LeaveSession(t)

Next ==
    \/ \E c \in Callers : Start(c) \/ CallerStep(c)
    \/ \E t \in AppThreads : EnterSession(t) \/ OutsideCallFails(t) \/ AppStep(t)

Spec == Init /\ [][Next]_vars

(* A thread inside do_backup or inside a captured call keeps running while *)
(* it can, and its callbacks return.  The session lock need not be fair:   *)
(* glibc's default rwlock prefers readers.                                 *)
Fairness ==
    /\ \A c \in Callers : WF_vars(CallerStep(c))
    /\ \A t \in AppThreads : WF_vars(AppStep(t))

FairSpec == Spec /\ Fairness

----------------------------------------------------------------------------
(*                              Properties                                 *)

Working == {"validating", "opening", "copying", "copying file", "stopping",
            "unlocking"}

Errors == {"aborted", "EBUSY", "EINVAL", "EIO"}

TypeOK ==
    /\ pc \in [Callers -> Working \cup {"idle", "polling", "trying", "checking",
                                       "reporting"}]
    /\ result \in [Callers -> Errors \cup {"ok"}]
    /\ reported \in [Callers -> BOOLEAN]
    /\ held \in [Callers -> Nat]
    /\ mutex \in Callers \cup {NoOne}
    /\ session \in Callers \cup {NoOne}
    /\ readers \in SUBSET AppThreads
    /\ captureEnabled \in BOOLEAN
    /\ copyEnabled \in BOOLEAN
    /\ errorMutex \in AppThreads \cup {NoOne}
    /\ errorHappened \in BOOLEAN
    /\ errnum \in {"ok", "EIO"}
    /\ errstring \in Nat
    /\ todo \in 0..NFiles
    /\ apc \in [AppThreads -> {"idle", "capturing", "failing", "saving", "leaving"}]
    /\ backupsLeft \in 0..MaxBackups
    /\ errorsLeft \in 0..MaxErrors
    /\ incomplete \in [Callers -> BOOLEAN]
    /\ captureFailed \in [Callers -> BOOLEAN]

(* Backups are serialized (manager.h:70): whoever has created the session  *)
(* still has m_mutex and is copying or stopping, whatever other callers    *)
(* do; m_mutex is held by a caller that will release it on every path; and *)
(* calls are captured only into a session.                                 *)
BackupsAreSerialized ==
    /\ \A c \in Callers : mutex = c <=> pc[c] \in Working
    /\ \A c \in Callers :
          session = c <=> pc[c] \in {"copying", "copying file", "stopping"}
    /\ captureEnabled => session # NoOne

(* The session is never deleted under a thread that is using it, not even  *)
(* one that is busy saving an error.                                       *)
SessionOutlivesCaptures ==
    readers # {} => session # NoOne

(* Once do_backup has returned, a failure of a call captured in its        *)
(* session has been reported and returned (manager.h:116-117), and no      *)
(* error is returned without a call of error_fun (backup.h:102-104).       *)
FailuresAreReported ==
    \A c \in Callers : pc[c] = "idle" =>
        /\ captureFailed[c] => result[c] # "ok"
        /\ result[c] # "ok" => reported[c]

(* 0 means that the backup succeeded (backup.h:97): no file is missing.    *)
SuccessMeansComplete ==
    \A c \in Callers : pc[c] = "idle" /\ result[c] = "ok" => ~incomplete[c]

(* The error of a thread of the application is saved, or about to be.       *)
ErrorUnderWay ==
    errorHappened \/ \E t \in AppThreads : apc[t] \in {"failing", "saving"}

(* When files are missing in spite of a result of 0, somebody hears of it: *)
(* error_fun was called, or the manager gets an error that it had not yet  *)
(* when do_backup looked for one (manager.cc:951-975).                     *)
MissingFilesLeaveAnError ==
    \A c \in Callers :
        pc[c] = "idle" /\ result[c] = "ok" /\ incomplete[c] =>
            reported[c] \/ ErrorUnderWay

(* The string that do_backup passes to error_fun is read without           *)
(* m_error_mutex; nobody replaces, and so frees, it in the meantime.       *)
ErrorStringIsAlive ==
    \A c \in Callers : pc[c] = "reporting" => held[c] = errstring

(* Every call of do_backup returns, provided that the threads in the       *)
(* session eventually leave it all at once for long enough (see Fairness). *)
BackupsReturn ==
    <>[](readers = {}) => \A c \in Callers : pc[c] # "idle" ~> pc[c] = "idle"

====
