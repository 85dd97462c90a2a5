---- MODULE BackupManagerProofs ----
(***************************************************************************)
(* Proofs about BackupManager, for any number of callers, threads, files,  *)
(* backups and errors.                                                     *)
(***************************************************************************)
EXTENDS BackupManager, TLAPS

----------------------------------------------------------------------------
(* Any number of callers: the locks do what they are for.                  *)

IInv == TypeOK /\ BackupsAreSerialized /\ SessionOutlivesCaptures

(* The initial state is well typed and nothing is running in it. *)
LEMMA InitIInv == Init => IInv
<1> SUFFICES ASSUME Init PROVE IInv
  OBVIOUS
<1>1. /\ todo \in 0..NFiles
      /\ backupsLeft \in 0..MaxBackups
      /\ errorsLeft \in 0..MaxErrors
  BY BackupManagerAssumption DEF Init
<1>2. TypeOK
  BY <1>1 DEF Init, TypeOK, Working, Errors, NoString
<1>3. BackupsAreSerialized /\ SessionOutlivesCaptures
  BY BackupManagerAssumption
  DEF Init, BackupsAreSerialized, SessionOutlivesCaptures, Working
<1> QED
  BY <1>2, <1>3 DEF IInv

(* The bounded counters stay in their ranges. *)
LEMMA CallerCounters ==
  ASSUME TypeOK, NEW c \in Callers, Start(c) \/ CallerStep(c)
  PROVE  backupsLeft' \in 0..MaxBackups /\ todo' \in 0..NFiles
<1>1. /\ NFiles \in Nat /\ MaxBackups \in Nat
      /\ backupsLeft \in 0..MaxBackups /\ todo \in 0..NFiles
  BY BackupManagerAssumption DEF TypeOK
<1>2. \/ backupsLeft > 0 /\ backupsLeft' = backupsLeft - 1
      \/ backupsLeft' = backupsLeft
  BY DEF Start, CallerStep, PollPasses, PollAborts, TryLock, Validate,
     OpenSession, CopyNext, FileCopied, FileAbandoned, CopyFails, CloseSession,
     Unlock, CheckError, ReportSavedError
<1>3. \/ todo' = NFiles
      \/ todo' = todo
      \/ todo # 0 /\ todo' = todo - 1
  BY DEF Start, CallerStep, PollPasses, PollAborts, TryLock, Validate,
     OpenSession, CopyNext, FileCopied, FileAbandoned, CopyFails, CloseSession,
     Unlock, CheckError, ReportSavedError
<1> QED
  BY <1>1, <1>2, <1>3

(* A step of do_backup keeps the types. *)
LEMMA CallerType ==
  ASSUME TypeOK, NEW c \in Callers, Start(c) \/ CallerStep(c)
  PROVE  TypeOK'
<1> USE DEF TypeOK, Working, Errors, Goto, Fail, ReportFrom, TurnOff, callerVars,
            flagVars, errorVars
<1>1. CASE Start(c)
  BY <1>1, CallerCounters DEF Start
<1>2. CASE PollPasses(c)
  BY <1>2 DEF PollPasses
<1>3. CASE PollAborts(c)
  BY <1>3 DEF PollAborts
<1>4. CASE TryLock(c)
  BY <1>4 DEF TryLock
<1>5. CASE Validate(c)
  BY <1>5 DEF Validate
<1>6. CASE OpenSession(c)
  <2>1. todo' \in 0..NFiles
    BY CallerCounters
  <2>2. pc' \in [Callers -> Working \cup {"idle", "polling", "trying",
                                       "checking", "reporting"}]
    BY <1>6 DEF OpenSession
  <2>3. result' \in [Callers -> Errors \cup {"ok"}]
    BY <1>6 DEF OpenSession
  <2>4. reported' \in [Callers -> BOOLEAN]
    BY <1>6 DEF OpenSession
  <2>5. captureEnabled' \in BOOLEAN /\ copyEnabled' \in BOOLEAN
    BY <1>6 DEF OpenSession
  <2> QED
    BY <1>6, <2>1, <2>2, <2>3, <2>4, <2>5 DEF OpenSession
<1>7. CASE CopyNext(c)
  <2>1. todo' \in 0..NFiles
    BY CallerCounters
  <2>2. pc' \in [Callers -> Working \cup {"copying file", "stopping", "idle",
                         "polling", "trying", "checking", "reporting"}]
    BY <1>7 DEF CopyNext
  <2>3. incomplete' \in [Callers -> BOOLEAN]
    BY <1>7 DEF CopyNext
  <2> QED
    BY <1>7, <2>1, <2>2, <2>3 DEF CopyNext
<1>8. CASE FileCopied(c)
  BY <1>8 DEF FileCopied
<1>9. CASE FileAbandoned(c)
  BY <1>9 DEF FileAbandoned
<1>10. CASE CopyFails(c)
  BY <1>10 DEF CopyFails
<1>11. CASE CloseSession(c)
  BY <1>11 DEF CloseSession
<1>12. CASE Unlock(c)
  BY <1>12 DEF Unlock
<1>13. CASE CheckError(c)
  <2>1. CASE errorHappened
    BY <1>13, <2>1 DEF CheckError
  <2>2. CASE ~errorHappened
    BY <1>13, <2>2 DEF CheckError
  <2> QED
    BY <2>1, <2>2
<1>14. CASE ReportSavedError(c)
  BY <1>14 DEF ReportSavedError, NoString
<1> QED
  BY <1>1, <1>2, <1>3, <1>4, <1>5, <1>6, <1>7, <1>8, <1>9, <1>10, <1>11,
     <1>12, <1>13, <1>14 DEF CallerStep

(* A step of an application thread keeps the types. *)
LEMMA AppType ==
  ASSUME TypeOK, NEW t \in AppThreads,
         EnterSession(t) \/ OutsideCallFails(t) \/ AppStep(t)
  PROVE  TypeOK'
<1> USE DEF TypeOK, TurnOff, callerVars, flagVars, errorVars
<1>1. CASE EnterSession(t)
  BY <1>1 DEF EnterSession
<1>2. CASE OutsideCallFails(t)
  <2>1. errorsLeft' \in 0..MaxErrors
    BY <1>2, BackupManagerAssumption DEF OutsideCallFails
  <2> QED
    BY <1>2, <2>1 DEF OutsideCallFails
<1>3. CASE CaptureFails(t)
  <2>1. errorsLeft' \in 0..MaxErrors
    BY <1>3, BackupManagerAssumption DEF CaptureFails
  <2> QED
    BY <1>3, <2>1 DEF CaptureFails
<1>4. CASE SaveError(t)
  BY <1>4 DEF SaveError
<1>5. CASE FlagError(t)
  BY <1>5 DEF FlagError
<1>6. CASE LeaveSession(t)
  BY <1>6 DEF LeaveSession
<1> QED
  BY <1>1, <1>2, <1>3, <1>4, <1>5, <1>6 DEF AppStep

(* A step of do_backup keeps the locking discipline: what c changes of     *)
(* mutex and session agrees with where c goes, and no other caller is      *)
(* working, or has the session, when c is.                                 *)
LEMMA CallerSerialized ==
  ASSUME IInv, NEW c \in Callers, Start(c) \/ CallerStep(c)
  PROVE  (BackupsAreSerialized /\ SessionOutlivesCaptures)'
<1> USE BackupManagerAssumption
    DEF IInv, TypeOK, BackupsAreSerialized, SessionOutlivesCaptures, Working,
        Goto, ReportFrom, TurnOff, callerVars, flagVars
<1>1. CASE Start(c)
  BY <1>1 DEF Start
<1>2. CASE PollPasses(c)
  BY <1>2 DEF PollPasses
<1>3. CASE PollAborts(c)
  BY <1>3 DEF PollAborts
<1>4. CASE TryLock(c)
  <2>1. CASE mutex = NoOne
    <3>1. /\ pc[c] = "trying"
          /\ pc' = [pc EXCEPT ![c] = "validating"]
          /\ mutex' = c
          /\ UNCHANGED <<session, readers, captureEnabled>>
      BY <1>4, <2>1 DEF TryLock
    <3> QED
      BY <3>1, <2>1
  <2>2. CASE mutex # NoOne
    <3>1. /\ pc[c] = "trying"
          /\ pc' = [pc EXCEPT ![c] = "idle"]
          /\ UNCHANGED <<mutex, session, readers>>
          /\ captureEnabled' = FALSE
      BY <1>4, <2>2 DEF TryLock
    <3> QED
      BY <3>1
  <2> QED
    BY <2>1, <2>2
<1>5. CASE Validate(c)
  <2>1. CASE pc' = [pc EXCEPT ![c] = "opening"] /\ UNCHANGED captureEnabled
    BY <1>5, <2>1 DEF Validate
  <2>2. CASE pc' = [pc EXCEPT ![c] = "unlocking"] /\ captureEnabled' = FALSE
    BY <1>5, <2>2 DEF Validate
  <2> QED
    BY <1>5, <2>1, <2>2 DEF Validate
<1>6. CASE OpenSession(c)
  BY <1>6 DEF OpenSession
<1>7. CASE CopyNext(c)
  BY ZenonT(60), <1>7 DEF CopyNext
<1>8. CASE FileCopied(c)
  BY ZenonT(60), <1>8 DEF FileCopied
<1>9. CASE FileAbandoned(c)
  BY <1>9 DEF FileAbandoned
<1>10. CASE CopyFails(c)
  BY <1>10 DEF CopyFails
<1>11. CASE CloseSession(c)
  BY <1>11 DEF CloseSession
<1>12. CASE Unlock(c)
  BY <1>12 DEF Unlock
<1>13. CASE CheckError(c)
  BY ZenonT(60), <1>13 DEF CheckError
<1>14. CASE ReportSavedError(c)
  BY <1>14 DEF ReportSavedError
<1> QED
  BY <1>1, <1>2, <1>3, <1>4, <1>5, <1>6, <1>7, <1>8, <1>9, <1>10, <1>11,
     <1>12, <1>13, <1>14 DEF CallerStep

(* An application thread changes neither m_mutex nor the session, enters   *)
(* only a session that exists, and never turns capturing on.               *)
LEMMA AppSerialized ==
  ASSUME IInv, NEW t \in AppThreads,
         EnterSession(t) \/ OutsideCallFails(t) \/ AppStep(t)
  PROVE  (BackupsAreSerialized /\ SessionOutlivesCaptures)'
<1> USE DEF IInv, TypeOK, BackupsAreSerialized, SessionOutlivesCaptures,
            TurnOff, callerVars, flagVars
<1>1. CASE EnterSession(t)
  BY <1>1 DEF EnterSession
<1>2. CASE OutsideCallFails(t)
  BY <1>2 DEF OutsideCallFails
<1>3. CASE CaptureFails(t)
  BY <1>3 DEF CaptureFails
<1>4. CASE SaveError(t)
  BY <1>4 DEF SaveError
<1>5. CASE FlagError(t)
  BY <1>5 DEF FlagError
<1>6. CASE LeaveSession(t)
  BY <1>6 DEF LeaveSession
<1> QED
  BY <1>1, <1>2, <1>3, <1>4, <1>5, <1>6 DEF AppStep

(* Every step keeps the invariant. *)
LEMMA StepIInv == IInv /\ [Next]_vars => IInv'
<1> SUFFICES ASSUME IInv, [Next]_vars PROVE IInv'
  OBVIOUS
<1>1. ASSUME NEW c \in Callers, Start(c) \/ CallerStep(c) PROVE IInv'
  BY <1>1, CallerType, CallerSerialized DEF IInv
<1>2. ASSUME NEW t \in AppThreads,
             EnterSession(t) \/ OutsideCallFails(t) \/ AppStep(t)
      PROVE IInv'
  BY <1>2, AppType, AppSerialized DEF IInv
<1>3. CASE UNCHANGED vars
  BY <1>3 DEF IInv, TypeOK, BackupsAreSerialized, SessionOutlivesCaptures,
     vars, callerVars, flagVars, errorVars
<1> QED
  BY <1>1, <1>2, <1>3 DEF Next

(* IInv is an invariant of the manager. *)
THEOREM Invariance == Spec => []IInv
<1>1. Init => IInv
  BY InitIInv
<1>2. IInv /\ [Next]_vars => IInv'
  BY StepIInv
<1> QED
  BY <1>1, <1>2, PTL DEF Spec

(* Every variable of the manager keeps its type. *)
THEOREM TypeCorrect == Spec => []TypeOK
<1>1. IInv => TypeOK
  BY DEF IInv
<1> QED
  BY <1>1, Invariance, PTL

(* However many threads call tokubackup_create_backup, one at a time has a *)
(* session, and it is the one that has m_mutex.                            *)
THEOREM BackupsNeverOverlap == Spec => []BackupsAreSerialized
<1>1. IInv => BackupsAreSerialized
  BY DEF IInv
<1> QED
  BY <1>1, Invariance, PTL

(* No session is deleted under a thread that captures into it. *)
THEOREM SessionsOutliveCaptures == Spec => []SessionOutlivesCaptures
<1>1. IInv => SessionOutlivesCaptures
  BY DEF IInv
<1> QED
  BY <1>1, Invariance, PTL

----------------------------------------------------------------------------
(* One caller: no error is lost.  With two callers this is false: the      *)
(* second one clears m_an_error_happened before it tries m_mutex, and with *)
(* it an error that was saved for the first (see the README).              *)

OneCaller == \A c, d \in Callers : c = d

(* A thread in the session is still on its way to setting the flag. *)
Pending == \E t \in readers : apc[t] \in {"failing", "saving"}

ErrorInv ==
    /\ \A t \in AppThreads :
          /\ apc[t] = "capturing" => t \in readers
          /\ apc[t] = "saving" => errnum = "EIO"
    /\ errorHappened => errnum = "EIO"
    /\ \A c \in Callers :
          /\ result[c] # "ok" => reported[c]
          /\ pc[c] = "reporting" => errorHappened /\ held[c] = errstring
          /\ captureFailed[c] =>
                IF pc[c] = "idle" THEN result[c] # "ok"
                                  ELSE errorHappened \/ Pending

(* The only thread that could be in the way of c's report is c itself.     *)
LEMMA NobodyLeftBehind ==
  ASSUME OneCaller, IInv, NEW c \in Callers,
         pc[c] \notin {"copying", "copying file", "stopping"}
  PROVE  session = NoOne /\ readers = {} /\ ~Pending
  BY DEF OneCaller, IInv, TypeOK, BackupsAreSerialized,
         SessionOutlivesCaptures, Pending

(* A step of the only caller keeps ErrorInv. *)
LEMMA CallerErrorInv ==
  ASSUME OneCaller, IInv, ErrorInv, NEW c \in Callers, Start(c) \/ CallerStep(c)
  PROVE  ErrorInv'
<1> USE DEF OneCaller, IInv, TypeOK, ErrorInv, Pending, Goto, Fail, ReportFrom,
            callerVars, flagVars, errorVars
<1>1. CASE Start(c)
  BY <1>1 DEF Start
<1>2. CASE PollPasses(c)
  BY <1>2 DEF PollPasses
<1>3. CASE PollAborts(c)
  BY <1>3 DEF PollAborts
<1>4. CASE TryLock(c)
  <2>1. CASE mutex = NoOne
    BY <1>4, <2>1 DEF TryLock
  <2>2. CASE mutex # NoOne
    BY <1>4, <2>2 DEF TryLock
  <2> QED
    BY <2>1, <2>2
<1>5. CASE Validate(c)
  BY <1>5 DEF Validate
<1>6. CASE OpenSession(c)
  BY <1>6 DEF OpenSession
<1>7. CASE CopyNext(c)
  <2>1. /\ pc[c] # "idle" /\ pc'[c] \notin {"idle", "reporting"}
        /\ \A d \in Callers : d = c
        /\ UNCHANGED <<result, reported, captureFailed, readers, apc, errnum,
                      errorHappened>>
    BY <1>7 DEF CopyNext
  <2> QED
    BY <2>1
<1>8. CASE FileCopied(c)
  BY <1>8 DEF FileCopied
<1>9. CASE FileAbandoned(c)
  BY <1>9 DEF FileAbandoned
<1>10. CASE CopyFails(c)
  BY <1>10 DEF CopyFails
<1>11. CASE CloseSession(c)
  BY <1>11 DEF CloseSession
<1>12. CASE Unlock(c)
  BY <1>12 DEF Unlock
<1>13. CASE CheckError(c)
  BY ZenonT(60), <1>13, NobodyLeftBehind DEF CheckError
<1>14. CASE ReportSavedError(c)
  BY <1>14 DEF ReportSavedError
<1> QED
  BY <1>1, <1>2, <1>3, <1>4, <1>5, <1>6, <1>7, <1>8, <1>9, <1>10, <1>11,
     <1>12, <1>13, <1>14 DEF CallerStep

(* A step of an application thread keeps ErrorInv. *)
LEMMA AppErrorInv ==
  ASSUME OneCaller, IInv, ErrorInv, NEW t \in AppThreads,
         EnterSession(t) \/ OutsideCallFails(t) \/ AppStep(t)
  PROVE  ErrorInv'
<1> USE DEF TypeOK, ErrorInv, Pending, callerVars, flagVars, errorVars, IInv
<1>1. CASE EnterSession(t)
  BY <1>1 DEF EnterSession
<1>2. CASE OutsideCallFails(t)
  BY <1>2 DEF OutsideCallFails
<1>3. CASE CaptureFails(t)
  <2>1. session \in Callers /\ pc[session] # "idle"
    BY <1>3 DEF CaptureFails, SessionOutlivesCaptures, BackupsAreSerialized
  <2> QED
    BY <1>3, <2>1 DEF CaptureFails, OneCaller
<1>4. CASE SaveError(t)
  <2>1. CASE errorHappened
    BY <1>4, <2>1 DEF SaveError
  <2>2. CASE ~errorHappened
    BY <1>4, <2>2 DEF SaveError
  <2> QED
    BY <2>1, <2>2
<1>5. CASE FlagError(t)
  BY <1>5 DEF FlagError
<1>6. CASE LeaveSession(t)
  <2>1. ASSUME Pending PROVE Pending'
    BY <1>6, <2>1 DEF LeaveSession
  <2> QED
    BY <1>6, <2>1 DEF LeaveSession
<1> QED
  BY <1>1, <1>2, <1>3, <1>4, <1>5, <1>6 DEF AppStep

(* ErrorInv holds from the start, and every step keeps it. *)
LEMMA ErrorInvariance ==
  ASSUME OneCaller
  PROVE  Spec => []ErrorInv
<1>1. Init => ErrorInv
  BY DEF Init, ErrorInv
<1>2. IInv /\ ErrorInv /\ [Next]_vars => ErrorInv'
  <2> SUFFICES ASSUME IInv, ErrorInv, [Next]_vars PROVE ErrorInv'
    OBVIOUS
  <2>1. CASE UNCHANGED vars
    BY <2>1 DEF ErrorInv, Pending, vars, callerVars, flagVars, errorVars
  <2> QED
    BY <2>1, CallerErrorInv, AppErrorInv DEF Next
<1> QED
  BY <1>1, <1>2, Invariance, PTL DEF Spec

(* If one thread at a time takes backups, a failure of a captured call is  *)
(* always returned by the backup that it spoils.                           *)
THEOREM CapturedFailuresAreReported ==
  ASSUME OneCaller
  PROVE  Spec => []FailuresAreReported
<1>1. ErrorInv => FailuresAreReported
  BY DEF ErrorInv, FailuresAreReported
<1> QED
  BY <1>1, ErrorInvariance, PTL

(* ... and the message given to error_fun is not freed while it is read.   *)
THEOREM ErrorStringsStayAlive ==
  ASSUME OneCaller
  PROVE  Spec => []ErrorStringIsAlive
<1>1. ErrorInv => ErrorStringIsAlive
  BY DEF ErrorInv, ErrorStringIsAlive
<1> QED
  BY <1>1, ErrorInvariance, PTL

----------------------------------------------------------------------------
(* One caller: files are missing from a backup that returns 0 only if a    *)
(* close() has failed on the backup thread, which has told error_fun, or a *)
(* call has failed outside the session, and its error is saved too late.   *)

LateExcuse(c) ==
    (CloseFails /\ reported[c]) \/ (OutsideErrors /\ ErrorUnderWay)

Excuse(c) == result[c] # "ok" \/ errorHappened \/ Pending \/ LateExcuse(c)

CompleteInv ==
    \A c \in Callers :
        /\ pc[c] \in {"copying", "copying file"} /\ ~copyEnabled => Excuse(c)
        /\ pc[c] \in {"stopping", "unlocking", "checking"} /\ incomplete[c] =>
              Excuse(c)
        /\ pc[c] = "idle" /\ result[c] = "ok" /\ incomplete[c] => LateExcuse(c)

(* A step of the only caller keeps CompleteInv. *)
LEMMA CallerCompleteInv ==
  ASSUME OneCaller, IInv, ErrorInv, CompleteInv, NEW c \in Callers,
         Start(c) \/ CallerStep(c)
  PROVE  CompleteInv'
<1> USE DEF OneCaller, IInv, TypeOK, CompleteInv, Excuse, LateExcuse, ErrorUnderWay,
            Pending, Goto, Fail, ReportFrom, callerVars, flagVars, errorVars
<1>1. CASE Start(c)
  BY <1>1 DEF Start
<1>2. CASE PollPasses(c)
  BY <1>2 DEF PollPasses
<1>3. CASE PollAborts(c)
  BY <1>3 DEF PollAborts
<1>4. CASE TryLock(c)
  <2>1. UNCHANGED <<readers, apc, errorHappened>>
    BY <1>4 DEF TryLock
  <2>2. Pending' = Pending /\ ErrorUnderWay' = ErrorUnderWay
    BY <2>1
  <2> HIDE DEF Pending, ErrorUnderWay
  <2> QED
    <3>1. CASE mutex = NoOne
      BY ZenonT(60), <1>4, <2>1, <2>2, <3>1 DEF TryLock
    <3>2. CASE mutex # NoOne
      BY ZenonT(60), <1>4, <2>1, <2>2, <3>2 DEF TryLock
    <3> QED
      BY <3>1, <3>2
<1>5. CASE Validate(c)
  <2>1. UNCHANGED <<readers, apc, errorHappened>>
    BY <1>5 DEF Validate
  <2>2. Pending' = Pending /\ ErrorUnderWay' = ErrorUnderWay
    BY <2>1
  <2> HIDE DEF Pending, ErrorUnderWay
  <2> QED
    BY ZenonT(60), <1>5, <2>1, <2>2 DEF Validate
<1>6. CASE OpenSession(c)
  <2>1. UNCHANGED <<readers, apc, errorHappened>>
    BY <1>6 DEF OpenSession
  <2>2. Pending' = Pending /\ ErrorUnderWay' = ErrorUnderWay
    BY <2>1
  <2> HIDE DEF Pending, ErrorUnderWay
  <2> QED
    BY ZenonT(60), <1>6, <2>1, <2>2 DEF OpenSession
<1>7. CASE CopyNext(c)
  BY ZenonT(60), <1>7 DEF CopyNext
<1>8. CASE FileCopied(c)
  BY <1>8 DEF FileCopied
<1>9. CASE FileAbandoned(c)
  BY <1>9 DEF FileAbandoned
<1>10. CASE CopyFails(c)
  BY ZenonT(60), <1>10 DEF CopyFails
<1>11. CASE CloseSession(c)
  BY <1>11 DEF CloseSession
<1>12. CASE Unlock(c)
  BY <1>12 DEF Unlock
<1>13. CASE CheckError(c)
  BY ZenonT(60), <1>13, NobodyLeftBehind DEF CheckError
<1>14. CASE ReportSavedError(c)
  BY <1>14 DEF ReportSavedError, ErrorInv
<1> QED
  BY <1>1, <1>2, <1>3, <1>4, <1>5, <1>6, <1>7, <1>8, <1>9, <1>10, <1>11,
     <1>12, <1>13, <1>14 DEF CallerStep

(* A step of an application thread keeps CompleteInv. *)
LEMMA AppCompleteInv ==
  ASSUME OneCaller, IInv, ErrorInv, CompleteInv, NEW t \in AppThreads,
         EnterSession(t) \/ OutsideCallFails(t) \/ AppStep(t)
  PROVE  CompleteInv'
<1> USE DEF IInv, TypeOK, CompleteInv, Excuse, LateExcuse, ErrorUnderWay,
            Pending, callerVars, flagVars, errorVars
<1>1. CASE EnterSession(t)
  BY <1>1 DEF EnterSession
<1>2. CASE OutsideCallFails(t)
  BY <1>2 DEF OutsideCallFails
<1>3. CASE CaptureFails(t)
  <2>1. Pending'
    BY <1>3 DEF CaptureFails, ErrorInv
  <2> QED
    BY <1>3, <2>1 DEF CaptureFails
<1>4. CASE SaveError(t)
  <2>1. ASSUME Pending PROVE errorHappened' \/ Pending'
    BY <1>4, <2>1 DEF SaveError
  <2> QED
    BY <1>4, <2>1 DEF SaveError
<1>5. CASE FlagError(t)
  BY <1>5 DEF FlagError
<1>6. CASE LeaveSession(t)
  <2>1. ASSUME Pending PROVE Pending'
    BY <1>6, <2>1 DEF LeaveSession
  <2> QED
    BY <1>6, <2>1 DEF LeaveSession
<1> QED
  BY <1>1, <1>2, <1>3, <1>4, <1>5, <1>6 DEF AppStep

(* CompleteInv holds from the start, and every step keeps it. *)
LEMMA CompleteInvariance ==
  ASSUME OneCaller
  PROVE  Spec => []CompleteInv
<1>1. Init => CompleteInv
  BY DEF Init, CompleteInv
<1>2. IInv /\ ErrorInv /\ CompleteInv /\ [Next]_vars => CompleteInv'
  <2> SUFFICES ASSUME IInv, ErrorInv, CompleteInv, [Next]_vars
               PROVE  CompleteInv'
    OBVIOUS
  <2>1. CASE UNCHANGED vars
    BY <2>1 DEF CompleteInv, Excuse, LateExcuse, ErrorUnderWay, Pending, vars,
       callerVars, flagVars, errorVars
  <2> QED
    BY <2>1, CallerCompleteInv, AppCompleteInv DEF Next
<1> QED
  BY <1>1, <1>2, Invariance, ErrorInvariance, PTL DEF Spec

(* If one thread at a time takes backups, one that returns 0 with files    *)
(* missing leaves a trace: error_fun was called, or the manager has an     *)
(* error or gets one.                                                      *)
THEOREM NoFileIsLostSilently ==
  ASSUME OneCaller
  PROVE  Spec => []MissingFilesLeaveAnError
<1>1. CompleteInv => MissingFilesLeaveAnError
  BY DEF CompleteInv, LateExcuse, MissingFilesLeaveAnError
<1> QED
  BY <1>1, CompleteInvariance, PTL

(* ... and if no close() of a backup file fails on it, and calls fail only *)
(* inside the session, a backup that returns 0 has copied every file.      *)
THEOREM SuccessfulBackupsAreComplete ==
  ASSUME OneCaller, ~CloseFails, ~OutsideErrors
  PROVE  Spec => []SuccessMeansComplete
<1>1. CompleteInv => SuccessMeansComplete
  BY DEF CompleteInv, LateExcuse, SuccessMeansComplete
<1> QED
  BY <1>1, CompleteInvariance, PTL

====
