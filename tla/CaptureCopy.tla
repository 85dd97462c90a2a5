---- MODULE CaptureCopy ----
(***************************************************************************)
(* One file that the application keeps open while it is backed up.         *)
(*                                                                         *)
(* Application threads call write, pwrite, ftruncate, read and lseek on    *)
(* one file description; manager.cc performs the call on the source file   *)
(* and, if there is a backup session, repeats it on the destination file.  *)
(* At the same time the backup thread (do_backup, then copier.cc) copies   *)
(* the file a buffer at a time.  Three locks order them:                   *)
(*   - the source_file's range lock (module RangeLock), held around the    *)
(*     pair of calls and around the copy of one buffer;                    *)
(*   - the description's mutex, held by write from before it takes the     *)
(*     range lock until the real write has moved the offset;               *)
(*   - the session rwlock, held for reading around the second call and for *)
(*     writing when the session is created and deleted.                    *)
(*                                                                         *)
(* The file is a function from block numbers to contents; block b is Eof   *)
(* when the file has at most b blocks.  A block stands for any number of   *)
(* bytes that one call writes and one buffer holds.                        *)
(***************************************************************************)
EXTENDS Integers, Sequences

CONSTANTS
    AppThreads,     \* application threads
    Copier,         \* the thread that called tokubackup_create_backup
    Values,         \* what a write may write
    MaxBlocks,      \* bound: the longest file, in blocks
    Chunk,          \* the copier's buffer (buf_size, 1 MiB), in blocks
    MaxOps,         \* bound: calls the application makes
    MaxSessions,    \* bound: backups taken, one after the other
    PollAborts,     \* the poll callback may return nonzero
    BackupIOFails,  \* calls on the destination may fail
    ShortWrites,    \* a real write may write fewer bytes than asked, or none
    ShortMirrors,   \* so may one of a destination_file's, without an error
    SeekFails,      \* lseek may fail
    Appends         \* the file was opened with O_APPEND

NoOne == "no one"

ASSUME CaptureCopyAssumption ==
    /\ Copier \notin AppThreads
    /\ NoOne \notin AppThreads
    /\ MaxBlocks \in Nat \ {0}
    /\ Chunk \in Nat \ {0}
    /\ MaxOps \in Nat
    /\ MaxSessions \in Nat
    /\ PollAborts \in BOOLEAN
    /\ BackupIOFails \in BOOLEAN
    /\ {ShortWrites, ShortMirrors, SeekFails, Appends} \subseteq BOOLEAN

VARIABLES
    (* the two files *)
    source,         \* contents of the source file
    backup,         \* contents of its copy in the current backup
    (* the description and the application's calls *)
    offset,         \* description::m_offset
    position,       \* the file offset of the fd, which m_offset stands for
    descLock,       \* holder of description::m_mutex
    pc,             \* where each application thread is
    op,             \* the call each application thread is making
    opsLeft,        \* calls the application may still begin
    (* the manager *)
    session,        \* m_session # NULL
    inSession,      \* threads that hold m_session_rwlock for reading
    copyEnabled,    \* manager_state::m_copy_enabled
    errorHappened,  \* m_an_error_happened
    (* do_backup and the copier *)
    bpc,            \* where the backup thread is
    buffer,         \* what the copier has read and not yet written
    copied,         \* m_total_written_this_file: also the offset of both fds
    rc,             \* do_backup's r: "zero" or "nonzero"
    sessionsLeft,   \* backups that may still begin
    sourceAtStop,   \* history: the source when the last session was deleted
    (* the range lock of the source_file *)
    lockedRanges, phase, request, dead

lockVars  == <<lockedRanges, phase, request, dead>>
fileVars  == <<source, backup>>
appVars   == <<offset, position, descLock, pc, op, opsLeft>>
mgrVars   == <<session, inSession, copyEnabled, errorHappened>>
copyVars  == <<bpc, buffer, copied, rc, sessionsLeft, sourceAtStop>>
vars      == <<lockVars, fileVars, appVars, mgrVars, copyVars>>

(* Every range a caller can compute ends by MaxOffset, which also stands   *)
(* for LLONG_MAX, the end of the ranges that ftruncate locks.              *)
MaxOffset == MaxBlocks + Chunk

Lock == INSTANCE RangeLock WITH Threads <- AppThreads \cup {Copier}

----------------------------------------------------------------------------
(*                                Files                                    *)

Blocks == 0..MaxBlocks - 1
Old == <<"old", 0>> \* what the file contained before the application ran
Zero == <<"zero", 0>> \* a hole reads as zeros
Eof == <<"eof", 0>>
Contents == (Values \X (1..MaxBlocks)) \cup {Old, Zero, Eof}

EmptyFile == [b \in Blocks |-> Eof]

(* Write data from block lo on; a gap before it becomes a hole. *)
WriteBlocks(file, lo, data) ==
    [b \in Blocks |->
        IF lo <= b /\ b < lo + Len(data) THEN data[b - lo + 1]
        ELSE IF b < lo /\ data # <<>> /\ file[b] = Eof THEN Zero
        ELSE file[b]]

(* Make the file exactly len blocks long. *)
Truncate(file, len) ==
    [b \in Blocks |-> IF b >= len THEN Eof
                      ELSE IF file[b] = Eof THEN Zero
                      ELSE file[b]]

(* The first n blocks that a write of value writes. *)
Data(n, value) == [i \in 1..n |-> <<value, i>>]

Size(file) == CHOOSE n \in 0..MaxBlocks :
                 \A b \in Blocks : file[b] = Eof <=> b >= n

----------------------------------------------------------------------------
(*                          The application                                *)

(* The range [lo, hi), what is written, where the real call begins and how *)
(* much of it destination_file::pwrite has repeated.                       *)
NoValue == "no value"
Calls == [kind : {"write", "pwrite", "ftruncate"},
          lo : -1..MaxBlocks, hi : -1..MaxOffset,
          value : Values \cup {NoValue}, at : 0..MaxBlocks,
          mirrored : 0..MaxBlocks]

Call(kind, lo, hi, value) ==
    [kind |-> kind, lo |-> lo, hi |-> hi, value |-> value, at |-> 0,
     mirrored |-> 0]

NoCall == Call("write", 0, 0, NoValue)

(* The range lock is requested in the same step as the call begins.  The   *)
(* range is [offset, offset+nbyte), or [length, LLONG_MAX) for ftruncate;  *)
(* lock_range takes -1 for the greatest unsigned number.                   *)
Begin(t, call) ==
    /\ pc[t] = "idle"
    /\ opsLeft > 0
    /\ opsLeft' = opsLeft - 1
    /\ op' = [op EXCEPT ![t] = call]
    /\ pc' = [pc EXCEPT ![t] = "locking"]
    /\ Lock!LockRange(t, [lo |-> IF call.lo < 0 THEN MaxOffset ELSE call.lo,
                          hi |-> call.hi])

(* write(): the description is locked first, to fix the offset. *)
BeginWrite(t) ==
    /\ descLock = NoOne
    /\ descLock' = t
    /\ \E n \in 1..MaxBlocks - position, v \in Values :
          Begin(t, Call("write", offset, offset + n, v))
    /\ UNCHANGED <<fileVars, offset, position, mgrVars, copyVars>>

BeginPwrite(t) ==
    /\ \E lo \in Blocks : \E hi \in lo + 1..MaxBlocks, v \in Values :
          Begin(t, Call("pwrite", lo, hi, v))
    /\ UNCHANGED <<fileVars, offset, position, descLock, mgrVars, copyVars>>

(* Mutant: ftruncate locks nothing beyond the new end of the file. *)
BeginFtruncate_LocksNothing(t) ==
    /\ \E length \in 0..MaxBlocks :
          Begin(t, Call("ftruncate", length, length, NoValue))
    /\ UNCHANGED <<fileVars, offset, position, descLock, mgrVars, copyVars>>

BeginFtruncate(t) ==
    /\ \E length \in 0..MaxBlocks :
          Begin(t, Call("ftruncate", length, MaxOffset, NoValue))
    /\ UNCHANGED <<fileVars, offset, position, descLock, mgrVars, copyVars>>

(* read() and lseek() move both offsets under the description's mutex.     *)
MoveOffset(t) ==
    /\ pc[t] = "idle"
    /\ opsLeft > 0
    /\ descLock = NoOne
    /\ opsLeft' = opsLeft - 1
    /\ UNCHANGED <<lockVars, fileVars, descLock, pc, op, mgrVars, copyVars>>

Read(t) ==
    /\ MoveOffset(t)
    /\ \E n \in 0..Size(source) - position :
          offset' = offset + n /\ position' = position + n

(* m_offset becomes the result of the real lseek: -1 if that has failed.   *)
Seek(t) ==
    /\ MoveOffset(t)
    /\ \/ position' \in 0..MaxBlocks /\ offset' = position'
       \/ SeekFails /\ offset' = -1 /\ UNCHANGED position

GetRangeLock(t) ==
    /\ pc[t] = "locking"
    /\ Lock!LockGranted(t)
    /\ pc' = [pc EXCEPT ![t] = "locked"]
    /\ UNCHANGED <<fileVars, offset, position, descLock, op, opsLeft, mgrVars, copyVars>>

(* How much the real write writes: a full disk stops it short, and a write *)
(* that fails has written nothing (a pwrite that fails: see RealCallFails).*)
LengthsOfWrite(call) ==
    {n \in 0..call.hi - call.lo :
        /\ ~ShortWrites => n = call.hi - call.lo
        /\ n = 0 => call.kind = "write"}

(* Where it begins.  With O_APPEND Linux gives even pwrite the end of the  *)
(* file.                                                                   *)
StartOfWrite(call) ==
    IF Appends THEN Size(source)
    ELSE IF call.kind = "write" THEN position ELSE call.lo

(* Mutant: pwrite moves m_offset, too. *)
MovesOffset_Always(call) == TRUE

MovesOffset(call) == call.kind = "write"

(* The real call on the source.  write() moves the offsets by what was     *)
(* written and gives up the description's mutex.                           *)
RealCall(t) ==
    /\ pc[t] = "locked"
    /\ IF op[t].kind = "ftruncate"
       THEN /\ source' = Truncate(source, op[t].lo)
            /\ op' = [op EXCEPT ![t].at = op[t].lo]
            /\ UNCHANGED <<offset, position, descLock>>
       ELSE \E n \in LengthsOfWrite(op[t]) :
              LET start == StartOfWrite(op[t])
              IN  /\ start + n <= MaxBlocks
                  /\ source' = WriteBlocks(source, start, Data(n, op[t].value))
                  /\ op' = [op EXCEPT ![t].at = start]
                  /\ offset' = IF MovesOffset(op[t]) THEN offset + n ELSE offset
                  /\ IF op[t].kind = "write"
                     THEN position' = start + n /\ descLock' = NoOne
                     ELSE UNCHANGED <<position, descLock>>
    /\ pc' = [pc EXCEPT ![t] = "done on source"]
    /\ UNCHANGED <<lockVars, backup, opsLeft, mgrVars, copyVars>>

(* The real call fails: pwrite and ftruncate then leave the backup alone.  *)
(* write does not look at the result before it goes on to the backup, so   *)
(* that its failure is a RealCall that writes nothing.                     *)
RealCallFails(t) ==
    /\ pc[t] = "locked"
    /\ op[t].kind # "write"
    /\ pc' = [pc EXCEPT ![t] = "unlocking"]
    /\ UNCHANGED <<lockVars, fileVars, offset, position, descLock, op, opsLeft, mgrVars,
                   copyVars>>

(* try_to_enter_session_and_lock: keep the read lock if there is a session. *)
EnterSession(t) ==
    /\ pc[t] = "done on source"
    /\ IF session
       THEN /\ inSession' = inSession \cup {t}
            /\ pc' = [pc EXCEPT ![t] = "in session"]
       ELSE /\ pc' = [pc EXCEPT ![t] = "unlocking"]
            /\ UNCHANGED inSession
    /\ UNCHANGED <<lockVars, fileVars, offset, position, descLock, op, opsLeft,
                   session, copyEnabled, errorHappened, copyVars>>

(* How much a pwrite of the loop in destination_file::pwrite writes.       *)
LengthsOfMirror(rest) == IF ShortMirrors THEN 1..rest ELSE {rest}

(* The same call on the destination file: all nbyte bytes of a write, not  *)
(* the part that the real call wrote, at the offset that it was thought to *)
(* have.  Each turn of the loop moves the offset on, but writes from the   *)
(* beginning of the buffer.  A negative offset fails.                      *)
Mirror(t) ==
    /\ pc[t] = "in session" /\ op[t].lo >= 0
    /\ \E n \in IF op[t].kind = "ftruncate" THEN {0}
               ELSE LengthsOfMirror(op[t].hi - op[t].lo - op[t].mirrored) :
         LET done == op[t].mirrored + n
             last == op[t].kind = "ftruncate" \/ op[t].lo + done = op[t].hi
         IN  /\ backup' = IF op[t].kind = "ftruncate"
                          THEN Truncate(backup, op[t].lo)
                          ELSE WriteBlocks(backup, op[t].lo + op[t].mirrored,
                                           Data(n, op[t].value))
             /\ op' = [op EXCEPT ![t].mirrored = IF last THEN 0 ELSE done]
             /\ inSession' = IF last THEN inSession \ {t} ELSE inSession
             /\ pc' = [pc EXCEPT ![t] = IF last THEN "unlocking" ELSE @]
    /\ UNCHANGED <<lockVars, source, offset, position, descLock, opsLeft,
                   session, copyEnabled, errorHappened, copyVars>>

(* It fails: backup_error first turns the copier off ... *)
MirrorFails(t) ==
    /\ BackupIOFails \/ op[t].lo < 0
    /\ pc[t] = "in session"
    /\ copyEnabled' = FALSE
    /\ pc' = [pc EXCEPT ![t] = "failed"]
    /\ UNCHANGED <<lockVars, fileVars, offset, position, descLock, op, opsLeft,
                   session, inSession, errorHappened, copyVars>>

(* Mutant: an early return after the error leaves the range locked. *)
SetError_KeepsRange(t) ==
    /\ pc[t] = "failed"
    /\ errorHappened' = TRUE
    /\ inSession' = inSession \ {t}
    /\ pc' = [pc EXCEPT ![t] = "idle"]
    /\ UNCHANGED <<lockVars, fileVars, offset, position, descLock, op, opsLeft,
                   session, copyEnabled, copyVars>>

(* Mutant: ... or the session lock held. *)
SetError_KeepsSession(t) ==
    /\ pc[t] = "failed"
    /\ errorHappened' = TRUE
    /\ pc' = [pc EXCEPT ![t] = "unlocking"]
    /\ UNCHANGED <<lockVars, fileVars, offset, position, descLock, op, opsLeft,
                   session, inSession, copyEnabled, copyVars>>

(* ... then records the error; the read lock is released after that. *)
SetError(t) ==
    /\ pc[t] = "failed"
    /\ errorHappened' = TRUE
    /\ inSession' = inSession \ {t}
    /\ pc' = [pc EXCEPT ![t] = "unlocking"]
    /\ UNCHANGED <<lockVars, fileVars, offset, position, descLock, op, opsLeft,
                   session, copyEnabled, copyVars>>

EndCall(t) ==
    /\ pc[t] = "unlocking"
    /\ Lock!UnlockRange(t)
    /\ pc' = [pc EXCEPT ![t] = "idle"]
    /\ op' = [op EXCEPT ![t] = NoCall]
    /\ UNCHANGED <<fileVars, offset, position, descLock, opsLeft, mgrVars, copyVars>>

----------------------------------------------------------------------------
(*                     The backup thread: do_backup                        *)

BeginBackup ==
    /\ bpc = "idle"
    /\ sessionsLeft > 0
    /\ sessionsLeft' = sessionsLeft - 1
    /\ errorHappened' = FALSE
    /\ rc' = "zero"
    /\ bpc' = "starting"
    /\ UNCHANGED <<lockVars, fileVars, appVars, session, inSession, copyEnabled,
                   buffer, copied, sourceAtStop>>

(* Under the write lock: create the session, create the destination of the *)
(* open file (prepare_directories_for_backup) and enable the copy.         *)
OpenSession ==
    /\ bpc = "starting"
    /\ inSession = {}
    /\ session' = TRUE
    /\ copied' = 0
    /\ backup' = EmptyFile
    /\ \/ /\ copyEnabled' = TRUE
          /\ bpc' = "copying"
          /\ UNCHANGED rc
       \/ /\ BackupIOFails
          /\ copyEnabled' = FALSE
          /\ rc' = "nonzero"
          /\ bpc' = "stopping"
    /\ UNCHANGED <<lockVars, source, appVars, inSession, errorHappened,
                   buffer, sessionsLeft, sourceAtStop>>

(* A call is in flight between its effect on the source and its effect on  *)
(* the backup.  It may be missing from the backup, in the blocks it covers *)
(* and in the holes it makes before them.                                  *)
InFlight(t) == pc[t] \in {"done on source", "in session", "failed"}

Settled(b) ==
    \A t \in AppThreads : InFlight(t) =>
        /\ ~(op[t].at <= b /\ b < op[t].at + op[t].hi - op[t].lo)
        /\ ~(b < op[t].at /\ source[b] = Zero /\ backup[b] = Eof)

Unsettled == <<"unsettled", 0>>

(* Mutant: the session is deleted without the write lock. *)
CloseSession_WithoutLock ==
    /\ bpc = "stopping"
    /\ session' = FALSE
    /\ sourceAtStop' = [b \in Blocks |-> IF Settled(b) THEN source[b]
                                         ELSE Unsettled]
    /\ bpc' = "reporting"
    /\ UNCHANGED <<lockVars, fileVars, appVars, inSession, copyEnabled,
                   errorHappened, buffer, copied, rc, sessionsLeft>>

(* before_stop_capt_call has returned: under the write lock, delete the    *)
(* session and the destination file object.                                *)
CloseSession ==
    /\ bpc = "stopping"
    /\ inSession = {}
    /\ session' = FALSE
    /\ sourceAtStop' = [b \in Blocks |-> IF Settled(b) THEN source[b]
                                         ELSE Unsettled]
    /\ bpc' = "reporting"
    /\ UNCHANGED <<lockVars, fileVars, appVars, inSession, copyEnabled,
                   errorHappened, buffer, copied, rc, sessionsLeft>>

(* Mutant: the error of an application thread is forgotten. *)
EndBackup_ForgetsError ==
    /\ bpc = "reporting"
    /\ bpc' = "idle"
    /\ UNCHANGED <<lockVars, fileVars, appVars, mgrVars, buffer, copied, rc,
                   sessionsLeft, sourceAtStop>>

(* do_backup returns, nonzero if an application thread had an error. *)
EndBackup ==
    /\ bpc = "reporting"
    /\ rc' = IF errorHappened THEN "nonzero" ELSE rc
    /\ bpc' = "idle"
    /\ UNCHANGED <<lockVars, fileVars, appVars, mgrVars, buffer, copied,
                   sessionsLeft, sourceAtStop>>

----------------------------------------------------------------------------
(*                The backup thread: copier::copy_file_data                *)

Quit(r) == rc' = r /\ bpc' = "stopping"

(* The top of the loop: stop, with r still 0, if the copy was disabled. *)
CopyNext ==
    /\ bpc = "copying"
    /\ IF copyEnabled
       THEN /\ Lock!LockRange(Copier, [lo |-> copied, hi |-> copied + Chunk])
            /\ bpc' = "locking"
            /\ UNCHANGED rc
       ELSE Quit(rc) /\ UNCHANGED lockVars
    /\ UNCHANGED <<fileVars, appVars, mgrVars, buffer, copied, sessionsLeft,
                   sourceAtStop>>

(* A poll outside the range lock (do_copy, possibly_sleep_or_abort) asks   *)
(* to abort.                                                               *)
PollAbortsBetweenChunks ==
    /\ PollAborts
    /\ bpc = "copying"
    /\ Quit("nonzero")
    /\ UNCHANGED <<lockVars, fileVars, appVars, mgrVars, buffer, copied,
                   sessionsLeft, sourceAtStop>>

CopierGetsRangeLock ==
    /\ bpc = "locking"
    /\ Lock!LockGranted(Copier)
    /\ bpc' = "reading"
    /\ UNCHANGED <<fileVars, appVars, mgrVars, buffer, copied, rc, sessionsLeft,
                   sourceAtStop>>

(* read() at the offset of the copier's own fd; at end of file, finish. *)
ReadChunk ==
    /\ bpc = "reading"
    /\ LET n == Size(source) - copied
           len == IF n <= 0 THEN 0 ELSE IF n < Chunk THEN n ELSE Chunk
       IN  /\ buffer' = [i \in 1..len |-> source[copied + i - 1]]
           /\ bpc' = IF len = 0 THEN "unlocking at end" ELSE "writing"
    /\ UNCHANGED <<lockVars, fileVars, appVars, mgrVars, copied, rc, sessionsLeft,
                   sourceAtStop>>

(* Mutant: what the write() has left over of the buffer is forgotten. *)
WriteChunk_IgnoresShortWrites ==
    /\ bpc = "writing"
    /\ \E n \in 1..Len(buffer) :
          backup' = WriteBlocks(backup, copied, SubSeq(buffer, 1, n))
    /\ copied' = copied + Len(buffer)
    /\ buffer' = <<>>
    /\ bpc' = "unlocking"
    /\ UNCHANGED <<lockVars, source, appVars, mgrVars, rc, sessionsLeft,
                   sourceAtStop>>

(* A write() to the destination fd, of any part of what is in the buffer. *)
WriteChunk ==
    /\ bpc = "writing"
    /\ \E n \in 1..Len(buffer) :
          /\ backup' = WriteBlocks(backup, copied, SubSeq(buffer, 1, n))
          /\ copied' = copied + n
          /\ buffer' = SubSeq(buffer, n + 1, Len(buffer))
          /\ bpc' = IF n = Len(buffer) THEN "unlocking" ELSE "writing"
    /\ UNCHANGED <<lockVars, source, appVars, mgrVars, rc, sessionsLeft,
                   sourceAtStop>>

(* The poll before the write asks to abort, or the read or the write       *)
(* fails: reported directly, and r is the error.                           *)
ChunkFails ==
    /\ \/ PollAborts /\ bpc = "writing"
       \/ BackupIOFails /\ bpc \in {"reading", "writing"}
    /\ rc' = "nonzero"
    /\ bpc' = "unlocking at end"
    /\ buffer' = <<>>
    /\ UNCHANGED <<lockVars, fileVars, appVars, mgrVars, copied, sessionsLeft,
                   sourceAtStop>>

CopierUnlocks ==
    /\ bpc \in {"unlocking", "unlocking at end"}
    /\ Lock!UnlockRange(Copier)
    /\ bpc' = IF bpc = "unlocking" THEN "copying" ELSE "stopping"
    /\ UNCHANGED <<fileVars, appVars, mgrVars, buffer, copied, rc, sessionsLeft,
                   sourceAtStop>>

----------------------------------------------------------------------------

(* Any thread inside lock_range: blocked, or woken for nothing. *)
LockWaits(t) ==
    /\ Lock!LockBlocks(t) \/ Lock!SpuriousWakeup(t)
    /\ UNCHANGED <<fileVars, appVars, mgrVars, copyVars>>

Init ==
    /\ Lock!Init
    /\ source \in {WriteBlocks(EmptyFile, 0, [i \in 1..n |-> Old]) : n \in 0..MaxBlocks}
    /\ backup = EmptyFile
    /\ offset = 0 /\ position = 0
    /\ descLock = NoOne
    /\ pc = [t \in AppThreads |-> "idle"]
    /\ op = [t \in AppThreads |-> NoCall]
    /\ opsLeft = MaxOps
    /\ session = FALSE
    /\ inSession = {}
    /\ copyEnabled = FALSE
    /\ errorHappened = FALSE
    /\ bpc = "idle"
    /\ buffer = <<>>
    /\ copied = 0
    /\ rc = "nonzero"
    /\ sessionsLeft = MaxSessions
    /\ sourceAtStop = EmptyFile

AppNext(t) ==
    \/ BeginWrite(t)
    \/ BeginPwrite(t)
    \/ BeginFtruncate(t)
    \/ Read(t)
    \/ Seek(t)
    \/ GetRangeLock(t)
    \/ RealCall(t)
    \/ RealCallFails(t)
    \/ EnterSession(t)
    \/ Mirror(t)
    \/ MirrorFails(t)
    \/ SetError(t)
    \/ EndCall(t)
    \/ LockWaits(t)

CopierStep ==
    \/ OpenSession
    \/ CloseSession
    \/ EndBackup
    \/ CopyNext
    \/ PollAbortsBetweenChunks
    \/ CopierGetsRangeLock
    \/ ReadChunk
    \/ WriteChunk
    \/ ChunkFails
    \/ CopierUnlocks

CopierNext == BeginBackup \/ CopierStep \/ LockWaits(Copier)

Next == CopierNext \/ \E t \in AppThreads : AppNext(t)

Spec == Init /\ [][Next]_vars

(* A thread inside one of these functions keeps running while it can, and  *)
(* so does the backup thread; no lock is assumed fair.  Nothing obliges    *)
(* the application to make calls or to take backups.                       *)
Fairness ==
    /\ WF_vars(CopierStep)
    /\ \A t \in AppThreads :
          /\ WF_vars(GetRangeLock(t))
          /\ WF_vars(RealCall(t) \/ RealCallFails(t))
          /\ WF_vars(EnterSession(t))
          /\ WF_vars(Mirror(t) \/ MirrorFails(t))
          /\ WF_vars(SetError(t))
          /\ WF_vars(EndCall(t))

FairSpec == Spec /\ Fairness

----------------------------------------------------------------------------
(*                              Properties                                 *)

Pcs == {"idle", "locking", "locked", "done on source", "in session",
        "failed", "unlocking"}

Bpcs == {"idle", "starting", "copying", "locking", "reading", "writing",
         "unlocking", "unlocking at end", "stopping", "reporting"}

TypeOK ==
    /\ Lock!TypeOK
    /\ source \in [Blocks -> Contents]
    /\ backup \in [Blocks -> Contents]
    /\ position \in 0..MaxBlocks
    /\ offset \in Int /\ (~SeekFails /\ ~Appends => offset = position)
    /\ descLock \in AppThreads \cup {NoOne}
    /\ pc \in [AppThreads -> Pcs]
    /\ op \in [AppThreads -> Calls]
    /\ opsLeft \in 0..MaxOps
    /\ session \in BOOLEAN
    /\ inSession \in SUBSET AppThreads
    /\ copyEnabled \in BOOLEAN
    /\ errorHappened \in BOOLEAN
    /\ bpc \in Bpcs
    /\ buffer \in Seq(Contents) /\ Len(buffer) <= Chunk
    /\ copied \in 0..MaxBlocks
    /\ rc \in {"zero", "nonzero"}
    /\ sessionsLeft \in 0..MaxSessions
    /\ sourceAtStop \in [Blocks -> Contents \cup {Unsettled}]

(* What has been copied stays equal to the source while the session lasts  *)
(* and no error has disabled the copy: every write that overtook the       *)
(* copier reaches the backup too, and in the same order (manager.cc:461).  *)
CopiedBlocksAgree ==
    session /\ copyEnabled =>
        \A b \in 0..copied - 1 : Settled(b) => backup[b] = source[b]

(* If tokubackup_create_backup returns 0 (backup.h:97) then the backup is  *)
(* the source as it was when the session was deleted, up to calls that     *)
(* were in flight then; an error on any thread makes it return nonzero.    *)
BackupConsistent ==
    bpc = "idle" /\ rc = "zero" =>
        \A b \in Blocks : sourceAtStop[b] \in {backup[b], Unsettled}

(* Once the session is deleted nobody touches the backup: a thread that    *)
(* was captured when the session ended has finished with it.               *)
BackupChangesOnlyInSession == [][backup' # backup => session \/ session']_vars

(* Where do_backup is, as far as its caller is concerned: once the session *)
(* is deleted, nothing changes what it is going to return.                 *)
PhaseOfBackup ==
    IF bpc = "idle" THEN "idle"
    ELSE IF bpc # "reporting" THEN "taking"
    ELSE IF rc = "zero" /\ ~errorHappened THEN "taken" ELSE "failed"

NoBackup == <<"no backup">>

UnderCalls ==
    {b \in Blocks : \E t \in AppThreads :
       InFlight(t) /\ op[t].at <= b /\ b < op[t].at + op[t].hi - op[t].lo}

HolesBelowCalls ==
    {b \in Blocks : source[b] = Zero
                      /\ \E t \in AppThreads : InFlight(t) /\ b < op[t].at}

Promise == INSTANCE ConsistentBackup WITH
    file <- source,
    unsettled <- UnderCalls,
    holes <- HolesBelowCalls,
    phase <- PhaseOfBackup,
    result <- IF bpc = "idle" THEN rc ELSE "none",
    image <- IF PhaseOfBackup = "taken" \/ (bpc = "idle" /\ rc = "zero")
             THEN backup ELSE NoBackup

(* Copying a buffer at a time and capturing calls comes to the same as     *)
(* taking the backup in one step, at the moment when the session is        *)
(* deleted: the locks, the order of the two halves of a call and of a      *)
(* chunk, and the reporting of errors leave no other outcome (backup.h).   *)
ImplementsConsistentBackup == Promise!Spec

(* Every call the application makes returns: the range lock, the           *)
(* description mutex and the session lock never block each other for good. *)
CallsReturn == \A t \in AppThreads : pc[t] # "idle" ~> pc[t] = "idle"

(* Every backup returns, whether it succeeds, fails or is aborted. *)
BackupReturns == bpc # "idle" ~> bpc = "idle"

====
