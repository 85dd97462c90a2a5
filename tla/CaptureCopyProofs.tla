---- MODULE CaptureCopyProofs ----
(***************************************************************************)
(* Proofs about CaptureCopy: what the backup has in common with the source *)
(* while it is copied and when it is finished, for any number of threads,  *)
(* calls and backups, any file and any buffer.                             *)
(*                                                                         *)
(* The range lock is not looked into: its own inductive invariant, proved  *)
(* in RangeLockProofs for any caller, is a conjunct of the one here.       *)
(***************************************************************************)
EXTENDS CaptureCopy, TLAPS

Lockers == AppThreads \cup {Copier}

LockProofs == INSTANCE RangeLockProofs WITH Threads <- Lockers

----------------------------------------------------------------------------
(*                        The inductive invariant                          *)

(* Who is between the two halves of a captured call is in the session, the *)
(* session lasts as long as somebody is in it, and as the backup thread    *)
(* needs it; a failure has turned the copy off.                            *)
SessionInv ==
    /\ pc \in [AppThreads -> Pcs] /\ inSession \subseteq AppThreads
    /\ session <=> bpc \notin {"idle", "starting", "reporting"}
    /\ \A t \in AppThreads :
         /\ t \in inSession <=> pc[t] \in {"in session", "failed"}
         /\ t \in inSession => session
         /\ pc[t] = "failed" => copyEnabled = FALSE

(* Eof is a suffix of the file: it has a size. *)
HasSize(file, n) == \A b \in Blocks : file[b] = Eof <=> b >= n
IsFile(file) == \E n \in 0..MaxBlocks : HasSize(file, n)

(* m_offset is never ahead of the offset it stands for. *)
OffsetInv == offset \in -1..position

(* What a call in progress asks for. *)
CallInv(t) ==
    IF op[t].kind = "ftruncate"
    THEN op[t].lo >= 0 /\ op[t].hi = MaxOffset
    ELSE /\ op[t].value \in Values /\ op[t].hi <= MaxBlocks
         /\ op[t].lo + op[t].mirrored < op[t].hi
         /\ op[t].kind = "pwrite" => op[t].lo >= 0

(* Each thread that is past lock_range holds the range it asked for: a     *)
(* call its own, the copier that of the buffer it has in hand.             *)
CallRangeInv(t) ==
    pc[t] # "idle" =>
      /\ CallInv(t)
      /\ request[t] = [lo |-> IF op[t].lo < 0 THEN MaxOffset ELSE op[t].lo,
                       hi |-> op[t].hi]
      /\ pc[t] # "locking" => phase[t] = "holding"

CopierRangeInv ==
    /\ bpc \in {"locking", "reading"} =>
         request[Copier] = [lo |-> copied, hi |-> copied + Chunk]
    /\ bpc \in {"reading", "writing", "unlocking", "unlocking at end"} =>
         phase[Copier] = "holding"
    /\ bpc = "writing" =>
         /\ Len(buffer) > 0 /\ copied + Len(buffer) <= MaxBlocks
         /\ request[Copier].lo <= copied
         /\ copied + Len(buffer) <= request[Copier].hi

RangesInv == (\A t \in AppThreads : CallRangeInv(t)) /\ CopierRangeInv

(* All of it keeps its type. *)
TypeInv == TypeOK /\ LockProofs!IInv /\ IsFile(source) /\ OffsetInv /\ RangesInv

(* The offset that write locked is the one at which the real call writes:  *)
(* nobody moves it while the description is locked.                        *)
DescriptionInv ==
    \A t \in AppThreads :
      /\ pc[t] \in {"locking", "locked"} /\ op[t].kind = "write" =>
           descLock = t /\ op[t].lo = offset
      /\ InFlight(t) => op[t].at = op[t].lo
      /\ op[t].mirrored = 0

(* What a call makes of a block it covers. *)
Written(call, b) == IF call.kind = "ftruncate" THEN Eof
                    ELSE <<call.value, b - call.lo + 1>>

(* A call that is in flight finds the source as it has left it: its range  *)
(* is locked, and nobody truncates the file below it.                      *)
SourceInv ==
    \A t \in AppThreads : InFlight(t) => \A b \in Blocks :
      /\ b < op[t].lo => source[b] # Eof
      /\ op[t].lo <= b /\ b < op[t].hi => source[b] = Written(op[t], b)

(* The buffer that the copier has in hand is what the source has. *)
BufferInv ==
    bpc = "writing" =>
      \A i \in 1..Len(buffer) :
        buffer[i] = source[copied + i - 1] /\ buffer[i] # Eof

(* What a call makes of block b of a file. *)
Applied(call, file, b) ==
    IF call.lo <= b /\ b < call.hi THEN Written(call, b)
    ELSE IF b < call.lo /\ file[b] = Eof THEN Zero
    ELSE file[b]

(* The copier has met the end of the file. *)
CopyIsComplete == bpc \in {"unlocking at end", "stopping"} /\ rc = "zero"

(* What has been copied agrees, and the backup is never longer than the    *)
(* source; so that it agrees everywhere once the end is met.               *)
AgreementInv ==
    session /\ copyEnabled =>
      \A b \in Blocks : Settled(b) =>
        /\ b < copied \/ CopyIsComplete => backup[b] = source[b]
        /\ source[b] = Eof => backup[b] = Eof

(* An error that has ended the copy will be reported, and a backup without *)
(* errors is what the source was.                                          *)
ResultInv ==
    /\ session /\ ~copyEnabled /\ rc = "zero" =>
         errorHappened \/ \E t \in AppThreads : pc[t] = "failed"
    /\ bpc \in {"idle", "reporting"} /\ rc = "zero" =>
         \/ bpc = "reporting" /\ errorHappened
         \/ \A b \in Blocks : sourceAtStop[b] \in {backup[b], Unsettled}

(* What the copy is faithful for: a write writes all it is asked to or     *)
(* fails, where the description says, on both files.                       *)
WholeWrites == ~ShortWrites /\ ~ShortMirrors /\ ~SeekFails /\ ~Appends

ConsistencyInv ==
    /\ DescriptionInv /\ SourceInv /\ BufferInv /\ AgreementInv /\ ResultInv

----------------------------------------------------------------------------
(*                        Constants, lock and files                        *)

LEMMA BoundsAreNumbers ==
    /\ MaxBlocks \in Nat /\ MaxBlocks > 0 /\ Chunk \in Nat /\ Chunk > 0
    /\ MaxOffset \in Nat /\ MaxOffset = MaxBlocks + Chunk
    /\ Blocks = 0..MaxBlocks - 1
    /\ Copier \notin AppThreads
    /\ MaxOps \in Nat /\ MaxSessions \in Nat
  BY CaptureCopyAssumption DEF MaxOffset, Blocks

LEMMA OffsetAssumptionHolds == LockProofs!OffsetAssumption
  BY BoundsAreNumbers DEF LockProofs!OffsetAssumption

LockStep ==
    \/ \E t \in Lockers :
         \/ \E r \in LockProofs!Ranges : LockProofs!LockRange(t, r)
         \/ LockProofs!LockGranted(t) \/ LockProofs!LockBlocks(t)
         \/ LockProofs!SpuriousWakeup(t) \/ LockProofs!UnlockRange(t)
    \/ UNCHANGED lockVars

(* What holds of the lock continues to hold, whoever uses it.              *)
LEMMA LockStepKeepsInvariant ==
    LockProofs!IInv /\ LockStep => LockProofs!IInv'
<1>1. LockStep => [LockProofs!Next]_LockProofs!vars
  BY DEF LockStep, LockProofs!Next, LockProofs!vars, lockVars
<1> QED
  BY <1>1, LockProofs!StepIInv, OffsetAssumptionHolds

(* Two instances of one module have the same actions. *)
LEMMA SameLock ==
    ASSUME NEW t \in Lockers
    PROVE  /\ \A r : Lock!LockRange(t, r) <=> LockProofs!LockRange(t, r)
           /\ Lock!LockGranted(t) <=> LockProofs!LockGranted(t)
           /\ Lock!LockBlocks(t) <=> LockProofs!LockBlocks(t)
           /\ Lock!SpuriousWakeup(t) <=> LockProofs!SpuriousWakeup(t)
           /\ Lock!UnlockRange(t) <=> LockProofs!UnlockRange(t)
           /\ Lock!Init <=> LockProofs!Init
           /\ Lock!TypeOK <=> LockProofs!TypeOK
<1> USE DEF Lockers, Lock!LockRangeWouldBlock, LockProofs!LockRangeWouldBlock,
            Lock!RangesIntersect, LockProofs!RangesIntersect
<1>1. \A r : Lock!LockRange(t, r) <=> LockProofs!LockRange(t, r)
  BY DEF Lock!LockRange, LockProofs!LockRange
<1>2. Lock!LockGranted(t) <=> LockProofs!LockGranted(t)
  BY DEF Lock!LockGranted, LockProofs!LockGranted
<1>3. Lock!LockBlocks(t) <=> LockProofs!LockBlocks(t)
  BY DEF Lock!LockBlocks, LockProofs!LockBlocks
<1>4. Lock!SpuriousWakeup(t) <=> LockProofs!SpuriousWakeup(t)
  BY DEF Lock!SpuriousWakeup, LockProofs!SpuriousWakeup
<1>5. Lock!UnlockRange(t) <=> LockProofs!UnlockRange(t)
  <2>1. \A r : Lock!FirstMatch(r) = LockProofs!FirstMatch(r)
    BY DEF Lock!FirstMatch, LockProofs!FirstMatch
  <2> QED
    BY <2>1 DEF Lock!UnlockRange, LockProofs!UnlockRange, Lock!Locked,
         LockProofs!Locked, Lock!Broadcast, LockProofs!Broadcast,
         Lock!RemoveSwap, LockProofs!RemoveSwap, Lock!NoRequest,
         LockProofs!NoRequest
<1>6. Lock!Init <=> LockProofs!Init
  BY DEF Lock!Init, LockProofs!Init, Lock!NoRequest, LockProofs!NoRequest
<1>7. Lock!TypeOK <=> LockProofs!TypeOK
  BY DEF Lock!TypeOK, LockProofs!TypeOK, Lock!Ranges, LockProofs!Ranges,
       Lock!Phases, LockProofs!Phases
<1> QED
  BY <1>1, <1>2, <1>3, <1>4, <1>5, <1>6, <1>7

(* Whoever holds a range has its bytes for itself.                         *)
LEMMA HoldersAreApart ==
    ASSUME LockProofs!IInv, NEW t \in Lockers, NEW u \in Lockers, t # u,
           phase[t] = "holding", phase[u] = "holding", NEW b \in 0..MaxOffset,
           request[t].lo <= b, b < request[t].hi
    PROVE  ~(request[u].lo <= b /\ b < request[u].hi)
<1>1. LockProofs!MutualExclusion
  BY DEF LockProofs!IInv
<1>2. t \in LockProofs!Holders /\ u \in LockProofs!Holders
  BY DEF LockProofs!Holders
<1>3. LockProofs!Bytes(request[t]) \cap LockProofs!Bytes(request[u]) = {}
  BY <1>1, <1>2 DEF LockProofs!MutualExclusion
<1>4. b \in LockProofs!Bytes(request[t])
  BY DEF LockProofs!Bytes
<1> QED
  BY <1>3, <1>4 DEF LockProofs!Bytes

(* Size finds the size of a file that has one.                             *)
LEMMA SizeIsTheSize ==
    ASSUME NEW file, IsFile(file)
    PROVE  Size(file) \in 0..MaxBlocks /\ HasSize(file, Size(file))
<1>1. PICK n \in 0..MaxBlocks : HasSize(file, n)
  BY DEF IsFile
<1> QED
  BY <1>1 DEF HasSize, Size

(* Writing and truncating leave no gap behind.                             *)
LEMMA WriteBlocksType ==
    ASSUME NEW file \in [Blocks -> Contents], NEW lo \in 0..MaxBlocks,
           NEW data \in Seq(Contents)
    PROVE  WriteBlocks(file, lo, data) \in [Blocks -> Contents]
<1> USE BoundsAreNumbers
<1>1. Zero \in Contents
  BY DEF Zero, Contents
<1>2. \A b \in Blocks : lo <= b /\ b < lo + Len(data) => data[b - lo + 1] \in Contents
  OBVIOUS
<1>3. \A b \in Blocks : WriteBlocks(file, lo, data)[b] \in Contents
  BY <1>1, <1>2 DEF WriteBlocks
<1> QED
  BY <1>3 DEF WriteBlocks

LEMMA WriteBlocksKeepsFile ==
    ASSUME NEW file, IsFile(file), NEW lo \in 0..MaxBlocks,
           NEW data \in Seq(Contents \ {Eof}), lo + Len(data) <= MaxBlocks
    PROVE  IsFile(WriteBlocks(file, lo, data))
<1> USE BoundsAreNumbers
<1> DEFINE new == WriteBlocks(file, lo, data)
<1>1. PICK n \in 0..MaxBlocks : HasSize(file, n)
  BY DEF IsFile
<1>2. \A b \in Blocks : lo <= b /\ b < lo + Len(data) => data[b - lo + 1] # Eof
  OBVIOUS
<1>3. CASE data = <<>>
  <2>1. Len(data) = 0
    BY <1>3
  <2>2. \A b \in Blocks : new[b] = file[b]
    BY <1>3, <2>1 DEF WriteBlocks
  <2>3. HasSize(new, n)
    BY <1>1, <2>2 DEF HasSize
  <2> QED
    BY <2>3 DEF IsFile
<1>4. CASE data # <<>>
  <2> DEFINE m == IF n < lo + Len(data) THEN lo + Len(data) ELSE n
  <2>1. Len(data) > 0 /\ m \in 0..MaxBlocks /\ Zero # Eof
    BY <1>1, <1>4 DEF Zero, Eof
  <2>2. HasSize(new, m)
    BY <1>1, <1>2, <1>4, <2>1 DEF WriteBlocks, HasSize
  <2> QED
    BY <2>1, <2>2 DEF IsFile
<1> QED
  BY <1>3, <1>4

LEMMA TruncateKeepsFile ==
    ASSUME NEW file \in [Blocks -> Contents], NEW len \in 0..MaxBlocks
    PROVE  Truncate(file, len) \in [Blocks -> Contents] /\ IsFile(Truncate(file, len))
<1> USE BoundsAreNumbers
<1>1. Zero \in Contents /\ Eof \in Contents /\ Zero # Eof
  BY DEF Zero, Eof, Contents
<1>2. HasSize(Truncate(file, len), len)
  BY <1>1 DEF HasSize, Truncate
<1> QED
  BY <1>1, <1>2 DEF IsFile, Truncate

----------------------------------------------------------------------------
(*                             The session                                 *)

(* What a step of an application thread is, and one of the backup thread.  *)
LEMMA StepCases ==
    ASSUME [Next]_vars
    PROVE  \/ UNCHANGED vars
           \/ \E t \in AppThreads : AppNext(t)
           \/ CopierNext
  BY DEF Next

LEMMA AppStepKeepsSession ==
    ASSUME SessionInv, NEW t \in AppThreads, AppNext(t)
    PROVE  SessionInv'
<1> USE DEF SessionInv, Pcs, fileVars, appVars, mgrVars, copyVars
<1>1. CASE BeginWrite(t)
  BY <1>1 DEF Begin, BeginWrite
<1>2. CASE BeginPwrite(t)
  BY <1>2 DEF Begin, BeginPwrite
<1>3. CASE BeginFtruncate(t)
  BY <1>3 DEF Begin, BeginFtruncate
<1>4. CASE Read(t)
  BY <1>4 DEF MoveOffset, Read
<1>5. CASE Seek(t)
  BY <1>5 DEF MoveOffset, Seek
<1>6. CASE GetRangeLock(t)
  BY <1>6 DEF GetRangeLock
<1>7. CASE RealCall(t)
  BY <1>7 DEF RealCall
<1>8. CASE RealCallFails(t)
  BY <1>8 DEF RealCallFails
<1>9. CASE EnterSession(t)
  BY <1>9 DEF EnterSession
<1>10. CASE Mirror(t)
  BY <1>10 DEF Mirror
<1>11. CASE MirrorFails(t)
  BY <1>11 DEF MirrorFails
<1>12. CASE SetError(t)
  BY <1>12 DEF SetError
<1>13. CASE EndCall(t)
  BY <1>13 DEF EndCall
<1>14. CASE LockWaits(t)
  BY <1>14 DEF LockWaits
<1> QED
  BY <1>1, <1>2, <1>3, <1>4, <1>5, <1>6, <1>7,
     <1>8, <1>9, <1>10, <1>11, <1>12, <1>13, <1>14 DEF AppNext

LEMMA CopierStepKeepsSession ==
    ASSUME SessionInv, CopierNext
    PROVE  SessionInv'
<1> USE DEF SessionInv, Pcs, fileVars, appVars, mgrVars, copyVars
<1>1. CASE BeginBackup
  BY <1>1 DEF BeginBackup
<1>2. CASE OpenSession
  BY <1>2 DEF OpenSession
<1>3. CASE CloseSession
  BY <1>3 DEF CloseSession
<1>4. CASE EndBackup
  BY <1>4 DEF EndBackup
<1>5. CASE CopyNext
  BY <1>5 DEF Quit, CopyNext
<1>6. CASE PollAbortsBetweenChunks
  BY <1>6 DEF Quit, PollAbortsBetweenChunks
<1>7. CASE CopierGetsRangeLock
  BY <1>7 DEF CopierGetsRangeLock
<1>8. CASE ReadChunk
  BY <1>8 DEF ReadChunk
<1>9. CASE WriteChunk
  BY <1>9 DEF WriteChunk
<1>10. CASE ChunkFails
  BY <1>10 DEF ChunkFails
<1>11. CASE CopierUnlocks
  BY <1>11 DEF CopierUnlocks
<1>12. CASE LockWaits(Copier)
  BY <1>12 DEF LockWaits
<1> QED
  BY <1>1, <1>2, <1>3, <1>4, <1>5, <1>6,
     <1>7, <1>8, <1>9, <1>10, <1>11, <1>12 DEF CopierNext, CopierStep

LEMMA SessionInvHolds == Spec => []SessionInv
<1>1. Init => SessionInv
  BY DEF Init, SessionInv, Pcs
<1>2. ASSUME SessionInv, UNCHANGED vars
      PROVE  SessionInv'
  <2>1. /\ pc' = pc /\ bpc' = bpc /\ inSession' = inSession
        /\ session' = session /\ copyEnabled' = copyEnabled
    BY <1>2 DEF vars, appVars, mgrVars, copyVars
  <2> QED
    BY <1>2, <2>1, Zenon DEF SessionInv
<1>3. SessionInv /\ [Next]_vars => SessionInv'
  BY <1>2, StepCases, AppStepKeepsSession, CopierStepKeepsSession
<1> QED
  BY <1>1, <1>3, PTL DEF Spec

(* Whatever fails, and however much of a call is done: nobody touches a    *)
(* backup whose session is over, so a thread that the end of the session   *)
(* overtakes has either finished with the backup or not begun.             *)
THEOREM BackupChangesOnlyInSessionHolds == Spec => BackupChangesOnlyInSession
<1>1. ASSUME SessionInv, NEW t \in AppThreads, AppNext(t), backup' # backup
      PROVE  session
  <2>1. Mirror(t)
    BY <1>1 DEF AppNext, BeginWrite, BeginPwrite, BeginFtruncate, Read, Seek,
         MoveOffset, GetRangeLock, RealCall, RealCallFails, EnterSession,
         MirrorFails, SetError, EndCall, LockWaits, fileVars
  <2> QED
    BY <1>1, <2>1 DEF Mirror, SessionInv
<1>2. ASSUME SessionInv, CopierNext, backup' # backup
      PROVE  session \/ session'
  <2>1. OpenSession \/ WriteChunk
    BY <1>2 DEF CopierNext, CopierStep, BeginBackup, CloseSession, EndBackup,
         CopyNext, PollAbortsBetweenChunks, CopierGetsRangeLock, ReadChunk,
         ChunkFails, CopierUnlocks, LockWaits, fileVars
  <2> QED
    BY <1>2, <2>1 DEF OpenSession, WriteChunk, SessionInv
<1>3. UNCHANGED vars => backup' = backup
  BY DEF vars, fileVars
<1>4. SessionInv /\ [Next]_vars =>
        [backup' # backup => session \/ session']_vars
  BY <1>1, <1>2, <1>3, StepCases
<1> QED
  BY <1>4, SessionInvHolds, PTL DEF Spec, BackupChangesOnlyInSession

----------------------------------------------------------------------------
(*                                Types                                    *)

(* What lock_range and unlock_range do to the threads.                     *)
LEMMA LockEffects ==
    ASSUME LockProofs!TypeOK, NEW t \in Lockers
    PROVE  /\ \A r : Lock!LockRange(t, r) =>
                /\ request' = [request EXCEPT ![t] = r]
                /\ phase' = [phase EXCEPT ![t] = "trying"]
           /\ Lock!LockGranted(t) =>
                /\ request' = request
                /\ phase' = [phase EXCEPT ![t] = "holding"]
           /\ Lock!LockBlocks(t) \/ Lock!SpuriousWakeup(t) =>
                /\ request' = request
                /\ \A u \in Lockers : phase[u] = "holding" => phase'[u] = "holding"
           /\ Lock!UnlockRange(t) =>
                /\ request' = [request EXCEPT ![t] = Lock!NoRequest]
                /\ \A u \in Lockers \ {t} :
                     phase[u] = "holding" => phase'[u] = "holding"
<1> USE DEF LockProofs!TypeOK
<1>1. Lock!UnlockRange(t) =>
        /\ request' = [request EXCEPT ![t] = Lock!NoRequest]
        /\ \A u \in Lockers \ {t} :
             phase[u] = "holding" => phase'[u] = "holding"
  BY DEF Lock!UnlockRange, Lock!Broadcast, Lockers
<1>2. Lock!LockBlocks(t) \/ Lock!SpuriousWakeup(t) =>
        /\ request' = request
        /\ \A u \in Lockers : phase[u] = "holding" => phase'[u] = "holding"
  BY DEF Lock!LockBlocks, Lock!SpuriousWakeup
<1> QED
  BY <1>1, <1>2 DEF Lock!LockRange, Lock!LockGranted

LEMMA LockTypes == LockProofs!IInv => LockProofs!TypeOK /\ Lock!TypeOK
  BY DEF LockProofs!IInv, LockProofs!TypeOK, Lock!TypeOK, LockProofs!Ranges,
       Lock!Ranges, LockProofs!Phases, Lock!Phases, Lockers

LEMMA LockTypesPrimed == LockProofs!IInv' => Lock!TypeOK'
  BY LockTypes, PTL

(* Every step uses the lock as RangeLock says, with a range of numbers     *)
(* that it knows.                                                          *)
LEMMA AppStepIsLockStep ==
    ASSUME TypeInv, NEW t \in AppThreads, AppNext(t)
    PROVE  LockStep
<1> USE BoundsAreNumbers, SameLock
<1>1. t \in Lockers
  BY DEF Lockers
<1>2. position \in 0..MaxBlocks /\ offset \in -1..position
  BY DEF TypeInv, TypeOK, OffsetInv
<1>3. CASE UNCHANGED lockVars
  BY <1>3 DEF LockStep
<1>4. ASSUME NEW call, Begin(t, call), call.lo \in -1..MaxBlocks,
             call.hi \in 0..MaxOffset
      PROVE  LockStep
  <2> DEFINE r == [lo |-> IF call.lo < 0 THEN MaxOffset ELSE call.lo, hi |-> call.hi]
  <2>1. r \in LockProofs!Ranges
    BY <1>4 DEF LockProofs!Ranges
  <2>2. LockProofs!LockRange(t, r)
    BY <1>1, <1>4 DEF Begin
  <2> QED
    BY <1>1, <2>1, <2>2 DEF LockStep
<1>5. CASE BeginWrite(t)
  <2>1. PICK n \in 1..MaxBlocks - position, v \in Values :
          Begin(t, Call("write", offset, offset + n, v))
    BY <1>5 DEF BeginWrite
  <2> QED
    BY <1>2, <1>4, <2>1 DEF Call
<1>6. CASE BeginPwrite(t)
  <2>1. PICK lo \in Blocks :
          \E hi \in lo + 1..MaxBlocks, v \in Values :
            Begin(t, Call("pwrite", lo, hi, v))
    BY <1>6 DEF BeginPwrite
  <2>2. PICK hi \in lo + 1..MaxBlocks, v \in Values :
          Begin(t, Call("pwrite", lo, hi, v))
    BY <2>1
  <2> QED
    BY <1>4, <2>2 DEF Call
<1>7. CASE BeginFtruncate(t)
  <2>1. PICK length \in 0..MaxBlocks :
          Begin(t, Call("ftruncate", length, MaxOffset, NoValue))
    BY <1>7 DEF BeginFtruncate
  <2> QED
    BY <1>4, <2>1 DEF Call
<1>8. CASE GetRangeLock(t) \/ EndCall(t) \/ LockWaits(t)
  BY <1>1, <1>8 DEF GetRangeLock, EndCall, LockWaits, LockStep
<1> QED
  BY <1>3, <1>5, <1>6, <1>7, <1>8 DEF AppNext, Read, Seek, MoveOffset, RealCall,
     RealCallFails, EnterSession, Mirror, MirrorFails, SetError

LEMMA CopierStepIsLockStep ==
    ASSUME TypeInv, CopierNext
    PROVE  LockStep
<1> USE BoundsAreNumbers, SameLock
<1>1. Copier \in Lockers
  BY DEF Lockers
<1>2. CASE UNCHANGED lockVars
  BY <1>2 DEF LockStep
<1>3. CASE CopyNext
  <2> DEFINE r == [lo |-> copied, hi |-> copied + Chunk]
  <2>1. r \in LockProofs!Ranges
    BY DEF TypeInv, TypeOK, LockProofs!Ranges
  <2> QED
    BY <1>1, <1>2, <1>3, <2>1 DEF CopyNext, LockStep
<1>4. CASE CopierGetsRangeLock \/ CopierUnlocks \/ LockWaits(Copier)
  BY <1>1, <1>4 DEF CopierGetsRangeLock, CopierUnlocks, LockWaits, LockStep
<1> QED
  BY <1>2, <1>3, <1>4 DEF CopierNext, CopierStep, BeginBackup, OpenSession,
     CloseSession, EndBackup, PollAbortsBetweenChunks, ReadChunk, WriteChunk,
     ChunkFails

(* What a write writes has the type of a file's contents, and no Eof.      *)
LEMMA DataIsContents ==
    ASSUME NEW n \in 0..MaxBlocks, NEW value \in Values
    PROVE  /\ Data(n, value) \in Seq(Contents \ {Eof}) /\ Len(Data(n, value)) = n
           /\ Data(n, value) \in Seq(Contents)
           /\ \A i \in 1..n : Data(n, value)[i] = <<value, i>>
<1> USE BoundsAreNumbers
<1>1. \A i \in 1..n : <<value, i>> \in Contents \ {Eof}
  BY DEF Contents, Eof
<1> QED
  BY <1>1 DEF Data

(* TypeOK, by the parts of the state that the actions leave alone.         *)
FileTypes == source \in [Blocks -> Contents] /\ backup \in [Blocks -> Contents]
AppTypes == /\ position \in 0..MaxBlocks
            /\ offset \in Int /\ (~SeekFails /\ ~Appends => offset = position)
            /\ descLock \in AppThreads \cup {NoOne}
            /\ pc \in [AppThreads -> Pcs] /\ op \in [AppThreads -> Calls]
            /\ opsLeft \in 0..MaxOps
MgrTypes == /\ session \in BOOLEAN /\ inSession \in SUBSET AppThreads
            /\ copyEnabled \in BOOLEAN /\ errorHappened \in BOOLEAN
CopyTypes == /\ bpc \in Bpcs /\ buffer \in Seq(Contents) /\ Len(buffer) <= Chunk
             /\ copied \in 0..MaxBlocks /\ rc \in {"zero", "nonzero"}
             /\ sessionsLeft \in 0..MaxSessions
             /\ sourceAtStop \in [Blocks -> Contents \cup {Unsettled}]

LEMMA TypeParts ==
    TypeOK <=> Lock!TypeOK /\ FileTypes /\ AppTypes /\ MgrTypes /\ CopyTypes
  BY DEF TypeOK, FileTypes, AppTypes, MgrTypes, CopyTypes

LEMMA TypePartsPrimed ==
    Lock!TypeOK' /\ FileTypes' /\ AppTypes' /\ MgrTypes' /\ CopyTypes' => TypeOK'
  BY TypeParts, PTL

LEMMA Unchanged ==
    TypeOK => /\ UNCHANGED fileVars => FileTypes'
              /\ UNCHANGED appVars => AppTypes'
              /\ UNCHANGED mgrVars => MgrTypes'
              /\ UNCHANGED copyVars => CopyTypes'
              /\ IsFile(source) /\ source' = source => IsFile(source)'
<1>1. TypeOK /\ UNCHANGED fileVars => FileTypes'
  BY DEF TypeOK, FileTypes, fileVars
<1>2. TypeOK /\ UNCHANGED appVars => AppTypes'
  BY DEF TypeOK, AppTypes, appVars
<1>3. TypeOK /\ UNCHANGED mgrVars => MgrTypes'
  BY DEF TypeOK, MgrTypes, mgrVars
<1>4. TypeOK /\ UNCHANGED copyVars => CopyTypes'
  BY DEF TypeOK, CopyTypes, copyVars
<1>5. IsFile(source) /\ source' = source => IsFile(source)'
  BY DEF IsFile, HasSize
<1> QED
  BY <1>1, <1>2, <1>3, <1>4, <1>5

(* The real call, as far as the files are concerned. *)
LEMMA RealCallKeepsFiles ==
    ASSUME Appends = FALSE, TypeInv, NEW t \in AppThreads, RealCall(t)
    PROVE  FileTypes' /\ IsFile(source)'
<1> USE BoundsAreNumbers DEF TypeInv, TypeOK
<1>1. op[t] \in Calls /\ CallInv(t) /\ backup' \in [Blocks -> Contents]
  BY DEF RealCall, RangesInv, CallRangeInv
<1>2. SUFFICES source' \in [Blocks -> Contents] /\ IsFile(source')
  BY <1>1 DEF FileTypes, IsFile, HasSize
<1>3. CASE op[t].kind = "ftruncate"
  <2>1. source' = Truncate(source, op[t].lo)
    BY <1>3 DEF RealCall
  <2>2. op[t].lo \in 0..MaxBlocks
    BY <1>1, <1>3 DEF CallInv, Calls
  <2>3. source \in [Blocks -> Contents]
    OBVIOUS
  <2> QED
    BY <2>1, <2>2, <2>3, TruncateKeepsFile
<1>4. CASE op[t].kind # "ftruncate"
  <2>1. PICK n \in LengthsOfWrite(op[t]) :
          /\ StartOfWrite(op[t]) + n <= MaxBlocks
          /\ source' = WriteBlocks(source, StartOfWrite(op[t]), Data(n, op[t].value))
    BY <1>4 DEF RealCall
  <2>2. op[t].value \in Values /\ StartOfWrite(op[t]) \in 0..MaxBlocks
    BY <1>1, <1>4 DEF StartOfWrite, CallInv, Calls
  <2>3. n \in 0..MaxBlocks
    BY <1>1, <2>1, <2>2 DEF LengthsOfWrite, Calls
  <2>4. IsFile(source')
    BY <2>1, <2>2, <2>3, DataIsContents, WriteBlocksKeepsFile
  <2> QED
    BY <2>1, <2>2, <2>3, <2>4, DataIsContents, WriteBlocksType
<1> QED
  BY <1>3, <1>4

LEMMA Sums ==
    ASSUME NEW lo \in Int, NEW m \in Int, NEW n \in Int, NEW hi \in Int
    PROVE  /\ lo + (m + n) = lo + m + n /\ hi - lo - m = hi - (lo + m)
           /\ n = hi - (lo + m) => lo + m + n = hi
  OBVIOUS

(* A turn of the destination's pwrite stays within the call. *)
LEMMA MirrorOfWrite ==
    ASSUME TypeInv, NEW t \in AppThreads, Mirror(t), op[t].kind # "ftruncate"
    PROVE  LET lo == op[t].lo + op[t].mirrored
           IN  /\ op[t].lo \in 0..MaxBlocks /\ op[t].hi \in 0..MaxBlocks
               /\ op[t].mirrored \in 0..MaxBlocks /\ op[t].value \in Values
               /\ lo \in 0..MaxBlocks
               /\ \E n \in 1..op[t].hi - lo :
                    /\ n \in 1..MaxBlocks /\ (~ShortMirrors => lo + n = op[t].hi)
                    /\ backup' = WriteBlocks(backup, lo, Data(n, op[t].value))
                    /\ IF lo + n = op[t].hi
                       THEN /\ op' = [op EXCEPT ![t].mirrored = 0]
                            /\ pc' = [pc EXCEPT ![t] = "unlocking"]
                       ELSE /\ op' = [op EXCEPT ![t].mirrored = op[t].mirrored + n]
                            /\ pc' = pc
<1> USE BoundsAreNumbers
<1>1. op[t] \in Calls /\ CallInv(t) /\ op[t].lo >= 0 /\ pc \in [AppThreads -> Pcs]
  BY DEF Mirror, TypeInv, TypeOK, RangesInv, CallRangeInv
<1>2. /\ op[t].lo \in 0..MaxBlocks /\ op[t].hi \in 0..MaxBlocks
      /\ op[t].mirrored \in 0..MaxBlocks /\ op[t].value \in Values
      /\ op[t].lo + op[t].mirrored < op[t].hi
  BY <1>1 DEF CallInv, Calls
<1> DEFINE rest == op[t].hi - op[t].lo - op[t].mirrored
<1>3. PICK n \in LengthsOfMirror(rest) :
        LET done == op[t].mirrored + n
            last == op[t].lo + done = op[t].hi
        IN  /\ backup' = WriteBlocks(backup, op[t].lo + op[t].mirrored,
                                     Data(n, op[t].value))
            /\ op' = [op EXCEPT ![t].mirrored = IF last THEN 0 ELSE done]
            /\ pc' = [pc EXCEPT ![t] = IF last THEN "unlocking" ELSE @]
  BY DEF Mirror
<1>4. n \in 1..rest /\ (~ShortMirrors => n = rest)
  BY SMTT(30), <1>2, <1>3 DEF LengthsOfMirror
<1>5. ASSUME op[t].lo + (op[t].mirrored + n) = op[t].hi
      PROVE  /\ op' = [op EXCEPT ![t].mirrored = 0]
             /\ pc' = [pc EXCEPT ![t] = "unlocking"]
  BY <1>3, <1>5
<1>6. ASSUME op[t].lo + (op[t].mirrored + n) # op[t].hi
      PROVE  /\ op' = [op EXCEPT ![t].mirrored = op[t].mirrored + n]
             /\ pc' = pc
  BY <1>1, <1>3, <1>6
<1>7. /\ op[t].lo + op[t].mirrored \in 0..MaxBlocks /\ n \in 1..MaxBlocks
      /\ rest = op[t].hi - (op[t].lo + op[t].mirrored)
      /\ op[t].lo + (op[t].mirrored + n) = op[t].lo + op[t].mirrored + n
      /\ ~ShortMirrors => op[t].lo + op[t].mirrored + n = op[t].hi
  <2>1. op[t].lo \in Int /\ op[t].hi \in Int /\ op[t].mirrored \in Int /\ n \in Int
    BY <1>2, <1>4
  <2>2. /\ op[t].lo + (op[t].mirrored + n) = op[t].lo + op[t].mirrored + n
        /\ rest = op[t].hi - (op[t].lo + op[t].mirrored)
        /\ ~ShortMirrors => op[t].lo + op[t].mirrored + n = op[t].hi
    BY <1>4, <2>1, Sums
  <2>3. op[t].lo + op[t].mirrored \in 0..MaxBlocks
    BY <1>2
  <2>4. n \in 1..MaxBlocks
    BY <1>2, <1>4
  <2> QED
    BY <2>2, <2>3, <2>4
<1> QED
  BY <1>2, <1>3, <1>4, <1>5, <1>6, <1>7

LEMMA AppStepKeepsFiles ==
    ASSUME Appends = FALSE, TypeInv, NEW t \in AppThreads, AppNext(t)
    PROVE  FileTypes' /\ IsFile(source)'
<1> USE BoundsAreNumbers
<1>1. CASE UNCHANGED fileVars
  BY <1>1, Unchanged DEF TypeInv, fileVars
<1>2. CASE Mirror(t)
  <2>1. op[t] \in Calls /\ CallInv(t) /\ UNCHANGED source
    BY <1>2 DEF Mirror, TypeInv, TypeOK, RangesInv, CallRangeInv
  <2>2. CASE op[t].kind = "ftruncate"
    <3>1. backup' = Truncate(backup, op[t].lo)
      BY <1>2, <2>2 DEF Mirror
    <3>2. op[t].lo \in 0..MaxBlocks
      BY <2>1, <2>2 DEF Calls, CallInv
    <3>3. backup \in [Blocks -> Contents] /\ source' \in [Blocks -> Contents]
      BY <2>1 DEF TypeInv, TypeOK
    <3>4. backup' \in [Blocks -> Contents]
      BY <3>1, <3>2, <3>3, TruncateKeepsFile
    <3> QED
      BY <2>1, <3>3, <3>4, Unchanged DEF TypeInv, FileTypes
  <2>3. CASE op[t].kind # "ftruncate"
    <3>1. PICK lo \in 0..MaxBlocks, n \in 1..MaxBlocks :
            backup' = WriteBlocks(backup, lo, Data(n, op[t].value))
      BY <1>2, <2>3, MirrorOfWrite
    <3>2. Data(n, op[t].value) \in Seq(Contents)
      <4>1. op[t].value \in Values /\ n \in 0..MaxBlocks
        BY <1>2, <2>3, MirrorOfWrite
      <4> QED
        BY <4>1, DataIsContents
    <3>3. backup \in [Blocks -> Contents] /\ source' \in [Blocks -> Contents]
      BY <2>1 DEF TypeInv, TypeOK
    <3>4. backup' \in [Blocks -> Contents]
      BY <3>1, <3>2, <3>3, WriteBlocksType
    <3> QED
      BY <2>1, <3>3, <3>4, Unchanged DEF TypeInv, FileTypes
  <2> QED
    BY <2>2, <2>3
<1> QED
  BY <1>1, <1>2, RealCallKeepsFiles
     DEF AppNext, BeginWrite, BeginPwrite, BeginFtruncate, Read, Seek, MoveOffset,
         GetRangeLock, RealCallFails, EnterSession, MirrorFails, SetError, EndCall,
         LockWaits

(* A step of an application thread leaves the calls and the locks of the   *)
(* others alone, and what the copier keeps to itself.                      *)
LEMMA AppStepIsLocal ==
    ASSUME TypeInv, NEW t \in AppThreads, AppNext(t)
    PROVE  /\ UNCHANGED copyVars
           /\ session' = session
           /\ \A u \in AppThreads \ {t} : pc'[u] = pc[u] /\ op'[u] = op[u]
           /\ \A u \in Lockers \ {t} :
                /\ request'[u] = request[u]
                /\ phase[u] = "holding" => phase'[u] = "holding"
<1>1. t \in Lockers /\ LockProofs!TypeOK /\ pc \in [AppThreads -> Pcs] /\ op \in [AppThreads -> Calls]
  BY LockTypes DEF TypeInv, TypeOK, Lockers
<1>2. request \in [Lockers -> LockProofs!Ranges] /\ phase \in [Lockers -> LockProofs!Phases]
  BY <1>1 DEF LockProofs!TypeOK
<1> DEFINE Kept == \A u \in AppThreads \ {t} : pc'[u] = pc[u] /\ op'[u] = op[u]
<1> DEFINE LocksKept == \A u \in Lockers \ {t} :
                /\ request'[u] = request[u]
                /\ phase[u] = "holding" => phase'[u] = "holding"
<1>3. ASSUME NEW call, Begin(t, call)
      PROVE  Kept /\ LocksKept
  <2>1. Kept
    BY <1>1, <1>3 DEF Begin
  <2>2. PICK r : Lock!LockRange(t, r)
    BY <1>3 DEF Begin
  <2> QED
    BY <1>1, <1>2, <2>1, <2>2, LockEffects
<1>4. CASE BeginWrite(t) \/ BeginPwrite(t) \/ BeginFtruncate(t)
  <2>1. /\ \E call : Begin(t, call)
        /\ UNCHANGED <<mgrVars, copyVars>>
    BY <1>4 DEF BeginWrite, BeginPwrite, BeginFtruncate
  <2> QED
    BY <1>3, <2>1 DEF mgrVars
<1>5. CASE GetRangeLock(t) \/ EndCall(t) \/ LockWaits(t)
  <2>1. Kept /\ UNCHANGED <<mgrVars, copyVars>>
    BY <1>1, <1>5 DEF GetRangeLock, EndCall, LockWaits, appVars
  <2>2. LocksKept
    BY <1>1, <1>2, <1>5, LockEffects DEF GetRangeLock, EndCall, LockWaits
  <2> QED
    BY <2>1, <2>2 DEF mgrVars
<1>6. ASSUME UNCHANGED lockVars
      PROVE  LocksKept
  BY <1>6 DEF lockVars
<1>7. CASE Read(t) \/ Seek(t)
  <2>1. Kept /\ UNCHANGED <<lockVars, mgrVars, copyVars>>
    BY <1>7 DEF Read, Seek, MoveOffset
  <2> QED
    BY <1>6, <2>1 DEF mgrVars
<1>8. CASE RealCall(t)
  <2>1. Kept
    BY <1>1, <1>8 DEF RealCall
  <2>2. UNCHANGED <<lockVars, mgrVars, copyVars>>
    BY <1>8 DEF RealCall
  <2> QED
    BY <1>6, <2>1, <2>2 DEF mgrVars
<1>9. CASE RealCallFails(t) \/ EnterSession(t)
  <2>1. Kept /\ UNCHANGED <<lockVars, session, copyVars>>
    BY <1>1, <1>9 DEF RealCallFails, EnterSession, mgrVars
  <2> QED
    BY <1>6, <2>1
<1>10. CASE Mirror(t)
  <2>1. Kept
    BY <1>1, <1>10 DEF Mirror
  <2>2. UNCHANGED <<lockVars, session, copyVars>>
    BY <1>10 DEF Mirror
  <2> QED
    BY <1>6, <2>1, <2>2
<1>11. CASE MirrorFails(t) \/ SetError(t)
  <2>1. Kept /\ UNCHANGED <<lockVars, session, copyVars>>
    BY <1>1, <1>11 DEF MirrorFails, SetError
  <2> QED
    BY <1>6, <2>1
<1> QED
  BY <1>4, <1>5, <1>7, <1>8, <1>9, <1>10, <1>11 DEF AppNext

(* The calls that an application makes are calls.                          *)
LEMMA CallsBegun ==
    ASSUME TypeInv, NEW t \in AppThreads
    PROVE  /\ BeginWrite(t) =>
                \E call \in Calls :
                  /\ Begin(t, call) /\ call.kind = "write" /\ call.lo = offset
                  /\ call.at = 0 /\ call.mirrored = 0 /\ call.value \in Values
                  /\ call.lo < call.hi /\ call.hi <= MaxBlocks
           /\ BeginPwrite(t) =>
                \E call \in Calls :
                  /\ Begin(t, call) /\ call.kind = "pwrite" /\ call.lo >= 0
                  /\ call.at = 0 /\ call.mirrored = 0 /\ call.value \in Values
                  /\ call.lo < call.hi /\ call.hi <= MaxBlocks
           /\ BeginFtruncate(t) =>
                \E call \in Calls :
                  /\ Begin(t, call) /\ call.kind = "ftruncate" /\ call.lo >= 0
                  /\ call.at = 0 /\ call.mirrored = 0 /\ call.hi = MaxOffset
<1> USE BoundsAreNumbers
<1>1. position \in 0..MaxBlocks /\ offset \in -1..position
  BY DEF TypeInv, TypeOK, OffsetInv
<1>2. ASSUME BeginWrite(t)
      PROVE  \E call \in Calls :
                  /\ Begin(t, call) /\ call.kind = "write" /\ call.lo = offset
                  /\ call.at = 0 /\ call.mirrored = 0 /\ call.value \in Values
                  /\ call.lo < call.hi /\ call.hi <= MaxBlocks
  <2>1. PICK n \in 1..MaxBlocks - position, v \in Values :
          Begin(t, Call("write", offset, offset + n, v))
    BY <1>2 DEF BeginWrite
  <2>2. Call("write", offset, offset + n, v) \in Calls
    BY <1>1 DEF Call, Calls
  <2>3. offset < offset + n /\ offset + n <= MaxBlocks
    BY <1>1
  <2> WITNESS Call("write", offset, offset + n, v) \in Calls
  <2> QED
    BY <2>1, <2>3 DEF Call
<1>3. ASSUME BeginPwrite(t)
      PROVE  \E call \in Calls :
                  /\ Begin(t, call) /\ call.kind = "pwrite" /\ call.lo >= 0
                  /\ call.at = 0 /\ call.mirrored = 0 /\ call.value \in Values
                  /\ call.lo < call.hi /\ call.hi <= MaxBlocks
  <2>1. PICK lo \in Blocks :
          \E hi \in lo + 1..MaxBlocks, v \in Values :
            Begin(t, Call("pwrite", lo, hi, v))
    BY <1>3 DEF BeginPwrite
  <2>2. PICK hi \in lo + 1..MaxBlocks, v \in Values :
          Begin(t, Call("pwrite", lo, hi, v))
    BY <2>1
  <2>3. Call("pwrite", lo, hi, v) \in Calls
    BY DEF Call, Calls
  <2> WITNESS Call("pwrite", lo, hi, v) \in Calls
  <2> QED
    BY <2>2 DEF Call
<1>4. ASSUME BeginFtruncate(t)
      PROVE  \E call \in Calls :
                  /\ Begin(t, call) /\ call.kind = "ftruncate" /\ call.lo >= 0
                  /\ call.at = 0 /\ call.mirrored = 0 /\ call.hi = MaxOffset
  <2>1. PICK length \in 0..MaxBlocks :
          Begin(t, Call("ftruncate", length, MaxOffset, NoValue))
    BY <1>4 DEF BeginFtruncate
  <2>2. Call("ftruncate", length, MaxOffset, NoValue) \in Calls
    BY DEF Call, Calls
  <2> WITNESS Call("ftruncate", length, MaxOffset, NoValue) \in Calls
  <2> QED
    BY <2>1 DEF Call
<1> QED
  BY <1>2, <1>3, <1>4

(* What a call's components are, and that one may be replaced. *)
LEMMA CallFields ==
    ASSUME NEW call \in Calls
    PROVE  /\ call.lo \in -1..MaxBlocks /\ call.hi \in -1..MaxOffset
           /\ call.at \in 0..MaxBlocks /\ call.mirrored \in 0..MaxBlocks
           /\ call.lo \in Int /\ call.hi \in Int /\ call.mirrored \in Int
           /\ call.value \in Values \cup {NoValue}
           /\ \A m \in 0..MaxBlocks :
                /\ [call EXCEPT !.at = m] \in Calls
                /\ [call EXCEPT !.mirrored = m] \in Calls
  BY BoundsAreNumbers DEF Calls

(* The destination's ftruncate. *)
LEMMA MirrorOfTruncate ==
    ASSUME NEW t, Mirror(t), op[t].kind = "ftruncate"
    PROVE  /\ backup' = Truncate(backup, op[t].lo)
           /\ op' = [op EXCEPT ![t].mirrored = 0]
           /\ inSession' = inSession \ {t}
           /\ pc' = [pc EXCEPT ![t] = "unlocking"]
<1>1. \E n \in {0} :
        LET done == op[t].mirrored + n
            last == TRUE
        IN  /\ backup' = Truncate(backup, op[t].lo)
            /\ op' = [op EXCEPT ![t].mirrored = IF last THEN 0 ELSE done]
            /\ inSession' = IF last THEN inSession \ {t} ELSE inSession
            /\ pc' = [pc EXCEPT ![t] = IF last THEN "unlocking" ELSE @]
  BY DEF Mirror
<1> QED
  BY <1>1

(* A real write begins where the call says, or at the offset of the file.  *)
LEMMA RealCallOfWrite ==
    ASSUME Appends = FALSE, TypeInv, NEW t \in AppThreads, RealCall(t),
           op[t].kind # "ftruncate"
    PROVE  \E start, n \in 0..MaxBlocks :
             /\ start = IF op[t].kind = "write" THEN position ELSE op[t].lo
             /\ n <= op[t].hi - op[t].lo /\ (~ShortWrites => n = op[t].hi - op[t].lo)
             /\ start + n \in 0..MaxBlocks
             /\ source' = WriteBlocks(source, start, Data(n, op[t].value))
             /\ op' = [op EXCEPT ![t].at = start]
             /\ IF op[t].kind = "write"
                THEN offset' = offset + n /\ position' = position + n /\ descLock' = NoOne
                ELSE UNCHANGED <<offset, position, descLock>>
<1> USE BoundsAreNumbers
<1>1. op[t] \in Calls /\ CallInv(t) /\ position \in 0..MaxBlocks
  BY DEF RealCall, TypeInv, TypeOK, RangesInv, CallRangeInv
<1> DEFINE from == IF op[t].kind = "write" THEN position ELSE op[t].lo
<1>2. from \in 0..MaxBlocks /\ StartOfWrite(op[t]) = from
  BY <1>1 DEF StartOfWrite, CallInv, Calls
<1>3. PICK n \in LengthsOfWrite(op[t]) :
        /\ from + n <= MaxBlocks
        /\ source' = WriteBlocks(source, from, Data(n, op[t].value))
        /\ op' = [op EXCEPT ![t].at = from]
        /\ offset' = IF MovesOffset(op[t]) THEN offset + n ELSE offset
        /\ IF op[t].kind = "write"
           THEN position' = from + n /\ descLock' = NoOne
           ELSE UNCHANGED <<position, descLock>>
  BY <1>2 DEF RealCall
<1>4. n \in 0..op[t].hi - op[t].lo /\ (~ShortWrites => n = op[t].hi - op[t].lo)
  BY <1>3 DEF LengthsOfWrite
<1>5. n \in 0..MaxBlocks /\ n <= op[t].hi - op[t].lo /\ from + n \in 0..MaxBlocks
  <2>1. op[t].lo \in Int /\ op[t].hi \in Int
    BY <1>1, CallFields
  <2>2. n \in Nat /\ n <= op[t].hi - op[t].lo
    BY <1>4, <2>1
  <2>3. from + n <= MaxBlocks
    BY <1>3
  <2> QED
    BY <1>2, <2>2, <2>3
<1>6. IF op[t].kind = "write"
      THEN offset' = offset + n /\ position' = position + n /\ descLock' = NoOne
      ELSE UNCHANGED <<offset, position, descLock>>
  BY <1>3 DEF MovesOffset
<1> QED
  BY <1>2, <1>3, <1>4, <1>5, <1>6

LEMMA AppStepKeepsAppTypes ==
    ASSUME Appends = FALSE, TypeInv, NEW t \in AppThreads, AppNext(t)
    PROVE  AppTypes' /\ OffsetInv'
<1> USE BoundsAreNumbers
<1>1. AppTypes /\ OffsetInv
  BY TypeParts DEF TypeInv
<1>2. ASSUME NEW call \in Calls, Begin(t, call)
      PROVE  /\ pc' \in [AppThreads -> Pcs] /\ op' \in [AppThreads -> Calls]
             /\ opsLeft' \in 0..MaxOps
  <2>1. pc' = [pc EXCEPT ![t] = "locking"] /\ op' = [op EXCEPT ![t] = call]
    BY <1>2 DEF Begin
  <2>2. opsLeft > 0 /\ opsLeft' = opsLeft - 1
    BY <1>2 DEF Begin
  <2>3. opsLeft' \in 0..MaxOps
    BY <1>1, <2>2 DEF AppTypes
  <2> QED
    BY <1>1, <2>1, <2>3 DEF AppTypes, Pcs
<1>3. CASE BeginWrite(t) \/ BeginPwrite(t) \/ BeginFtruncate(t)
  <2>1. PICK call \in Calls : Begin(t, call)
    BY <1>3, CallsBegun
  <2>2. UNCHANGED <<offset, position>> /\ descLock' \in {descLock, t}
    BY <1>3 DEF BeginWrite, BeginPwrite, BeginFtruncate
  <2> QED
    BY <1>1, <1>2, <2>1, <2>2 DEF AppTypes, OffsetInv
<1>4. CASE Read(t)
  <2>1. Size(source) \in 0..MaxBlocks
    BY SizeIsTheSize DEF TypeInv
  <2> QED
    BY <1>1, <1>4, <2>1 DEF AppTypes, OffsetInv, Read, MoveOffset
<1>5. CASE Seek(t)
  BY <1>1, <1>5 DEF AppTypes, OffsetInv, Seek, MoveOffset
<1>6. CASE RealCall(t)
  <2>1. pc' \in [AppThreads -> Pcs] /\ opsLeft' = opsLeft
    BY <1>1, <1>6 DEF AppTypes, RealCall, Pcs
  <2>2. CASE op[t].kind = "ftruncate"
    <3>1. /\ op' = [op EXCEPT ![t].at = op[t].lo]
          /\ UNCHANGED <<offset, position, descLock>>
      BY <1>6, <2>2 DEF RealCall
    <3>2. op[t] \in Calls /\ op[t].lo \in 0..MaxBlocks
      <4>1. op[t] \in Calls /\ CallInv(t)
        BY <1>1, <1>6 DEF AppTypes, TypeInv, RangesInv, CallRangeInv, RealCall
      <4> QED
        BY <2>2, <4>1 DEF CallInv, Calls
    <3>3. op' \in [AppThreads -> Calls]
      BY <1>1, <3>1, <3>2 DEF AppTypes, Calls
    <3> QED
      BY <1>1, <2>1, <3>1, <3>3 DEF AppTypes, OffsetInv
  <2>3. CASE op[t].kind # "ftruncate"
    <3>1. PICK start \in 0..MaxBlocks, n \in 0..MaxBlocks :
            /\ start + n \in 0..MaxBlocks
            /\ op[t].kind = "write" => start = position
            /\ op' = [op EXCEPT ![t].at = start]
            /\ IF op[t].kind = "write"
               THEN offset' = offset + n /\ position' = position + n /\ descLock' = NoOne
               ELSE UNCHANGED <<offset, position, descLock>>
      BY <1>6, <2>3, RealCallOfWrite
    <3>2. op[t] \in Calls
      BY <1>1 DEF AppTypes
    <3>3. op' \in [AppThreads -> Calls]
      BY <1>1, <3>1, <3>2 DEF AppTypes, Calls
    <3>4. /\ position' \in 0..MaxBlocks /\ offset' \in -1..position'
          /\ (offset = position => offset' = position')
          /\ descLock' \in {descLock, NoOne}
      <4>1. position \in 0..MaxBlocks /\ offset \in -1..position
        BY <1>1 DEF AppTypes, OffsetInv
      <4>2. CASE op[t].kind = "write"
        BY <3>1, <4>1, <4>2
      <4>3. CASE op[t].kind # "write"
        BY <3>1, <4>1, <4>3
      <4> QED
        BY <4>2, <4>3
    <3> QED
      BY <1>1, <2>1, <3>3, <3>4 DEF AppTypes, OffsetInv
  <2> QED
    BY <2>2, <2>3
<1>7. CASE Mirror(t)
  <2>1. UNCHANGED <<offset, position, descLock, opsLeft>>
    BY <1>7 DEF Mirror
  <2>2. pc' \in [AppThreads -> Pcs]
    BY <1>1, <1>7 DEF AppTypes, Mirror, Pcs
  <2>3. op' \in [AppThreads -> Calls]
    <3>1. op[t] \in Calls
      BY <1>1 DEF AppTypes
    <3>2. \E m \in 0..MaxBlocks : op' = [op EXCEPT ![t].mirrored = m]
      <4>1. CASE op[t].kind = "ftruncate"
        BY <1>7, <4>1, MirrorOfTruncate
      <4>2. CASE op[t].kind # "ftruncate"
        <5>1. PICK n \in 1..op[t].hi - (op[t].lo + op[t].mirrored) :
                \/ op' = [op EXCEPT ![t].mirrored = 0]
                \/ op' = [op EXCEPT ![t].mirrored = op[t].mirrored + n]
          BY <1>7, <4>2, MirrorOfWrite
        <5>2. /\ op[t].lo \in 0..MaxBlocks /\ op[t].hi \in 0..MaxBlocks
              /\ op[t].mirrored \in 0..MaxBlocks
          BY <1>7, <4>2, MirrorOfWrite
        <5>3. op[t].mirrored + n \in 0..MaxBlocks
          BY SMTT(30), <5>2
        <5> QED
          BY <5>1, <5>3
      <4> QED
        BY <4>1, <4>2
    <3>3. PICK m \in 0..MaxBlocks : op' = [op EXCEPT ![t].mirrored = m]
      BY <3>2
    <3>4. [op[t] EXCEPT !.mirrored = m] \in Calls
      BY <3>1, CallFields
    <3> QED
      BY <1>1, <3>3, <3>4 DEF AppTypes
  <2> QED
    BY <1>1, <2>1, <2>2, <2>3 DEF AppTypes, OffsetInv
<1>8. CASE \/ GetRangeLock(t) \/ RealCallFails(t) \/ EnterSession(t)
           \/ MirrorFails(t) \/ SetError(t)
  <2>1. UNCHANGED <<offset, position, descLock, op, opsLeft>>
    BY <1>8 DEF GetRangeLock, RealCallFails, EnterSession, MirrorFails, SetError
  <2>2. pc' \in [AppThreads -> Pcs]
    BY <1>1, <1>8 DEF AppTypes, Pcs, GetRangeLock, RealCallFails, EnterSession,
                      MirrorFails, SetError
  <2> QED
    BY <1>1, <2>1, <2>2 DEF AppTypes, OffsetInv
<1>9. CASE EndCall(t)
  <2>1. NoCall \in Calls
    BY DEF NoCall, Call, Calls
  <2>2. UNCHANGED <<offset, position, descLock, opsLeft>>
    BY <1>9 DEF EndCall
  <2>3. pc' \in [AppThreads -> Pcs] /\ op' \in [AppThreads -> Calls]
    BY <1>1, <1>9, <2>1 DEF AppTypes, Pcs, EndCall
  <2> QED
    BY <1>1, <2>2, <2>3 DEF AppTypes, OffsetInv
<1>10. CASE LockWaits(t)
  <2>1. UNCHANGED <<offset, position, descLock, opsLeft, pc, op>>
    BY <1>10 DEF LockWaits, appVars
  <2> QED
    BY <1>1, <2>1 DEF AppTypes, OffsetInv
<1> QED
  BY <1>3, <1>4, <1>5, <1>6, <1>7, <1>8, <1>9, <1>10 DEF AppNext

LEMMA AppStepKeepsMgrTypes ==
    ASSUME TypeInv, NEW t \in AppThreads, AppNext(t)
    PROVE  MgrTypes'
<1>1. MgrTypes
  BY TypeParts DEF TypeInv
<1>2. CASE UNCHANGED mgrVars
  BY <1>2, Unchanged DEF TypeInv
<1>3. CASE EnterSession(t) \/ Mirror(t) \/ MirrorFails(t) \/ SetError(t)
  BY <1>1, <1>3 DEF MgrTypes, EnterSession, Mirror, MirrorFails, SetError
<1> QED
  BY <1>2, <1>3
     DEF AppNext, BeginWrite, BeginPwrite, BeginFtruncate, Read, Seek, MoveOffset,
         GetRangeLock, RealCall, RealCallFails, EndCall, LockWaits

LEMMA AppStepKeepsRanges ==
    ASSUME Appends = FALSE, TypeInv, NEW t \in AppThreads, AppNext(t)
    PROVE  RangesInv'
<1> USE BoundsAreNumbers
<1>1. /\ t \in Lockers /\ LockProofs!TypeOK
      /\ pc \in [AppThreads -> Pcs] /\ op \in [AppThreads -> Calls]
      /\ request \in [Lockers -> LockProofs!Ranges]
      /\ phase \in [Lockers -> LockProofs!Phases]
  BY LockTypes DEF TypeInv, TypeOK, Lockers, LockProofs!TypeOK
<1>2. CallRangeInv(t) /\ op[t] \in Calls
  BY <1>1 DEF TypeInv, RangesInv
<1>3. \A u \in AppThreads \ {t} : CallRangeInv(u)'
  BY ZenonT(60), AppStepIsLocal DEF TypeInv, RangesInv, CallRangeInv, CallInv, Lockers
<1>4. CopierRangeInv'
  BY AppStepIsLocal DEF TypeInv, RangesInv, CopierRangeInv, Lockers, copyVars
<1>5. SUFFICES CallRangeInv(t)'
  BY <1>3, <1>4 DEF RangesInv
<1>6. CASE BeginWrite(t) \/ BeginPwrite(t) \/ BeginFtruncate(t)
  <2>1. PICK call \in Calls :
          /\ Begin(t, call) /\ call.mirrored = 0
          /\ IF call.kind = "ftruncate"
             THEN call.lo >= 0 /\ call.hi = MaxOffset
             ELSE /\ call.value \in Values /\ call.lo < call.hi
                  /\ call.hi <= MaxBlocks
                  /\ call.kind = "pwrite" => call.lo >= 0
    BY <1>6, CallsBegun
  <2>2. op'[t] = call /\ pc'[t] = "locking"
    BY <1>1, <2>1 DEF Begin
  <2>3. request'[t] = [lo |-> IF call.lo < 0 THEN MaxOffset ELSE call.lo, hi |-> call.hi]
    BY <1>1, <2>1, LockEffects DEF Begin
  <2>4. call.lo + call.mirrored = call.lo
    BY <2>1, CallFields
  <2> QED
    BY <2>1, <2>2, <2>3, <2>4 DEF CallRangeInv, CallInv
<1>7. ASSUME UNCHANGED lockVars, op'[t] = op[t],
             pc'[t] = pc[t] \/ pc'[t] = "idle" \/ pc[t] \notin {"idle", "locking"}
      PROVE  CallRangeInv(t)'
  BY <1>2, <1>7 DEF CallRangeInv, CallInv, lockVars
<1>8. CASE Read(t) \/ Seek(t)
  BY <1>7, <1>8 DEF Read, Seek, MoveOffset
<1>9. CASE RealCallFails(t) \/ EnterSession(t) \/ MirrorFails(t) \/ SetError(t)
  BY <1>1, <1>7, <1>9 DEF RealCallFails, EnterSession, MirrorFails, SetError
<1>10. CASE GetRangeLock(t)
  <2>1. op' = op /\ pc[t] = "locking"
    BY <1>10 DEF GetRangeLock
  <2>2. request' = request /\ phase'[t] = "holding"
    BY <1>1, <1>10, LockEffects DEF GetRangeLock
  <2> QED
    BY <1>2, <2>1, <2>2 DEF CallRangeInv, CallInv
<1>11. CASE RealCall(t)
  <2>1. UNCHANGED lockVars /\ pc[t] = "locked"
    BY <1>11 DEF RealCall
  <2>2. \E a : op' = [op EXCEPT ![t].at = a]
    BY <1>11, RealCallOfWrite DEF RealCall
  <2>3. /\ op'[t].kind = op[t].kind /\ op'[t].lo = op[t].lo /\ op'[t].hi = op[t].hi
        /\ op'[t].value = op[t].value /\ op'[t].mirrored = op[t].mirrored
    BY <1>1, <1>2, <2>2 DEF Calls
  <2> QED
    BY <1>2, <2>1, <2>3 DEF CallRangeInv, CallInv, lockVars
<1>12. CASE Mirror(t)
  <2>1. UNCHANGED lockVars /\ pc[t] = "in session"
    BY <1>12 DEF Mirror
  <2>2. \E m : /\ op' = [op EXCEPT ![t].mirrored = m]
               /\ op[t].kind # "ftruncate" => op[t].lo + m < op[t].hi
    <3>1. CASE op[t].kind = "ftruncate"
      BY <1>12, <3>1, MirrorOfTruncate
    <3>2. CASE op[t].kind # "ftruncate"
      <4>1. PICK n \in 1..op[t].hi - (op[t].lo + op[t].mirrored) :
              IF op[t].lo + op[t].mirrored + n = op[t].hi
              THEN op' = [op EXCEPT ![t].mirrored = 0]
              ELSE op' = [op EXCEPT ![t].mirrored = op[t].mirrored + n]
        BY <1>12, <3>2, MirrorOfWrite
      <4>2. /\ op[t].lo \in 0..MaxBlocks /\ op[t].hi \in 0..MaxBlocks
            /\ op[t].mirrored \in 0..MaxBlocks
        BY <1>12, <3>2, MirrorOfWrite
      <4>3. op[t].lo + 0 < op[t].hi
        BY <4>2
      <4>4. op[t].lo + op[t].mirrored + n # op[t].hi =>
              op[t].lo + (op[t].mirrored + n) < op[t].hi
        <5> DEFINE lo == op[t].lo  hi == op[t].hi  m == op[t].mirrored
        <5>1. lo \in Int /\ hi \in Int /\ m \in Int
          BY <4>2
        <5>2. n \in Int /\ n <= hi - (lo + m)
          BY <5>1
        <5> HIDE DEF lo, hi, m
        <5>3. lo + m + n # hi => lo + (m + n) < hi
          BY <5>1, <5>2
        <5> QED
          BY <5>3 DEF lo, hi, m
      <4> QED
        BY <4>1, <4>3, <4>4
    <3> QED
      BY <3>1, <3>2
  <2>3. PICK m : /\ op' = [op EXCEPT ![t].mirrored = m]
                 /\ op[t].kind # "ftruncate" => op[t].lo + m < op[t].hi
    BY <2>2
  <2>4. /\ op'[t].kind = op[t].kind /\ op'[t].lo = op[t].lo /\ op'[t].hi = op[t].hi
        /\ op'[t].value = op[t].value /\ op'[t].mirrored = m
    BY <1>1, <1>2, <2>3 DEF Calls
  <2> QED
    BY <1>2, <2>1, <2>3, <2>4 DEF CallRangeInv, CallInv, lockVars
<1>13. CASE EndCall(t)
  BY <1>1, <1>13 DEF EndCall, CallRangeInv
<1>14. CASE LockWaits(t)
  <2>1. op' = op /\ pc' = pc
    BY <1>14 DEF LockWaits, appVars
  <2>2. request' = request /\ (phase[t] = "holding" => phase'[t] = "holding")
    BY <1>1, <1>14, LockEffects DEF LockWaits
  <2> QED
    BY <1>2, <2>1, <2>2 DEF CallRangeInv, CallInv
<1> QED
  BY <1>6, <1>8, <1>9, <1>10, <1>11, <1>12, <1>13, <1>14 DEF AppNext

LEMMA AppStepKeepsTypes ==
    ASSUME Appends = FALSE, TypeInv, NEW t \in AppThreads, AppNext(t)
    PROVE  TypeInv'
<1>1. LockProofs!IInv'
  BY AppStepIsLockStep, LockStepKeepsInvariant DEF TypeInv
<1>2. CopyTypes'
  BY AppStepIsLocal, Unchanged DEF TypeInv
<1>3. TypeOK'
  BY <1>1, <1>2, LockTypesPrimed, AppStepKeepsFiles, AppStepKeepsAppTypes,
     AppStepKeepsMgrTypes, TypePartsPrimed
<1> QED
  BY <1>1, <1>3, AppStepKeepsFiles, AppStepKeepsAppTypes, AppStepKeepsRanges DEF TypeInv

(* A step of the backup thread leaves the source, the application's calls  *)
(* and their locks alone.                                                  *)
LEMMA CopierStepIsLocal ==
    ASSUME TypeInv, CopierNext
    PROVE  /\ UNCHANGED appVars /\ source' = source /\ inSession' = inSession
           /\ \A u \in AppThreads :
                /\ request'[u] = request[u]
                /\ phase[u] = "holding" => phase'[u] = "holding"
<1>1. /\ Copier \in Lockers /\ LockProofs!TypeOK
      /\ request \in [Lockers -> LockProofs!Ranges]
      /\ phase \in [Lockers -> LockProofs!Phases]
  BY LockTypes DEF TypeInv, Lockers, LockProofs!TypeOK
<1>2. UNCHANGED appVars /\ source' = source /\ inSession' = inSession
  BY DEF CopierNext, CopierStep, BeginBackup, OpenSession, CloseSession, EndBackup,
         CopyNext, PollAbortsBetweenChunks, CopierGetsRangeLock, ReadChunk,
         WriteChunk, ChunkFails, CopierUnlocks, LockWaits, fileVars, mgrVars
<1>3. CASE UNCHANGED lockVars
  BY <1>2, <1>3 DEF lockVars
<1>4. CASE \E r : Lock!LockRange(Copier, r)
  BY <1>1, <1>2, <1>4, LockEffects, BoundsAreNumbers DEF Lockers
<1>5. CASE \/ Lock!LockGranted(Copier) \/ Lock!UnlockRange(Copier)
           \/ Lock!LockBlocks(Copier) \/ Lock!SpuriousWakeup(Copier)
  BY <1>1, <1>2, <1>5, LockEffects, BoundsAreNumbers DEF Lockers
<1> QED
  BY <1>3, <1>4, <1>5
     DEF CopierNext, CopierStep, BeginBackup, OpenSession, CloseSession, EndBackup,
         CopyNext, PollAbortsBetweenChunks, CopierGetsRangeLock, ReadChunk,
         WriteChunk, ChunkFails, CopierUnlocks, LockWaits

LEMMA EmptyFileType == EmptyFile \in [Blocks -> Contents] /\ HasSize(EmptyFile, 0)
  BY BoundsAreNumbers DEF EmptyFile, Contents, HasSize

LEMMA SequenceOf ==
    ASSUME NEW S, NEW n \in Nat, NEW f \in [1..n -> S]
    PROVE  f \in Seq(S) /\ Len(f) = n
  OBVIOUS

(* What the copier reads: as much as its buffer takes, none of it Eof.     *)
LEMMA ChunkRead ==
    ASSUME TypeInv, ReadChunk
    PROVE  \E len \in 0..Chunk :
             /\ len > 0 => copied + len <= Size(source)
             /\ len = 0 => Size(source) <= copied
             /\ buffer' \in Seq(Contents) /\ Len(buffer') = len
             /\ \A i \in 1..len : /\ buffer'[i] = source[copied + i - 1]
                                  /\ copied + i - 1 \in Blocks
             /\ bpc' = IF len = 0 THEN "unlocking at end" ELSE "writing"
<1> USE BoundsAreNumbers
<1> DEFINE n == Size(source) - copied
           length == IF n <= 0 THEN 0 ELSE IF n < Chunk THEN n ELSE Chunk
<1>1. Size(source) \in 0..MaxBlocks /\ copied \in 0..MaxBlocks
      /\ source \in [Blocks -> Contents]
  BY SizeIsTheSize DEF TypeInv, TypeOK
<1>2. /\ length \in 0..Chunk /\ (length > 0 => copied + length <= Size(source))
      /\ (length = 0 => Size(source) <= copied)
  BY <1>1
<1>3. /\ buffer' = [i \in 1..length |-> source[copied + i - 1]]
      /\ bpc' = IF length = 0 THEN "unlocking at end" ELSE "writing"
  BY DEF ReadChunk
<1>4. \A i \in 1..length : copied + i - 1 \in Blocks
  BY <1>1, <1>2
<1>5. buffer' \in [1..length -> Contents]
  BY <1>1, <1>3, <1>4
<1>6. length \in Nat
  BY <1>2
<1>7. buffer' \in Seq(Contents) /\ Len(buffer') = length
  BY <1>5, <1>6, SequenceOf
<1> HIDE DEF n
<1> QED
  BY <1>7, <1>2, <1>3, <1>4, <1>5

(* A write of part of the buffer. *)
LEMMA PartOfBuffer ==
    ASSUME TypeInv, bpc = "writing", NEW n \in 1..Len(buffer)
    PROVE  /\ n \in 1..MaxBlocks /\ copied + n \in 0..MaxBlocks
           /\ Len(buffer) \in Nat
           /\ SubSeq(buffer, 1, n) \in Seq(Contents) /\ Len(SubSeq(buffer, 1, n)) = n
           /\ \A i \in 1..n : SubSeq(buffer, 1, n)[i] = buffer[i]
           /\ SubSeq(buffer, n + 1, Len(buffer)) \in Seq(Contents)
           /\ Len(SubSeq(buffer, n + 1, Len(buffer))) = Len(buffer) - n
           /\ \A i \in 1..Len(buffer) - n :
                SubSeq(buffer, n + 1, Len(buffer))[i] = buffer[n + i]
<1> USE BoundsAreNumbers
<1>1. /\ buffer \in Seq(Contents) /\ copied \in 0..MaxBlocks
      /\ Len(buffer) \in Nat /\ copied + Len(buffer) <= MaxBlocks
  BY DEF TypeInv, TypeOK, RangesInv, CopierRangeInv
<1>2. n \in 1..MaxBlocks /\ copied + n \in 0..MaxBlocks
  BY <1>1
<1>3. SubSeq(buffer, 1, n) = [i \in 1..n |-> buffer[i]]
  BY <1>1
<1>4. SubSeq(buffer, n + 1, Len(buffer)) = [i \in 1..Len(buffer) - n |-> buffer[n + i]]
  BY <1>1
<1>5. \A i \in 1..Len(buffer) : buffer[i] \in Contents
  BY <1>1
<1>6. /\ SubSeq(buffer, 1, n) \in [1..n -> Contents] /\ n \in Nat
      /\ Len(buffer) - n \in Nat
      /\ SubSeq(buffer, n + 1, Len(buffer)) \in [1..Len(buffer) - n -> Contents]
  <2>1. n \in Nat /\ Len(buffer) - n \in Nat /\ n <= Len(buffer)
    BY <1>1
  <2>2. \A i \in 1..n : buffer[i] \in Contents
    BY <1>1, <1>5
  <2>3. \A i \in 1..Len(buffer) - n : buffer[n + i] \in Contents
    <3>1. \A i \in 1..Len(buffer) - n : n + i \in 1..Len(buffer)
      BY <1>1
    <3> QED
      BY <1>5, <3>1
  <2> QED
    BY <1>3, <1>4, <2>1, <2>2, <2>3
<1>7. /\ SubSeq(buffer, 1, n) \in Seq(Contents) /\ Len(SubSeq(buffer, 1, n)) = n
      /\ SubSeq(buffer, n + 1, Len(buffer)) \in Seq(Contents)
      /\ Len(SubSeq(buffer, n + 1, Len(buffer))) = Len(buffer) - n
  BY <1>6, SequenceOf
<1>8. \A i \in 1..n : SubSeq(buffer, 1, n)[i] = buffer[i]
  BY <1>3
<1>9. \A i \in 1..Len(buffer) - n :
        SubSeq(buffer, n + 1, Len(buffer))[i] = buffer[n + i]
  BY <1>4
<1> QED
  BY <1>1, <1>2, <1>7, <1>8, <1>9

LEMMA CopierStepKeepsTypes ==
    ASSUME TypeInv, CopierNext
    PROVE  TypeInv'
<1> USE BoundsAreNumbers
<1>1. LockProofs!IInv'
  BY CopierStepIsLockStep, LockStepKeepsInvariant DEF TypeInv
<1>2. /\ Copier \in Lockers /\ LockProofs!TypeOK
      /\ request \in [Lockers -> LockProofs!Ranges]
      /\ phase \in [Lockers -> LockProofs!Phases]
  BY LockTypes DEF TypeInv, Lockers, LockProofs!TypeOK
<1>3. FileTypes /\ MgrTypes /\ CopyTypes
  BY TypeParts DEF TypeInv
<1>4. AppTypes' /\ IsFile(source)' /\ OffsetInv'
  BY CopierStepIsLocal, Unchanged DEF TypeInv, OffsetInv, appVars
<1>5. \A u \in AppThreads : CallRangeInv(u)'
  BY CopierStepIsLocal DEF TypeInv, RangesInv, CallRangeInv, CallInv, appVars
<1>6. SUFFICES FileTypes' /\ MgrTypes' /\ CopyTypes' /\ CopierRangeInv'
  BY <1>1, <1>4, <1>5, LockTypesPrimed, TypePartsPrimed DEF TypeInv, RangesInv
<1>7. CopierRangeInv
  BY DEF TypeInv, RangesInv
<1>8. UNCHANGED fileVars => FileTypes'
  BY Unchanged DEF TypeInv
<1>9. UNCHANGED mgrVars => MgrTypes'
  BY Unchanged DEF TypeInv
<1>10. UNCHANGED lockVars /\ bpc' \notin {"locking", "reading", "writing"} /\
       (bpc' \in {"unlocking", "unlocking at end"} => bpc \in {"reading", "writing"}) =>
         CopierRangeInv'
  BY <1>7 DEF CopierRangeInv, lockVars
<1> DEFINE BufferType(b) == b \in Seq(Contents) /\ Len(b) <= Chunk
<1>22. /\ bpc \in Bpcs /\ BufferType(buffer) /\ copied \in 0..MaxBlocks
       /\ rc \in {"zero", "nonzero"} /\ sessionsLeft \in 0..MaxSessions
       /\ sourceAtStop \in [Blocks -> Contents \cup {Unsettled}]
  BY <1>3 DEF CopyTypes
<1>23. ASSUME bpc' \in Bpcs, BufferType(buffer'), copied' \in 0..MaxBlocks,
              rc' \in {"zero", "nonzero"}, UNCHANGED <<sessionsLeft, sourceAtStop>>
       PROVE  CopyTypes'
  BY <1>22, <1>23 DEF CopyTypes
<1> HIDE DEF BufferType
<1>11. CASE BeginBackup
  <2>1. UNCHANGED <<lockVars, fileVars>>
    BY <1>11 DEF BeginBackup
  <2>2. MgrTypes'
    BY <1>3, <1>11 DEF BeginBackup, MgrTypes
  <2>3. CopyTypes' /\ bpc' = "starting"
    BY <1>3, <1>11 DEF BeginBackup, CopyTypes, Bpcs
  <2> QED
    BY <1>8, <1>10, <2>1, <2>2, <2>3
<1>12. CASE OpenSession
  <2>1. UNCHANGED lockVars /\ bpc' \in {"copying", "stopping"}
    BY <1>12 DEF OpenSession
  <2>2. MgrTypes'
    BY <1>3, <1>12 DEF OpenSession, MgrTypes
  <2>3. CopyTypes'
    <3>1. UNCHANGED <<buffer, sessionsLeft, sourceAtStop>> /\ copied' = 0
      BY <1>12 DEF OpenSession
    <3>2. bpc' \in Bpcs /\ rc' \in {"zero", "nonzero"}
      BY <1>12, <1>22 DEF OpenSession, Bpcs
    <3> QED
      BY <1>22, <1>23, <3>1, <3>2
  <2>4. FileTypes'
    BY <1>3, <1>12, EmptyFileType DEF OpenSession, FileTypes
  <2> QED
    BY <1>10, <2>1, <2>2, <2>3, <2>4
<1>13. CASE CloseSession
  <2>1. UNCHANGED <<lockVars, fileVars>> /\ bpc' = "reporting"
    BY <1>13 DEF CloseSession
  <2>2. MgrTypes'
    BY <1>3, <1>13 DEF CloseSession, MgrTypes
  <2>3. sourceAtStop' \in [Blocks -> Contents \cup {Unsettled}]
    BY <1>3, <1>13 DEF CloseSession, FileTypes
  <2>4. CopyTypes'
    BY <1>3, <1>13, <2>3 DEF CloseSession, CopyTypes, Bpcs
  <2> QED
    BY <1>8, <1>10, <2>1, <2>2, <2>4
<1>14. CASE EndBackup \/ PollAbortsBetweenChunks
  <2>1. UNCHANGED <<lockVars, fileVars, mgrVars>> /\ bpc' \in {"idle", "stopping"}
    BY <1>14 DEF EndBackup, PollAbortsBetweenChunks, Quit
  <2>2. CopyTypes'
    BY <1>3, <1>14 DEF EndBackup, PollAbortsBetweenChunks, Quit, CopyTypes, Bpcs
  <2> QED
    BY <1>8, <1>9, <1>10, <2>1, <2>2
<1>15. CASE CopyNext
  <2>1. UNCHANGED <<fileVars, mgrVars>>
    BY <1>15 DEF CopyNext
  <2>2. CopyTypes'
    BY <1>3, <1>15 DEF CopyNext, Quit, CopyTypes, Bpcs
  <2>3. CopierRangeInv'
    <3>1. CASE copyEnabled
      <4>1. /\ Lock!LockRange(Copier, [lo |-> copied, hi |-> copied + Chunk])
            /\ bpc' = "locking" /\ copied' = copied
        BY <1>15, <3>1 DEF CopyNext
      <4>2. request'[Copier] = [lo |-> copied, hi |-> copied + Chunk]
        BY <1>2, <4>1, LockEffects
      <4> QED
        BY <4>1, <4>2 DEF CopierRangeInv
    <3>2. CASE ~copyEnabled
      BY <1>10, <1>15, <3>2 DEF CopyNext, Quit
    <3> QED
      BY <3>1, <3>2
  <2> QED
    BY <1>8, <1>9, <2>1, <2>2, <2>3
<1>16. CASE CopierGetsRangeLock
  <2>1. /\ UNCHANGED <<fileVars, mgrVars>> /\ bpc = "locking" /\ bpc' = "reading"
        /\ copied' = copied
    BY <1>16 DEF CopierGetsRangeLock
  <2>2. CopyTypes'
    BY <1>3, <1>16 DEF CopierGetsRangeLock, CopyTypes, Bpcs
  <2>3. request' = request /\ phase'[Copier] = "holding"
    BY <1>2, <1>16, LockEffects DEF CopierGetsRangeLock
  <2> QED
    BY <1>7, <1>8, <1>9, <2>1, <2>2, <2>3 DEF CopierRangeInv
<1>17. CASE ReadChunk
  <2>1. UNCHANGED <<lockVars, fileVars, mgrVars, copied>> /\ bpc = "reading"
    BY <1>17 DEF ReadChunk
  <2>2. PICK len \in 0..Chunk :
          /\ len > 0 => copied + len <= Size(source)
          /\ buffer' \in Seq(Contents) /\ Len(buffer') = len
          /\ bpc' = IF len = 0 THEN "unlocking at end" ELSE "writing"
    BY <1>17, ChunkRead
  <2>3. CopyTypes'
    <3>1. UNCHANGED <<copied, rc, sessionsLeft, sourceAtStop>>
      BY <1>17 DEF ReadChunk
    <3>2. bpc' \in Bpcs
      BY <2>2 DEF Bpcs
    <3>3. BufferType(buffer')
      <4>1. buffer' \in Seq(Contents) /\ Len(buffer') = len
        BY <2>2, Zenon
      <4>2. len <= Chunk
        OBVIOUS
      <4>3. Len(buffer') <= Chunk
        BY <4>1, <4>2
      <4> QED
        BY <4>1, <4>3 DEF BufferType
    <3> QED
      BY <1>22, <1>23, <3>1, <3>2, <3>3
  <2>4. Size(source) \in 0..MaxBlocks /\ copied \in 0..MaxBlocks
    BY <1>3, SizeIsTheSize DEF TypeInv, CopyTypes
  <2>5. len > 0 => copied + len <= MaxBlocks /\ copied + len <= copied + Chunk
    <3>1. len > 0 => copied + len <= Size(source)
      BY <2>2
    <3> QED
      BY <2>4, <3>1
  <2>6. phase'[Copier] = "holding" /\ request'[Copier] = [lo |-> copied, hi |-> copied + Chunk]
    BY <1>7, <2>1 DEF CopierRangeInv, lockVars
  <2>7. CopierRangeInv'
    <3>1. CASE len = 0
      <4>1. bpc' = "unlocking at end"
        BY <2>2, <3>1
      <4> QED
        BY <2>6, <4>1 DEF CopierRangeInv
    <3>2. CASE len > 0
      <4>1. bpc' = "writing" /\ Len(buffer') = len /\ copied' = copied
        <5>1. len # 0
          BY <3>2
        <5> QED
          BY <2>1, <2>2, <5>1, Zenon
      <4>2. request'[Copier].lo <= copied /\ copied + len <= request'[Copier].hi
        BY <2>4, <2>5, <2>6, <3>2
      <4> QED
        BY <2>5, <2>6, <3>2, <4>1, <4>2 DEF CopierRangeInv
    <3> QED
      BY <3>1, <3>2
  <2> QED
    BY <1>8, <1>9, <2>1, <2>3, <2>7
<1>18. CASE WriteChunk
  <2>1. bpc = "writing" /\ UNCHANGED <<lockVars, mgrVars, source>>
    BY <1>18 DEF WriteChunk
  <2>2. PICK n \in 1..Len(buffer) :
          /\ backup' = WriteBlocks(backup, copied, SubSeq(buffer, 1, n))
          /\ copied' = copied + n
          /\ buffer' = SubSeq(buffer, n + 1, Len(buffer))
          /\ bpc' = IF n = Len(buffer) THEN "unlocking" ELSE "writing"
    BY <1>18 DEF WriteChunk
  <2>3. /\ copied + n \in 0..MaxBlocks /\ Len(buffer) \in Nat
        /\ SubSeq(buffer, 1, n) \in Seq(Contents)
        /\ buffer' \in Seq(Contents) /\ Len(buffer') = Len(buffer) - n
    BY <2>1, <2>2, PartOfBuffer
  <2>4. FileTypes'
    BY <1>3, <2>1, <2>2, <2>3, WriteBlocksType DEF FileTypes, CopyTypes
  <2>5. UNCHANGED <<rc, sessionsLeft, sourceAtStop>>
    BY <1>18 DEF WriteChunk
  <2>6. CopyTypes'
    <3>1. Len(buffer) <= Chunk
      BY <1>22 DEF BufferType
    <3>2. Len(buffer') <= Chunk
      BY <2>3, <3>1
    <3>3. BufferType(buffer')
      BY <2>3, <3>2 DEF BufferType
    <3>4. bpc' \in Bpcs
      BY <2>2 DEF Bpcs
    <3> QED
      BY <1>22, <1>23, <2>2, <2>3, <2>5, <3>3, <3>4
  <2>7. copied \in Nat /\ request[Copier].lo \in Nat /\ request[Copier].hi \in Nat
    BY <1>2, <1>3 DEF CopyTypes, LockProofs!Ranges
  <2>8. CopierRangeInv'
    <3>1. /\ phase[Copier] = "holding" /\ copied + Len(buffer) <= MaxBlocks
          /\ request[Copier].lo <= copied
          /\ copied + Len(buffer) <= request[Copier].hi
      BY <1>7, <2>1 DEF CopierRangeInv
    <3>2. request' = request /\ phase' = phase
      BY <2>1 DEF lockVars
    <3>3. /\ copied' + Len(buffer') = copied + Len(buffer)
          /\ request[Copier].lo <= copied'
          /\ n # Len(buffer) => Len(buffer') > 0
      <4>1. copied' = copied + n /\ Len(buffer') = Len(buffer) - n
        BY <2>2, <2>3, Zenon
      <4>2. copied \in Nat /\ Len(buffer) \in Nat /\ n \in 1..Len(buffer)
        BY <2>3, <2>7
      <4>3. request[Copier].lo \in Nat /\ request[Copier].lo <= copied
        BY <2>7, <3>1
      <4> QED
        BY <4>1, <4>2, <4>3
    <3>4. bpc' \in {"writing", "unlocking"} /\ (bpc' = "writing" => n # Len(buffer))
      BY <2>2
    <3> QED
      BY <3>1, <3>2, <3>3, <3>4 DEF CopierRangeInv
  <2> QED
    BY <1>9, <2>1, <2>4, <2>6, <2>8
<1>19. CASE ChunkFails
  <2>1. /\ UNCHANGED <<lockVars, fileVars, mgrVars>> /\ bpc \in {"reading", "writing"}
        /\ bpc' = "unlocking at end" /\ buffer' = <<>>
    BY <1>19 DEF ChunkFails
  <2>2. <<>> \in Seq(Contents) /\ Len(<<>>) = 0
    OBVIOUS
  <2>3. CopyTypes'
    <3>1. BufferType(buffer')
      <4>1. Len(buffer') = 0 /\ buffer' \in Seq(Contents)
        BY <2>1, <2>2, Zenon
      <4>2. Len(buffer') <= Chunk
        BY <4>1
      <4> QED
        BY <4>1, <4>2 DEF BufferType
    <3>2. bpc' \in Bpcs /\ rc' = "nonzero"
      BY <1>19 DEF ChunkFails, Bpcs
    <3>3. UNCHANGED <<copied, sessionsLeft, sourceAtStop>>
      BY <1>19 DEF ChunkFails
    <3> QED
      BY <1>22, <1>23, <3>1, <3>2, <3>3
  <2> QED
    BY <1>8, <1>9, <1>10, <2>1, <2>3
<1>20. CASE CopierUnlocks
  <2>1. UNCHANGED <<fileVars, mgrVars>> /\ bpc' \in {"copying", "stopping"}
    BY <1>20 DEF CopierUnlocks
  <2>2. CopyTypes'
    BY <1>3, <1>20 DEF CopierUnlocks, CopyTypes, Bpcs
  <2> QED
    BY <1>8, <1>9, <2>1, <2>2 DEF CopierRangeInv
<1>21. CASE LockWaits(Copier)
  <2>1. UNCHANGED <<fileVars, mgrVars, copyVars>>
    BY <1>21 DEF LockWaits
  <2>2. request' = request /\ (phase[Copier] = "holding" => phase'[Copier] = "holding")
    BY <1>2, <1>21, LockEffects DEF LockWaits
  <2>3. CopyTypes'
    BY <2>1, Unchanged DEF TypeInv
  <2> QED
    BY <1>7, <1>8, <1>9, <2>1, <2>2, <2>3 DEF CopierRangeInv, copyVars
<1> QED
  BY <1>11, <1>12, <1>13, <1>14, <1>15, <1>16, <1>17, <1>18, <1>19, <1>20, <1>21
     DEF CopierNext, CopierStep

LEMMA InitialTypes == Init => TypeInv
<1> SUFFICES ASSUME Init
             PROVE  TypeInv
  OBVIOUS
<1> USE BoundsAreNumbers
<1>1. LockProofs!IInv /\ Lock!TypeOK
  <2>1. LockProofs!Init
    BY SameLock DEF Init, Lockers
  <2> QED
    BY <2>1, LockProofs!InitIInv, OffsetAssumptionHolds, LockTypes
<1>2. source \in [Blocks -> Contents] /\ IsFile(source)
  <2>1. PICK n \in 0..MaxBlocks : source = WriteBlocks(EmptyFile, 0, [i \in 1..n |-> Old])
    BY DEF Init
  <2>2. Old \in Contents \ {Eof}
    BY DEF Old, Eof, Contents
  <2>3. [i \in 1..n |-> Old] \in [1..n -> Contents \ {Eof}]
    BY <2>2
  <2>4. /\ [i \in 1..n |-> Old] \in Seq(Contents \ {Eof})
        /\ Len([i \in 1..n |-> Old]) = n
    BY <2>3, SequenceOf
  <2>5. [i \in 1..n |-> Old] \in [1..n -> Contents]
    BY <2>3
  <2>6. [i \in 1..n |-> Old] \in Seq(Contents)
    BY <2>5, SequenceOf
  <2>7. IsFile(EmptyFile)
    BY EmptyFileType DEF IsFile
  <2>8. IsFile(source)
    BY <2>1, <2>4, <2>7, WriteBlocksKeepsFile
  <2> QED
    BY <2>1, <2>6, <2>8, EmptyFileType, WriteBlocksType
<1>3. FileTypes
  BY <1>2, EmptyFileType DEF Init, FileTypes
<1>4. NoCall \in Calls
  BY DEF NoCall, Call, Calls
<1>5. AppTypes /\ OffsetInv
  BY <1>4 DEF Init, AppTypes, OffsetInv, Pcs
<1>6. MgrTypes
  BY DEF Init, MgrTypes
<1>7. CopyTypes
  BY EmptyFileType DEF Init, CopyTypes, Bpcs
<1>8. RangesInv
  BY DEF Init, RangesInv, CallRangeInv, CopierRangeInv
<1> QED
  BY <1>1, <1>2, <1>3, <1>5, <1>6, <1>7, <1>8, TypeParts DEF TypeInv

LEMMA TypeInvHolds == ASSUME Appends = FALSE PROVE Spec => []TypeInv
<1>1. ASSUME TypeInv, UNCHANGED vars
      PROVE  TypeInv'
  <2>1. /\ UNCHANGED lockVars /\ UNCHANGED fileVars /\ UNCHANGED appVars
        /\ UNCHANGED mgrVars /\ UNCHANGED copyVars /\ source' = source
        /\ \A t \in AppThreads : pc'[t] = pc[t] /\ op'[t] = op[t]
        /\ \A u \in Lockers : request'[u] = request[u] /\ phase'[u] = phase[u]
    BY <1>1 DEF vars, lockVars, fileVars, appVars
  <2>2. LockProofs!IInv'
    BY <1>1, <2>1, LockStepKeepsInvariant DEF TypeInv, LockStep
  <2>3. TypeOK' /\ IsFile(source)'
    BY <1>1, <2>1, <2>2, Unchanged, LockTypesPrimed, TypePartsPrimed DEF TypeInv
  <2>4. OffsetInv'
    BY <1>1, <2>1 DEF TypeInv, OffsetInv, appVars
  <2>5. RangesInv'
    BY <1>1, <2>1 DEF TypeInv, RangesInv, CallRangeInv, CallInv, CopierRangeInv,
                appVars, copyVars, lockVars
  <2> QED
    BY <2>2, <2>3, <2>4, <2>5 DEF TypeInv
<1>2. TypeInv /\ [Next]_vars => TypeInv'
  BY <1>1, StepCases, AppStepKeepsTypes, CopierStepKeepsTypes
<1> QED
  BY <1>2, InitialTypes, PTL DEF Spec

(* Every variable keeps its type, whatever fails and however short a write *)
(* is: no call writes past the end of what it locked, the copier's buffer  *)
(* fits, and m_offset, unless a seek fails, is the offset of the file.     *)
THEOREM TypeCorrect == ASSUME Appends = FALSE PROVE Spec => []TypeOK
  BY TypeInvHolds, PTL DEF TypeInv

----------------------------------------------------------------------------
(*                      What a call does to a block                        *)

(* All that is assumed below: types, session and consistency, for writes   *)
(* that are whole.                                                         *)
Inv == SessionInv /\ TypeInv /\ ConsistencyInv

(* m_offset is the offset at which a call begins, so the range is a real   *)
(* one and locks what the call writes.                                     *)
LEMMA CallHolds ==
    ASSUME WholeWrites, Inv, NEW t \in AppThreads, pc[t] = "locked" \/ InFlight(t)
    PROVE  /\ op[t].lo \in 0..MaxBlocks /\ op[t].hi \in 0..MaxOffset
           /\ op[t].lo < op[t].hi
           /\ op[t].kind = "ftruncate" => op[t].hi = MaxOffset
           /\ op[t].kind # "ftruncate" => op[t].hi <= MaxBlocks /\ op[t].value \in Values
           /\ op[t] \in Calls /\ t \in Lockers /\ phase[t] = "holding"
           /\ request[t].lo = op[t].lo /\ request[t].hi = op[t].hi
<1> USE BoundsAreNumbers
<1>1. /\ offset \in Int /\ position \in 0..MaxBlocks /\ offset = position
      /\ op[t] \in Calls
  BY DEF WholeWrites, Inv, TypeInv, TypeOK
<1>2. /\ CallInv(t) /\ phase[t] = "holding"
      /\ request[t] = [lo |-> IF op[t].lo < 0 THEN MaxOffset ELSE op[t].lo, hi |-> op[t].hi]
  BY DEF InFlight, Inv, TypeInv, RangesInv, CallRangeInv
<1>3. /\ op[t].mirrored = 0
      /\ pc[t] = "locked" /\ op[t].kind = "write" => op[t].lo = offset
      /\ InFlight(t) => op[t].at = op[t].lo
  BY DEF Inv, ConsistencyInv, DescriptionInv
<1>4. /\ op[t].lo \in -1..MaxBlocks /\ op[t].hi \in -1..MaxOffset /\ op[t].at \in 0..MaxBlocks
      /\ op[t].kind \in {"write", "pwrite", "ftruncate"}
  BY <1>1, CallFields DEF Calls
<1>5. op[t].lo \in 0..MaxBlocks
  <2>1. CASE InFlight(t)
    BY <1>3, <1>4, <2>1
  <2>2. CASE pc[t] = "locked"
    BY <1>1, <1>2, <1>3, <1>4, <2>2 DEF CallInv
  <2> QED
    BY <2>1, <2>2
<1>6. /\ op[t].kind = "ftruncate" => op[t].hi = MaxOffset
      /\ op[t].kind # "ftruncate" =>
           op[t].hi <= MaxBlocks /\ op[t].value \in Values /\ op[t].lo + 0 < op[t].hi
  BY <1>2, <1>3 DEF CallInv
<1>7. op[t].hi \in 0..MaxOffset /\ op[t].lo < op[t].hi
  BY <1>4, <1>5, <1>6
<1>8. request[t].lo = op[t].lo /\ request[t].hi = op[t].hi
  BY <1>2, <1>5
<1> QED
  BY <1>1, <1>2, <1>5, <1>6, <1>7, <1>8 DEF Lockers

LEMMA CallsAreApart ==
    ASSUME WholeWrites, Inv, NEW t \in AppThreads, NEW u \in AppThreads, t # u,
           pc[t] = "locked" \/ InFlight(t), pc[u] = "locked" \/ InFlight(u),
           NEW b \in 0..MaxOffset, op[t].lo <= b, b < op[t].hi
    PROVE  ~(op[u].lo <= b /\ b < op[u].hi)
<1>1. /\ t \in Lockers /\ phase[t] = "holding"
      /\ request[t].lo <= b /\ b < request[t].hi
  BY CallHolds
<1>2. /\ u \in Lockers /\ phase[u] = "holding"
      /\ request[u].lo = op[u].lo /\ request[u].hi = op[u].hi
  BY CallHolds
<1> QED
  BY <1>1, <1>2, HoldersAreApart DEF Inv, TypeInv

LEMMA CopierIsApart ==
    ASSUME WholeWrites, Inv, NEW t \in AppThreads, pc[t] = "locked" \/ InFlight(t),
           bpc = "writing", NEW b \in 0..MaxOffset,
           copied <= b, b < copied + Len(buffer)
    PROVE  ~(op[t].lo <= b /\ b < op[t].hi)
<1> USE BoundsAreNumbers
<1>1. /\ t \in Lockers /\ phase[t] = "holding"
      /\ request[t].lo = op[t].lo /\ request[t].hi = op[t].hi
  BY CallHolds
<1>2. /\ Copier \in Lockers /\ phase[Copier] = "holding" /\ Copier # t
      /\ request[Copier].lo <= copied /\ copied + Len(buffer) <= request[Copier].hi
  BY DEF Lockers, Inv, TypeInv, RangesInv, CopierRangeInv
<1>3. /\ copied \in Int /\ Len(buffer) \in Int
      /\ request[Copier].lo \in Int /\ request[Copier].hi \in Int
  <2>1. copied \in 0..MaxBlocks /\ buffer \in Seq(Contents)
    BY DEF Inv, TypeInv, TypeOK
  <2>2. request[Copier] \in LockProofs!Ranges
    BY <1>2, LockTypes DEF Inv, TypeInv, LockProofs!TypeOK
  <2> QED
    BY <2>1, <2>2 DEF LockProofs!Ranges
<1>4. request[Copier].lo <= b /\ b < request[Copier].hi
  BY <1>2, <1>3
<1> QED
  BY <1>1, <1>2, <1>4, HoldersAreApart DEF Inv, TypeInv

(* Both halves of a call do the same. *)
LEMMA WholeWrite ==
    ASSUME NEW file, NEW call \in Calls, call.kind # "ftruncate",
           call.lo \in 0..MaxBlocks, call.lo < call.hi, call.hi <= MaxBlocks,
           call.value \in Values, NEW b \in Blocks
    PROVE  WriteBlocks(file, call.lo, Data(call.hi - call.lo, call.value))[b] =
             Applied(call, file, b)
<1> USE BoundsAreNumbers
<1> DEFINE n == call.hi - call.lo
           data == Data(n, call.value)
<1>1. call.hi \in Int /\ n \in 1..MaxBlocks /\ call.lo + n = call.hi
  BY CallFields
<1>2. Len(data) = n /\ \A i \in 1..n : data[i] = <<call.value, i>>
  <2>1. n \in 0..MaxBlocks
    BY <1>1
  <2> QED
    BY <2>1, DataIsContents
<1>3. data # <<>>
  BY <1>1, <1>2
<1> HIDE DEF n, data
<1>4. CASE call.lo <= b /\ b < call.hi
  <2>1. b - call.lo + 1 \in 1..n
    BY <1>1, <1>4
  <2> QED
    BY <1>1, <1>2, <1>4, <2>1 DEF WriteBlocks, Applied, Written, n, data
<1>5. CASE ~(call.lo <= b /\ b < call.hi)
  BY <1>1, <1>2, <1>3, <1>5 DEF WriteBlocks, Applied, n, data
<1> QED
  BY <1>4, <1>5

LEMMA WholeTruncate ==
    ASSUME NEW file, NEW call, call.kind = "ftruncate", call.lo \in 0..MaxBlocks,
           call.hi = MaxOffset, NEW b \in Blocks
    PROVE  Truncate(file, call.lo)[b] = Applied(call, file, b)
  BY BoundsAreNumbers DEF Truncate, Applied, Written

LEMMA RealCallEffect ==
    ASSUME WholeWrites, Inv, NEW t \in AppThreads, RealCall(t)
    PROVE  /\ \A b \in Blocks : source'[b] = Applied(op[t], source, b)
           /\ pc[t] = "locked"
           /\ pc' = [pc EXCEPT ![t] = "done on source"]
           /\ op' = [op EXCEPT ![t].at = op[t].lo]
           /\ UNCHANGED <<backup, mgrVars, copyVars>>
           /\ op[t].kind = "write" => descLock' = NoOne /\ offset' = position'
           /\ op[t].kind # "write" => UNCHANGED <<offset, descLock>>
<1>1. pc[t] = "locked" /\ pc' = [pc EXCEPT ![t] = "done on source"]
      /\ UNCHANGED <<backup, mgrVars, copyVars>>
  BY DEF RealCall
<1>2. CASE op[t].kind = "ftruncate"
  <2>1. /\ source' = Truncate(source, op[t].lo)
        /\ op' = [op EXCEPT ![t].at = op[t].lo]
        /\ UNCHANGED <<offset, position, descLock>>
    BY <1>2 DEF RealCall
  <2>2. \A b \in Blocks : source'[b] = Applied(op[t], source, b)
    BY ZenonT(60), <1>1, <1>2, <2>1, CallHolds, WholeTruncate
  <2> QED
    BY <1>1, <1>2, <2>1, <2>2
<1>3. CASE op[t].kind # "ftruncate"
  <2>1. PICK start, n \in 0..MaxBlocks :
           /\ start = IF op[t].kind = "write" THEN position ELSE op[t].lo
           /\ ~ShortWrites => n = op[t].hi - op[t].lo
           /\ source' = WriteBlocks(source, start, Data(n, op[t].value))
           /\ op' = [op EXCEPT ![t].at = start]
           /\ IF op[t].kind = "write"
              THEN offset' = offset + n /\ position' = position + n /\ descLock' = NoOne
              ELSE UNCHANGED <<offset, position, descLock>>
    <3>1. Appends = FALSE /\ TypeInv
      BY DEF WholeWrites, Inv
    <3> QED
      BY <1>3, <3>1, RealCallOfWrite
  <2>2. offset = position /\ (op[t].kind = "write" => op[t].lo = offset)
    BY <1>1 DEF WholeWrites, Inv, TypeInv, TypeOK, ConsistencyInv, DescriptionInv
  <2>3. start = op[t].lo /\ n = op[t].hi - op[t].lo
    BY <2>1, <2>2 DEF WholeWrites
  <2>4. \A b \in Blocks : source'[b] = Applied(op[t], source, b)
    BY ZenonT(60), <1>1, <1>3, <2>1, <2>3, CallHolds, WholeWrite
  <2> QED
    BY <1>1, <2>1, <2>2, <2>3, <2>4
<1> QED
  BY <1>2, <1>3

LEMMA RealCallKeepsCall ==
    ASSUME WholeWrites, Inv, NEW t \in AppThreads, RealCall(t)
    PROVE  /\ op'[t].kind = op[t].kind /\ op'[t].lo = op[t].lo /\ op'[t].hi = op[t].hi
           /\ op'[t].value = op[t].value /\ op'[t].mirrored = op[t].mirrored
           /\ op'[t].at = op[t].lo /\ pc'[t] = "done on source"
<1>1. /\ op' = [op EXCEPT ![t].at = op[t].lo]
      /\ pc' = [pc EXCEPT ![t] = "done on source"]
  BY RealCallEffect
<1>2. pc \in [AppThreads -> Pcs] /\ op \in [AppThreads -> Calls]
  BY DEF Inv, TypeInv, TypeOK
<1> QED
  BY <1>1, <1>2 DEF Calls

LEMMA MirrorEffect ==
    ASSUME WholeWrites, Inv, NEW t \in AppThreads, Mirror(t)
    PROVE  /\ \A b \in Blocks : backup'[b] = Applied(op[t], backup, b)
           /\ pc[t] = "in session"
           /\ pc' = [pc EXCEPT ![t] = "unlocking"]
           /\ op' = op
           /\ UNCHANGED <<source, offset, position, descLock, session, copyEnabled,
                          errorHappened, copyVars>>
<1>1. /\ pc[t] = "in session" /\ InFlight(t)
      /\ UNCHANGED <<source, offset, position, descLock, session, copyEnabled,
                     errorHappened, copyVars>>
  BY DEF Mirror, InFlight
<1>2. op[t].mirrored = 0 /\ op \in [AppThreads -> Calls]
  BY DEF Inv, ConsistencyInv, DescriptionInv, TypeInv, TypeOK
<1>3. [op EXCEPT ![t].mirrored = 0] = op
  BY <1>2 DEF Calls
<1>4. CASE op[t].kind = "ftruncate"
  <2>1. /\ backup' = Truncate(backup, op[t].lo)
        /\ op' = [op EXCEPT ![t].mirrored = 0] /\ pc' = [pc EXCEPT ![t] = "unlocking"]
    BY <1>4, MirrorOfTruncate
  <2>2. \A b \in Blocks : backup'[b] = Applied(op[t], backup, b)
    BY ZenonT(60), <1>1, <1>4, <2>1, CallHolds, WholeTruncate
  <2> QED
    BY <1>1, <1>3, <2>1, <2>2
<1>5. CASE op[t].kind # "ftruncate"
  <2>1. /\ op[t].lo \in 0..MaxBlocks /\ op[t].hi \in 0..MaxBlocks
    BY <1>5, MirrorOfWrite DEF Inv
  <2>2. op[t].lo + op[t].mirrored = op[t].lo
    BY <1>2, <2>1
  <2>3. PICK n \in 1..op[t].hi - op[t].lo :
          /\ n \in 1..MaxBlocks /\ (~ShortMirrors => op[t].lo + n = op[t].hi)
          /\ backup' = WriteBlocks(backup, op[t].lo, Data(n, op[t].value))
          /\ op[t].lo + n = op[t].hi =>
               /\ op' = [op EXCEPT ![t].mirrored = 0]
               /\ pc' = [pc EXCEPT ![t] = "unlocking"]
    BY <1>5, <2>2, MirrorOfWrite DEF Inv
  <2>4. op[t].lo + n = op[t].hi
    BY <2>3 DEF WholeWrites
  <2>5. n = op[t].hi - op[t].lo
    BY <2>1, <2>4
  <2>6. \A b \in Blocks : backup'[b] = Applied(op[t], backup, b)
    <3>1. backup' = WriteBlocks(backup, op[t].lo, Data(op[t].hi - op[t].lo, op[t].value))
      BY <2>3, <2>5
    <3>2. /\ op[t] \in Calls /\ op[t].lo \in 0..MaxBlocks /\ op[t].lo < op[t].hi
          /\ op[t].hi <= MaxBlocks /\ op[t].value \in Values
      BY <1>1, <1>5, CallHolds
    <3> QED
      BY <1>5, <3>1, <3>2, WholeWrite
  <2> QED
    BY <1>1, <1>3, <2>3, <2>4, <2>6
<1> QED
  BY <1>4, <1>5

----------------------------------------------------------------------------
(*              The application's steps keep the copy consistent           *)

LEMMA OthersStay ==
    ASSUME Inv, NEW t \in AppThreads, AppNext(t)
    PROVE  /\ \A u \in AppThreads \ {t} :
                /\ pc'[u] = pc[u] /\ op'[u] = op[u]
                /\ InFlight(u)' <=> InFlight(u)
           /\ UNCHANGED copyVars /\ session' = session
           /\ pc \in [AppThreads -> Pcs] /\ op \in [AppThreads -> Calls]
<1>1. /\ \A u \in AppThreads \ {t} : pc'[u] = pc[u] /\ op'[u] = op[u]
      /\ UNCHANGED copyVars /\ session' = session
  BY AppStepIsLocal DEF Inv
<1> QED
  BY <1>1 DEF InFlight, Inv, TypeInv, TypeOK

LEMMA AppStepKeepsDescription ==
    ASSUME WholeWrites, Inv, NEW t \in AppThreads, AppNext(t)
    PROVE  DescriptionInv'
<1> DEFINE OK(u) ==
      /\ pc[u] \in {"locking", "locked"} /\ op[u].kind = "write" =>
           descLock = u /\ op[u].lo = offset
      /\ InFlight(u) => op[u].at = op[u].lo
      /\ op[u].mirrored = 0
<1>1. \A u \in AppThreads : OK(u)
  BY DEF Inv, ConsistencyInv, DescriptionInv
<1>2. NoOne \notin AppThreads
  BY CaptureCopyAssumption
<1>3. pc \in [AppThreads -> Pcs] /\ op \in [AppThreads -> Calls]
  BY OthersStay
<1>4. SUFFICES OK(t)' /\ \A u \in AppThreads \ {t} :
                 descLock = u /\ pc[u] \in {"locking", "locked"} /\ op[u].kind = "write" =>
                   descLock' = u /\ offset' = offset
  BY <1>1, OthersStay DEF DescriptionInv
<1>5. CASE BeginWrite(t)
  <2>1. PICK call \in Calls :
          /\ Begin(t, call) /\ call.kind = "write" /\ call.lo = offset
          /\ call.mirrored = 0
    BY <1>5, CallsBegun DEF Inv
  <2>2. op'[t] = call /\ pc'[t] = "locking"
    BY <1>3, <2>1 DEF Begin
  <2>3. descLock = NoOne /\ descLock' = t /\ offset' = offset
    BY <1>5 DEF BeginWrite
  <2> QED
    BY <1>2, <2>1, <2>2, <2>3 DEF InFlight
<1>6. CASE BeginPwrite(t) \/ BeginFtruncate(t)
  <2>1. PICK call \in Calls : Begin(t, call) /\ call.kind # "write" /\ call.mirrored = 0
    BY <1>6, CallsBegun DEF Inv
  <2>2. op'[t] = call /\ pc'[t] = "locking"
    BY <1>3, <2>1 DEF Begin
  <2>3. UNCHANGED <<descLock, offset>>
    BY <1>6 DEF BeginPwrite, BeginFtruncate
  <2> QED
    BY <2>1, <2>2, <2>3 DEF InFlight
<1>7. CASE Read(t) \/ Seek(t)
  BY <1>1, <1>2, <1>7 DEF Read, Seek, MoveOffset, InFlight
<1>8. CASE RealCall(t)
  <2>1. /\ pc[t] = "locked" /\ pc'[t] = "done on source"
        /\ op'[t].at = op[t].lo /\ op'[t].lo = op[t].lo /\ op'[t].mirrored = op[t].mirrored
    BY <1>8, RealCallEffect, RealCallKeepsCall
  <2>2. /\ op[t].kind = "write" => descLock = t
        /\ op[t].kind # "write" => UNCHANGED <<offset, descLock>>
    BY <1>1, <1>8, <2>1, RealCallEffect
  <2> QED
    BY <1>1, <2>1, <2>2 DEF InFlight
<1>9. CASE Mirror(t)
  <2>1. op' = op /\ UNCHANGED <<offset, descLock>> /\ pc'[t] = "unlocking"
    BY <1>3, <1>9, MirrorEffect
  <2> QED
    BY <1>1, <2>1 DEF InFlight
<1>10. CASE GetRangeLock(t) \/ RealCallFails(t)
  <2>1. UNCHANGED <<op, descLock, offset>>
    BY <1>10 DEF GetRangeLock, RealCallFails
  <2>2. \/ pc[t] = "locking" /\ pc'[t] = "locked"
        \/ pc'[t] = "unlocking"
    BY <1>3, <1>10 DEF GetRangeLock, RealCallFails
  <2> QED
    BY <1>1, <2>1, <2>2 DEF InFlight
<1>11. CASE EnterSession(t) \/ MirrorFails(t) \/ SetError(t)
  <2>1. UNCHANGED <<op, descLock, offset>>
    BY <1>11 DEF EnterSession, MirrorFails, SetError
  <2>2. InFlight(t) /\ pc'[t] \in {"in session", "failed", "unlocking"}
    BY <1>3, <1>11 DEF EnterSession, MirrorFails, SetError, InFlight
  <2> QED
    BY <1>1, <2>1, <2>2 DEF InFlight
<1>12. CASE EndCall(t)
  <2>1. /\ UNCHANGED <<descLock, offset>> /\ pc'[t] = "idle" /\ op'[t] = NoCall
    BY <1>3, <1>12 DEF EndCall
  <2> QED
    BY <2>1 DEF InFlight, NoCall, Call
<1>13. CASE LockWaits(t)
  BY <1>1, <1>13 DEF LockWaits, appVars, InFlight
<1> QED
  BY <1>5, <1>6, <1>7, <1>8, <1>9, <1>10, <1>11, <1>12, <1>13 DEF AppNext

(* Only RealCall changes the source, and only with it does a call come to  *)
(* be in flight.                                                           *)
LEMMA SourceStays ==
    ASSUME WholeWrites, Inv, NEW t \in AppThreads, AppNext(t), ~RealCall(t)
    PROVE  /\ source' = source
           /\ InFlight(t)' => InFlight(t) /\ op'[t] = op[t]
<1> USE DEF InFlight
<1>1. pc \in [AppThreads -> Pcs] /\ op \in [AppThreads -> Calls]
  BY OthersStay
<1>2. CASE BeginWrite(t) \/ BeginPwrite(t) \/ BeginFtruncate(t)
  BY <1>1, <1>2 DEF BeginWrite, BeginPwrite, BeginFtruncate, Begin, fileVars
<1>3. CASE Mirror(t)
  BY <1>1, <1>3, MirrorEffect
<1>4. CASE \/ Read(t) \/ Seek(t) \/ GetRangeLock(t) \/ RealCallFails(t)
           \/ EnterSession(t) \/ MirrorFails(t) \/ SetError(t) \/ LockWaits(t)
  BY <1>1, <1>4 DEF Read, Seek, MoveOffset, GetRangeLock, RealCallFails, EnterSession,
     MirrorFails, SetError, LockWaits, fileVars, appVars
<1>5. CASE EndCall(t)
  BY <1>1, <1>5 DEF EndCall, fileVars
<1> QED
  BY <1>2, <1>3, <1>4, <1>5 DEF AppNext

LEMMA AppStepKeepsSource ==
    ASSUME WholeWrites, Inv, NEW t \in AppThreads, AppNext(t)
    PROVE  SourceInv'
<1> USE BoundsAreNumbers
<1> DEFINE OK(u) == \A b \in Blocks :
      /\ b < op[u].lo => source[b] # Eof
      /\ op[u].lo <= b /\ b < op[u].hi => source[b] = Written(op[u], b)
<1>1. \A u \in AppThreads : InFlight(u) => OK(u)
  BY DEF Inv, ConsistencyInv, SourceInv
<1>2. CASE ~RealCall(t)
  BY <1>1, <1>2, SourceStays, OthersStay DEF SourceInv, Written
<1>3. CASE RealCall(t)
  <2>1. /\ \A b \in Blocks : source'[b] = Applied(op[t], source, b)
        /\ pc[t] = "locked"
    BY <1>3, RealCallEffect
  <2>2. /\ op[t].lo \in 0..MaxBlocks /\ op[t].hi \in 0..MaxOffset
        /\ op[t].lo < op[t].hi
        /\ op[t].kind = "ftruncate" => op[t].hi = MaxOffset
    BY <2>1, CallHolds
  <2>3. /\ op'[t].kind = op[t].kind /\ op'[t].lo = op[t].lo /\ op'[t].hi = op[t].hi
        /\ op'[t].value = op[t].value
    BY <1>3, RealCallKeepsCall
  <2>4. /\ Zero # Eof
        /\ \A b \in Blocks : op[t].kind # "ftruncate" /\ op[t].lo <= b =>
             Written(op[t], b) # Eof
    BY <2>2 DEF Zero, Eof, Written, Blocks
  <2>5. OK(t)'
    BY <2>1, <2>2, <2>3, <2>4 DEF Applied, Written
  <2>6. ASSUME NEW u \in AppThreads \ {t}, InFlight(u)
        PROVE  OK(u)'
    <3>1. /\ op'[u] = op[u] /\ op[u].lo \in 0..MaxBlocks /\ op[u].hi \in 0..MaxOffset
          /\ op[u].lo < op[u].hi
          /\ op[u].kind = "ftruncate" => op[u].hi = MaxOffset
      BY <2>6, OthersStay, CallHolds
    <3>2. \A b \in 0..MaxOffset :
            ~(op[t].lo <= b /\ b < op[t].hi /\ op[u].lo <= b /\ b < op[u].hi)
      BY <2>1, <2>6, CallsAreApart
    <3>3. OK(u)
      BY <1>1, <2>6
    <3>4. ASSUME NEW b \in Blocks, b < op[u].lo
          PROVE  source'[b] # Eof
      <4>1. source[b] # Eof
        BY <3>3, <3>4
      <4>2. CASE op[t].lo <= b /\ b < op[t].hi
        <5>1. op[t].kind # "ftruncate"
          <6>1. op[u].lo \in 0..MaxOffset /\ op[u].lo < MaxOffset
            BY <3>1
          <6> QED
            BY <2>2, <3>1, <3>2, <3>4, <4>2, <6>1
        <5> QED
          BY <2>1, <2>4, <4>2, <5>1 DEF Applied
      <4>3. CASE ~(op[t].lo <= b /\ b < op[t].hi)
        BY <2>1, <4>1, <4>3 DEF Applied
      <4> QED
        BY <4>2, <4>3
    <3>5. ASSUME NEW b \in Blocks, op[u].lo <= b, b < op[u].hi
          PROVE  source'[b] = Written(op[u], b)
      <4>1. source[b] = Written(op[u], b) /\ b \in 0..MaxOffset
        BY <3>3, <3>5
      <4>2. ~(op[t].lo <= b /\ b < op[t].hi)
        BY <3>2, <3>5, <4>1
      <4>3. CASE b < op[t].lo /\ source[b] = Eof
        <5>1. op[u].kind = "ftruncate"
          BY <3>1, <3>5, <4>1, <4>3 DEF Written, Eof, Blocks
        <5>2. op[t].lo \in 0..MaxOffset /\ op[u].lo <= op[t].lo /\ op[t].lo < op[u].hi
          BY <2>2, <3>1, <3>5, <4>3, <5>1
        <5> QED
          BY <2>2, <3>2, <5>2
      <4>4. CASE ~(b < op[t].lo /\ source[b] = Eof)
        BY <2>1, <4>1, <4>2, <4>4 DEF Applied
      <4> QED
        BY <4>3, <4>4
    <3> QED
      BY <3>1, <3>4, <3>5 DEF Written
  <2> QED
    BY <2>5, <2>6, OthersStay DEF SourceInv
<1> QED
  BY <1>2, <1>3

LEMMA AppStepKeepsBuffer ==
    ASSUME WholeWrites, Inv, NEW t \in AppThreads, AppNext(t)
    PROVE  BufferInv'
<1> USE BoundsAreNumbers
<1>1. bpc' = bpc /\ buffer' = buffer /\ copied' = copied
  BY OthersStay DEF copyVars
<1>2. BufferInv
  BY DEF Inv, ConsistencyInv
<1>3. CASE ~RealCall(t)
  BY <1>1, <1>2, <1>3, SourceStays DEF BufferInv
<1>4. CASE RealCall(t) /\ bpc = "writing"
  <2>1. /\ \A b \in Blocks : source'[b] = Applied(op[t], source, b)
        /\ pc[t] = "locked"
    BY <1>4, RealCallEffect
  <2>2. /\ copied \in Nat /\ Len(buffer) \in Nat
        /\ copied + Len(buffer) <= MaxBlocks
    <3>1. copied \in 0..MaxBlocks /\ buffer \in Seq(Contents)
      BY DEF Inv, TypeInv, TypeOK
    <3> QED
      BY <1>4, <3>1 DEF Inv, TypeInv, RangesInv, CopierRangeInv
  <2>3. ASSUME NEW i \in 1..Len(buffer)
        PROVE  buffer[i] = source'[copied + i - 1] /\ buffer[i] # Eof
    <3> DEFINE b == copied + i - 1
    <3>1. b \in Blocks /\ b \in 0..MaxOffset /\ copied <= b /\ b < copied + Len(buffer)
      BY <2>2
    <3>2. buffer[i] = source[b] /\ buffer[i] # Eof
      BY <1>2, <1>4 DEF BufferInv
    <3> HIDE DEF b
    <3>3. ~(op[t].lo <= b /\ b < op[t].hi)
      BY <1>4, <2>1, <3>1, CopierIsApart
    <3>4. source'[b] = source[b]
      BY <2>1, <3>1, <3>2, <3>3 DEF Applied
    <3> QED
      BY <3>2, <3>4 DEF b
  <2> QED
    BY <1>1, <2>3 DEF BufferInv
<1> QED
  BY <1>1, <1>3, <1>4 DEF BufferInv

(* What a call leaves unsettled, and what one settles by not being there.  *)
LEMMA AppStepKeepsAgreement ==
    ASSUME WholeWrites, Inv, NEW t \in AppThreads, AppNext(t)
    PROVE  AgreementInv'
<1> USE BoundsAreNumbers
<1> DEFINE Missing(u, b) ==
      \/ op[u].at <= b /\ b < op[u].at + op[u].hi - op[u].lo
      \/ b < op[u].at /\ source[b] = Zero /\ backup[b] = Eof
<1> DEFINE Agrees(b) == /\ b < copied \/ CopyIsComplete => backup[b] = source[b]
                        /\ source[b] = Eof => backup[b] = Eof
<1>1. \A b \in Blocks : Settled(b) <=> \A u \in AppThreads : InFlight(u) => ~Missing(u, b)
  BY DEF Settled
<1>2. \A b \in Blocks :
        Settled(b)' <=> \A u \in AppThreads : InFlight(u)' => ~Missing(u, b)'
  BY DEF Settled
<1>3. /\ UNCHANGED copyVars /\ session' = session /\ CopyIsComplete' = CopyIsComplete
      /\ \A u \in AppThreads \ {t} : op'[u] = op[u] /\ (InFlight(u)' <=> InFlight(u))
  BY OthersStay DEF copyVars, CopyIsComplete
<1>4. AgreementInv
  BY DEF Inv, ConsistencyInv
<1>5. SUFFICES ASSUME session, copyEnabled', NEW b \in Blocks, Settled(b)'
               PROVE  Agrees(b)'
  BY <1>3 DEF AgreementInv
<1>6. \A u \in AppThreads : InFlight(u) => op[u].at = op[u].lo
  BY DEF Inv, ConsistencyInv, DescriptionInv
<1>7. CASE RealCall(t)
  <2>1. /\ source'[b] = Applied(op[t], source, b) /\ backup' = backup
        /\ pc[t] = "locked" /\ copyEnabled' = copyEnabled
    BY <1>7, RealCallEffect DEF mgrVars
  <2>2. /\ op[t].lo \in 0..MaxBlocks /\ op[t].hi \in 0..MaxOffset
        /\ op[t].lo + op[t].hi - op[t].lo = op[t].hi
    BY <2>1, CallHolds
  <2>3. /\ op'[t].at = op[t].lo /\ op'[t].lo = op[t].lo /\ op'[t].hi = op[t].hi
        /\ InFlight(t)'
    BY <1>7, RealCallKeepsCall DEF InFlight
  <2>4. /\ ~(op[t].lo <= b /\ b < op[t].hi)
        /\ ~(b < op[t].lo /\ source'[b] = Zero /\ backup[b] = Eof)
    BY <1>2, <1>5, <2>1, <2>2, <2>3
  <2>5. CASE source'[b] = source[b]
    <3>1. Settled(b)
      <4>1. \A u \in AppThreads \ {t} : InFlight(u) => ~Missing(u, b)
        BY <1>2, <1>3, <1>5, <2>1, <2>5
      <4> QED
        BY <1>1, <2>1, <4>1 DEF InFlight
    <3>2. Agrees(b)
      BY <1>4, <1>5, <2>1, <3>1 DEF AgreementInv
    <3> QED
      BY <1>3, <2>1, <2>5, <3>2 DEF copyVars
  <2>6. CASE source'[b] # source[b]
    <3>1. source[b] = Eof /\ source'[b] = Zero /\ backup[b] # Eof /\ Eof # Zero
      BY <2>1, <2>4, <2>6 DEF Applied, Eof, Zero
    <3>2. Settled(b)
      <4>1. \A u \in AppThreads \ {t} : InFlight(u) => ~Missing(u, b)
        BY <1>2, <1>3, <1>5, <2>1, <3>1
      <4> QED
        BY <1>1, <2>1, <4>1 DEF InFlight
    <3>3. backup[b] = Eof
      BY <1>4, <1>5, <2>1, <3>1, <3>2 DEF AgreementInv
    <3> QED
      BY <3>1, <3>3
  <2> QED
    BY <2>5, <2>6
<1>8. CASE Mirror(t)
  <2>1. /\ backup'[b] = Applied(op[t], backup, b) /\ source' = source /\ op' = op
        /\ InFlight(t) /\ copyEnabled' = copyEnabled
    BY <1>8, MirrorEffect DEF InFlight
  <2>2. /\ op[t].lo \in 0..MaxBlocks /\ op[t].hi \in 0..MaxOffset
        /\ op[t].lo + op[t].hi - op[t].lo = op[t].hi
    BY <2>1, CallHolds
  <2>3. /\ b < op[t].lo => source[b] # Eof
        /\ op[t].lo <= b /\ b < op[t].hi => source[b] = Written(op[t], b)
    BY <2>1 DEF Inv, ConsistencyInv, SourceInv
  <2>4. \A u \in AppThreads \ {t} : InFlight(u) => ~Missing(u, b)'
    BY <1>2, <1>3, <1>5
  <2>5. CASE op[t].lo <= b /\ b < op[t].hi
    <3>1. backup'[b] = source'[b]
      BY <2>1, <2>3, <2>5 DEF Applied
    <3> QED
      BY <3>1
  <2>6. CASE ~(op[t].lo <= b /\ b < op[t].hi) /\ backup'[b] = backup[b]
             /\ ~(b < op[t].lo /\ backup[b] = Eof)
    <3>1. ~Missing(t, b)
      BY <1>6, <2>1, <2>2, <2>6
    <3>2. \A u \in AppThreads \ {t} : InFlight(u) => ~Missing(u, b)
      BY <2>1, <2>4, <2>6
    <3>3. Settled(b)
      BY <1>1, <3>1, <3>2
    <3>4. Agrees(b)
      BY <1>4, <1>5, <2>1, <3>3 DEF AgreementInv
    <3> QED
      BY <1>3, <2>1, <2>6, <3>4 DEF copyVars
  <2>7. CASE b < op[t].lo /\ backup[b] = Eof
    <3>1. backup'[b] = Zero /\ source[b] # Eof
      BY <2>1, <2>2, <2>3, <2>7 DEF Applied
    <3>2. CASE source[b] = Zero
      BY <2>1, <3>1, <3>2
    <3>3. CASE source[b] # Zero
      <4>1. ~Missing(t, b)
        BY <1>6, <2>1, <2>2, <2>7, <3>3
      <4>2. \A u \in AppThreads \ {t} : InFlight(u) => ~Missing(u, b)
        BY <2>1, <2>4, <3>3
      <4>3. Settled(b)
        BY <1>1, <4>1, <4>2
      <4>4. Agrees(b)
        BY <1>4, <1>5, <2>1, <4>3 DEF AgreementInv
      <4>5. ~(b < copied \/ CopyIsComplete)
        BY <2>7, <3>1, <4>4
      <4> QED
        BY <1>3, <2>1, <3>1, <4>5 DEF copyVars
    <3> QED
      BY <3>2, <3>3
  <2>8. \/ op[t].lo <= b /\ b < op[t].hi
        \/ b < op[t].lo /\ backup[b] = Eof
        \/ /\ ~(op[t].lo <= b /\ b < op[t].hi) /\ backup'[b] = backup[b]
           /\ ~(b < op[t].lo /\ backup[b] = Eof)
    BY <2>1 DEF Applied
  <2> QED
    BY <2>5, <2>6, <2>7, <2>8
<1>9. ASSUME source' = source, backup' = backup, copyEnabled' = copyEnabled,
             \/ op'[t] = op[t] /\ (InFlight(t)' <=> InFlight(t))
             \/ ~InFlight(t)
      PROVE  Agrees(b)'
  <2>1. Settled(b)
    <3>1. \A u \in AppThreads : InFlight(u) => ~Missing(u, b)
      BY <1>2, <1>3, <1>5, <1>9
    <3> QED
      BY <1>1, <3>1
  <2>2. Agrees(b)
    BY <1>4, <1>5, <1>9, <2>1 DEF AgreementInv
  <2> QED
    BY <1>3, <1>9, <2>2 DEF copyVars
<1>10. pc \in [AppThreads -> Pcs]
  BY OthersStay
<1>11. CASE BeginWrite(t) \/ BeginPwrite(t) \/ BeginFtruncate(t)
  <2>1. pc[t] = "idle"
    BY <1>11 DEF BeginWrite, BeginPwrite, BeginFtruncate, Begin
  <2> QED
    BY <1>9, <1>11, <2>1
       DEF BeginWrite, BeginPwrite, BeginFtruncate, fileVars, mgrVars, InFlight
<1>12. CASE Read(t) \/ Seek(t) \/ LockWaits(t)
  BY <1>9, <1>12 DEF Read, Seek, MoveOffset, LockWaits, fileVars, mgrVars, appVars, InFlight
<1>13. CASE GetRangeLock(t) \/ RealCallFails(t) \/ EndCall(t)
  BY <1>9, <1>13 DEF GetRangeLock, RealCallFails, EndCall, fileVars, mgrVars, InFlight
<1>14. CASE EnterSession(t)
  <2>1. pc[t] = "done on source" /\ pc'[t] = "in session" /\ UNCHANGED <<op, copyEnabled, fileVars>>
    BY <1>5, <1>10, <1>14 DEF EnterSession
  <2> QED
    BY <1>9, <2>1 DEF InFlight, fileVars
<1>15. CASE MirrorFails(t)
  BY <1>5, <1>15 DEF MirrorFails
<1>16. CASE SetError(t)
  BY <1>5, <1>16 DEF SetError, Inv, SessionInv
<1> QED
  BY <1>7, <1>8, <1>11, <1>12, <1>13, <1>14, <1>15, <1>16 DEF AppNext

LEMMA AppStepKeepsResult ==
    ASSUME WholeWrites, Inv, NEW t \in AppThreads, AppNext(t)
    PROVE  ResultInv'
<1>1. /\ UNCHANGED copyVars /\ session' = session
      /\ \A u \in AppThreads \ {t} : pc'[u] = pc[u]
      /\ pc \in [AppThreads -> Pcs]
  BY OthersStay
<1>2. ResultInv /\ SessionInv
  BY DEF Inv, ConsistencyInv
<1>3. bpc \in {"idle", "reporting"} => ~session
  BY <1>2 DEF SessionInv
<1>4. CASE MirrorFails(t)
  <2>1. pc'[t] = "failed" /\ session
    BY <1>1, <1>2, <1>4 DEF MirrorFails, SessionInv
  <2> QED
    BY <1>1, <1>3, <2>1 DEF ResultInv, copyVars
<1>5. CASE SetError(t)
  <2>1. errorHappened' /\ session
    BY <1>1, <1>2, <1>5 DEF SetError, SessionInv
  <2> QED
    BY <1>1, <1>3, <2>1 DEF ResultInv, copyVars
<1>6. CASE ~MirrorFails(t) /\ ~SetError(t)
  <2>1. copyEnabled' = copyEnabled /\ errorHappened' = errorHappened
    BY <1>6 DEF AppNext, BeginWrite, BeginPwrite, BeginFtruncate, Read, Seek, MoveOffset,
       GetRangeLock, RealCall, RealCallFails, EnterSession, Mirror, EndCall, LockWaits,
       mgrVars
  <2>2. pc[t] # "failed"
        \/ pc'[t] = pc[t]
    BY <1>1, <1>6 DEF AppNext, BeginWrite, BeginPwrite, BeginFtruncate, Begin, Read, Seek,
       MoveOffset, GetRangeLock, RealCall, RealCallFails, EnterSession, Mirror, EndCall,
       LockWaits, appVars
  <2>3. backup' = backup \/ session
    <3>1. CASE Mirror(t)
      BY <1>2, <3>1 DEF Mirror, SessionInv
    <3>2. CASE ~Mirror(t)
      BY <1>6, <3>2 DEF AppNext, BeginWrite, BeginPwrite, BeginFtruncate, Read, Seek,
         MoveOffset, GetRangeLock, RealCall, RealCallFails, EnterSession, EndCall,
         LockWaits, fileVars
    <3> QED
      BY <3>1, <3>2
  <2>4. \A u \in AppThreads : pc[u] = "failed" => pc'[u] = "failed"
    BY <1>1, <2>2
  <2> QED
    BY <1>1, <1>2, <1>3, <2>1, <2>3, <2>4 DEF ResultInv, copyVars
<1> QED
  BY <1>4, <1>5, <1>6

LEMMA AppStepKeepsConsistency ==
    ASSUME WholeWrites, Inv, NEW t \in AppThreads, AppNext(t)
    PROVE  ConsistencyInv'
  BY AppStepKeepsDescription, AppStepKeepsSource, AppStepKeepsBuffer,
     AppStepKeepsAgreement, AppStepKeepsResult DEF ConsistencyInv

----------------------------------------------------------------------------
(*                The backup thread keeps the copy consistent              *)

(* The session's begin and end, and what the copier does between two       *)
(* chunks, leave the blocks alone.                                         *)
LEMMA CopierKeepsCalls ==
    ASSUME WholeWrites, Inv, CopierNext
    PROVE  /\ DescriptionInv' /\ SourceInv'
           /\ source' = source /\ op' = op /\ pc' = pc /\ inSession' = inSession
<1>1. UNCHANGED appVars /\ source' = source /\ inSession' = inSession
  BY CopierStepIsLocal DEF Inv
<1>2. op' = op /\ pc' = pc /\ descLock' = descLock /\ offset' = offset
  BY <1>1 DEF appVars
<1>3. DescriptionInv /\ SourceInv
  BY DEF Inv, ConsistencyInv
<1>4. DescriptionInv'
  BY <1>2, <1>3 DEF DescriptionInv, InFlight
<1>5. SourceInv'
  BY <1>1, <1>2, <1>3 DEF SourceInv, Written, InFlight
<1> QED
  BY <1>1, <1>2, <1>4, <1>5

LEMMA ReadKeepsConsistency ==
    ASSUME WholeWrites, Inv, ReadChunk
    PROVE  BufferInv' /\ AgreementInv'
<1> USE BoundsAreNumbers
<1>1. UNCHANGED <<fileVars, appVars, mgrVars, copied, rc>> /\ bpc = "reading"
  BY DEF ReadChunk
<1>2. PICK len \in 0..Chunk :
        /\ len > 0 => copied + len <= Size(source)
        /\ len = 0 => Size(source) <= copied
        /\ Len(buffer') = len
        /\ \A i \in 1..len : /\ buffer'[i] = source[copied + i - 1]
                             /\ copied + i - 1 \in Blocks
        /\ bpc' = IF len = 0 THEN "unlocking at end" ELSE "writing"
  BY ChunkRead DEF Inv
<1>3. /\ Size(source) \in 0..MaxBlocks /\ HasSize(source, Size(source))
      /\ copied \in 0..MaxBlocks
  BY SizeIsTheSize DEF Inv, TypeInv, TypeOK
<1>4. BufferInv'
  <2>1. ASSUME NEW i \in 1..len
        PROVE  buffer'[i] = source[copied + i - 1] /\ buffer'[i] # Eof
    <3>1. buffer'[i] = source[copied + i - 1] /\ copied + i - 1 \in Blocks
      BY <1>2
    <3>2. copied + i - 1 < Size(source)
      <4>1. i <= len /\ i \in Int /\ len > 0
        OBVIOUS
      <4>2. copied + len <= Size(source)
        BY <1>2, <4>1
      <4> QED
        BY <1>3, <4>1, <4>2
    <3>3. source[copied + i - 1] # Eof
      BY <1>3, <3>1, <3>2 DEF HasSize
    <3> QED
      BY <3>1, <3>3
  <2> QED
    BY <1>1, <1>2, <2>1 DEF BufferInv, fileVars
<1>5. AgreementInv'
  <2>1. source' = source /\ backup' = backup /\ op' = op /\ pc' = pc /\ copied' = copied
        /\ session' = session /\ copyEnabled' = copyEnabled
    BY <1>1 DEF fileVars, appVars, mgrVars
  <2>2. \A b \in Blocks : Settled(b)' <=> Settled(b)
    BY <2>1 DEF Settled, InFlight
  <2>3. AgreementInv /\ ~CopyIsComplete
    BY <1>1 DEF Inv, ConsistencyInv, CopyIsComplete
  <2>4. CASE len = 0
    <3>1. \A b \in Blocks : ~(b < copied) => source[b] = Eof
      <4>1. Size(source) <= copied
        BY <1>2, <2>4
      <4> QED
        BY <1>3, <4>1 DEF HasSize
    <3>2. ASSUME session, copyEnabled, NEW b \in Blocks, Settled(b)
          PROVE  /\ b < copied => backup[b] = source[b]
                 /\ source[b] = Eof => backup[b] = Eof
      BY <2>3, <3>2 DEF AgreementInv
    <3> QED
      BY <2>1, <2>2, <3>1, <3>2 DEF AgreementInv
  <2>5. CASE len # 0
    <3>1. ~CopyIsComplete'
      BY <1>2, <2>5 DEF CopyIsComplete
    <3> QED
      BY <2>1, <2>2, <2>3, <3>1 DEF AgreementInv
  <2> QED
    BY <2>4, <2>5
<1> QED
  BY <1>4, <1>5

LEMMA WriteKeepsConsistency ==
    ASSUME WholeWrites, Inv, WriteChunk
    PROVE  BufferInv' /\ AgreementInv'
<1> USE BoundsAreNumbers
<1>1. /\ bpc = "writing" /\ source' = source /\ UNCHANGED <<appVars, mgrVars>>
  BY DEF WriteChunk
<1>2. PICK n \in 1..Len(buffer) :
        /\ backup' = WriteBlocks(backup, copied, SubSeq(buffer, 1, n))
        /\ copied' = copied + n
        /\ buffer' = SubSeq(buffer, n + 1, Len(buffer))
        /\ bpc' = IF n = Len(buffer) THEN "unlocking" ELSE "writing"
  BY DEF WriteChunk
<1>3. /\ n \in 1..MaxBlocks /\ Len(buffer) \in Nat
      /\ Len(SubSeq(buffer, 1, n)) = n
      /\ \A i \in 1..n : SubSeq(buffer, 1, n)[i] = buffer[i]
      /\ Len(buffer') = Len(buffer) - n
      /\ \A i \in 1..Len(buffer) - n : buffer'[i] = buffer[n + i]
  BY <1>1, <1>2, PartOfBuffer DEF Inv
<1>4. copied \in 0..MaxBlocks /\ copied + Len(buffer) <= MaxBlocks /\ n <= Len(buffer)
  <2>1. copied \in 0..MaxBlocks /\ copied + Len(buffer) <= MaxBlocks
    BY <1>1 DEF Inv, TypeInv, TypeOK, RangesInv, CopierRangeInv
  <2> QED
    BY <1>3, <2>1
<1>5. \A i \in 1..Len(buffer) : buffer[i] = source[copied + i - 1] /\ buffer[i] # Eof
  BY <1>1 DEF Inv, ConsistencyInv, BufferInv
<1>6. BufferInv'
  <2>1. ASSUME NEW i \in 1..Len(buffer')
        PROVE  buffer'[i] = source[copied + n + i - 1] /\ buffer'[i] # Eof
    <3>1. i \in 1..Len(buffer) - n
      BY <1>3
    <3>2. n + i \in 1..Len(buffer) /\ copied + (n + i) - 1 = copied + n + i - 1
      BY <1>3, <1>4, <3>1
    <3> QED
      BY <1>3, <1>5, <3>1, <3>2
  <2> QED
    BY <1>1, <1>2, <2>1 DEF BufferInv
<1>7. \A b \in Blocks : b < copied => source[b] # Eof
  <2>1. 1 \in 1..Len(buffer) /\ copied + 1 - 1 = copied /\ copied \in Blocks
    BY <1>3, <1>4
  <2>2. source[copied] # Eof
    BY <1>5, <2>1
  <2>3. PICK size \in 0..MaxBlocks : HasSize(source, size)
    BY DEF Inv, TypeInv, IsFile
  <2> QED
    BY <1>4, <2>1, <2>2, <2>3 DEF HasSize
<1>8. \A b \in Blocks :
        IF copied <= b /\ b < copied + n THEN backup'[b] = source[b]
        ELSE backup'[b] = IF b < copied /\ backup[b] = Eof THEN Zero ELSE backup[b]
  <2> TAKE b \in Blocks
  <2> DEFINE data == SubSeq(buffer, 1, n)
  <2>1. Len(data) = n /\ data # <<>>
    <3>1. Len(data) = n /\ n # 0
      BY <1>3
    <3> HIDE DEF data
    <3> QED
      BY <3>1
  <2>2. backup'[b] = IF copied <= b /\ b < copied + n THEN data[b - copied + 1]
                     ELSE IF b < copied /\ backup[b] = Eof THEN Zero
                     ELSE backup[b]
    <3> HIDE DEF data
    <3>1. backup' = WriteBlocks(backup, copied, data)
      BY <1>2 DEF data
    <3> QED
      BY <2>1, <3>1 DEF WriteBlocks
  <2>3. CASE copied <= b /\ b < copied + n
    <3>1. b - copied + 1 \in 1..n /\ copied + (b - copied + 1) - 1 = b
          /\ b - copied + 1 \in 1..Len(buffer)
      BY <1>3, <1>4, <2>3
    <3>2. data[b - copied + 1] = buffer[b - copied + 1]
      BY <1>3, <3>1
    <3>3. buffer[b - copied + 1] = source[copied + (b - copied + 1) - 1]
      BY <1>5, <3>1
    <3> QED
      BY <2>2, <2>3, <3>1, <3>2, <3>3
  <2>4. CASE ~(copied <= b /\ b < copied + n)
    BY <2>2, <2>4
  <2> QED
    BY <2>3, <2>4
<1>9. AgreementInv'
  <2>1. /\ op' = op /\ pc' = pc /\ session' = session /\ copyEnabled' = copyEnabled
        /\ \A t \in AppThreads : InFlight(t)' <=> InFlight(t)
    BY <1>1 DEF appVars, mgrVars, InFlight
  <2>2. AgreementInv /\ ~CopyIsComplete'
    BY <1>2 DEF Inv, ConsistencyInv, CopyIsComplete
  <2>3. SUFFICES ASSUME session, copyEnabled, NEW b \in Blocks, Settled(b)'
                 PROVE  /\ b < copied + n => backup'[b] = source[b]
                        /\ source[b] = Eof => backup'[b] = Eof
    BY <1>1, <1>2, <2>1, <2>2 DEF AgreementInv
  <2>4. \A t \in AppThreads : InFlight(t) =>
          /\ ~(op[t].at <= b /\ b < op[t].at + op[t].hi - op[t].lo)
          /\ ~(b < op[t].at /\ source[b] = Zero /\ backup'[b] = Eof)
    BY <1>1, <2>1, <2>3 DEF Settled
  <2>5. Settled(b) => /\ b < copied => backup[b] = source[b]
                      /\ source[b] = Eof => backup[b] = Eof
    BY <2>2, <2>3 DEF AgreementInv
  <2>6. CASE copied <= b /\ b < copied + n
    BY <1>8, <2>6
  <2>7. CASE ~(copied <= b /\ b < copied + n) /\ ~(b < copied /\ backup[b] = Eof)
    <3>1. backup'[b] = backup[b]
      BY <1>8, <2>7
    <3>2. Settled(b)
      BY <2>4, <3>1 DEF Settled
    <3> QED
      BY <1>4, <2>5, <2>7, <3>1, <3>2
  <2>8. CASE b < copied /\ backup[b] = Eof
    <3>1. backup'[b] = Zero /\ source[b] # Eof
      BY <1>4, <1>7, <1>8, <2>8
    <3>2. CASE source[b] # Zero
      <4>1. Settled(b)
        BY <2>4, <3>2 DEF Settled
      <4> QED
        BY <2>5, <2>8, <3>1, <4>1
    <3> QED
      BY <3>1, <3>2
  <2> QED
    BY <2>6, <2>7, <2>8
<1> QED
  BY <1>6, <1>9

LEMMA CopierStepKeepsConsistency ==
    ASSUME WholeWrites, Inv, CopierNext
    PROVE  ConsistencyInv'
<1>1. /\ DescriptionInv' /\ SourceInv'
      /\ source' = source /\ op' = op /\ pc' = pc /\ inSession' = inSession
  BY CopierKeepsCalls
<1>2. BufferInv /\ AgreementInv /\ ResultInv /\ SessionInv
  BY DEF Inv, ConsistencyInv
<1> SUFFICES BufferInv' /\ AgreementInv' /\ ResultInv'
  BY <1>1 DEF ConsistencyInv
<1>3. bpc' # "writing" => BufferInv'
  BY DEF BufferInv
<1>4. backup' = backup => \A b \in Blocks : Settled(b)' <=> Settled(b)
  BY <1>1 DEF Settled, InFlight
<1>5. ASSUME backup' = backup, copied' = copied, session' => session,
             copyEnabled' => copyEnabled, CopyIsComplete' => CopyIsComplete
      PROVE  AgreementInv'
  BY <1>1, <1>2, <1>4, <1>5 DEF AgreementInv
<1>6. ASSUME UNCHANGED <<session, copyEnabled, errorHappened>>,
             bpc' \notin {"idle", "reporting"}, rc' = "zero" => rc = "zero"
      PROVE  ResultInv'
  BY <1>1, <1>2, <1>6 DEF ResultInv
<1>7. CASE BeginBackup
  <2>1. ~session' /\ bpc' = "starting"
    BY <1>2, <1>7 DEF BeginBackup, SessionInv
  <2> QED
    BY <1>3, <2>1 DEF AgreementInv, ResultInv
<1>8. CASE OpenSession
  <2>1. /\ copied' = 0 /\ backup' = EmptyFile /\ bpc' \in {"copying", "stopping"}
        /\ copyEnabled' => bpc' = "copying"
        /\ rc' = "zero" => copyEnabled'
    BY <1>8 DEF OpenSession
  <2>2. AgreementInv'
    BY <2>1 DEF AgreementInv, CopyIsComplete, EmptyFile, Blocks
  <2> QED
    BY <1>3, <2>1, <2>2 DEF ResultInv
<1>9. CASE CloseSession
  <2>1. /\ ~session' /\ bpc' = "reporting" /\ backup' = backup /\ rc' = rc
        /\ errorHappened' = errorHappened /\ bpc = "stopping" /\ inSession = {}
        /\ sourceAtStop' = [b \in Blocks |-> IF Settled(b) THEN source[b] ELSE Unsettled]
    BY <1>9 DEF CloseSession, fileVars
  <2>2. session
    BY <1>2, <2>1 DEF SessionInv
  <2>3. CASE copyEnabled /\ rc = "zero"
    <3>1. \A b \in Blocks : Settled(b) => backup[b] = source[b]
      BY <1>2, <2>1, <2>2, <2>3 DEF AgreementInv, CopyIsComplete
    <3> QED
      BY <1>3, <2>1, <3>1 DEF AgreementInv, ResultInv
  <2>4. CASE ~copyEnabled /\ rc = "zero"
    <3>1. errorHappened
      BY <1>2, <2>1, <2>2, <2>4 DEF ResultInv, SessionInv
    <3> QED
      BY <1>3, <2>1, <3>1 DEF AgreementInv, ResultInv
  <2>5. CASE rc # "zero"
    BY <1>3, <2>1, <2>5 DEF AgreementInv, ResultInv
  <2> QED
    BY <2>3, <2>4, <2>5
<1>10. CASE EndBackup
  <2>1. /\ bpc = "reporting" /\ bpc' = "idle" /\ session' = session
        /\ backup' = backup /\ sourceAtStop' = sourceAtStop
        /\ rc' = IF errorHappened THEN "nonzero" ELSE rc
    BY <1>10 DEF EndBackup, fileVars, mgrVars
  <2>2. ~session'
    BY <1>2, <2>1 DEF SessionInv
  <2> QED
    BY <1>2, <1>3, <2>1, <2>2 DEF AgreementInv, ResultInv
<1>11. CASE CopyNext
  <2>1. /\ backup' = backup /\ copied' = copied /\ rc' = rc
        /\ UNCHANGED <<session, copyEnabled, errorHappened>>
        /\ bpc' \in {"locking", "stopping"} /\ (copyEnabled => bpc' = "locking")
    BY <1>11 DEF CopyNext, Quit, fileVars, mgrVars
  <2>2. AgreementInv'
    BY <1>5, <2>1 DEF AgreementInv, CopyIsComplete
  <2> QED
    BY <1>3, <1>6, <2>1, <2>2
<1>12. CASE PollAbortsBetweenChunks
  <2>1. /\ backup' = backup /\ copied' = copied /\ rc' = "nonzero"
        /\ UNCHANGED <<session, copyEnabled, errorHappened>> /\ bpc' = "stopping"
    BY <1>12 DEF PollAbortsBetweenChunks, Quit, fileVars, mgrVars
  <2> QED
    BY <1>3, <1>5, <1>6, <2>1 DEF CopyIsComplete
<1>13. CASE CopierGetsRangeLock
  <2>1. /\ backup' = backup /\ copied' = copied /\ rc' = rc
        /\ UNCHANGED <<session, copyEnabled, errorHappened>> /\ bpc' = "reading"
    BY <1>13 DEF CopierGetsRangeLock, fileVars, mgrVars
  <2> QED
    BY <1>3, <1>5, <1>6, <2>1 DEF CopyIsComplete
<1>14. CASE ReadChunk
  <2>1. UNCHANGED <<session, copyEnabled, errorHappened, rc>>
        /\ bpc' \in {"unlocking at end", "writing"}
    BY <1>14 DEF ReadChunk, mgrVars
  <2> QED
    BY <1>6, <1>14, <2>1, ReadKeepsConsistency
<1>15. CASE WriteChunk
  <2>1. UNCHANGED <<session, copyEnabled, errorHappened, rc>>
        /\ bpc' \in {"unlocking", "writing"}
    BY <1>15 DEF WriteChunk, mgrVars
  <2> QED
    BY <1>6, <1>15, <2>1, WriteKeepsConsistency
<1>16. CASE ChunkFails
  <2>1. /\ backup' = backup /\ copied' = copied /\ rc' = "nonzero"
        /\ UNCHANGED <<session, copyEnabled, errorHappened>> /\ bpc' = "unlocking at end"
    BY <1>16 DEF ChunkFails, fileVars, mgrVars
  <2> QED
    BY <1>3, <1>5, <1>6, <2>1 DEF CopyIsComplete
<1>17. CASE CopierUnlocks
  <2>1. /\ backup' = backup /\ copied' = copied /\ rc' = rc
        /\ UNCHANGED <<session, copyEnabled, errorHappened>>
        /\ bpc' = IF bpc = "unlocking" THEN "copying" ELSE "stopping"
        /\ bpc \in {"unlocking", "unlocking at end"}
    BY <1>17 DEF CopierUnlocks, fileVars, mgrVars
  <2> QED
    BY <1>3, <1>5, <1>6, <2>1 DEF CopyIsComplete
<1>18. CASE LockWaits(Copier)
  <2>1. /\ backup' = backup /\ UNCHANGED <<session, copyEnabled, errorHappened>>
        /\ UNCHANGED <<bpc, buffer, copied, rc, sourceAtStop>>
    BY <1>18 DEF LockWaits, fileVars, mgrVars, copyVars
  <2>2. BufferInv'
    BY <1>1, <1>2, <2>1 DEF BufferInv
  <2>3. AgreementInv'
    BY <1>5, <2>1 DEF CopyIsComplete
  <2> QED
    BY <1>1, <1>2, <2>1, <2>2, <2>3 DEF ResultInv
<1> QED
  BY <1>7, <1>8, <1>9, <1>10, <1>11, <1>12, <1>13, <1>14, <1>15, <1>16, <1>17, <1>18
     DEF CopierNext, CopierStep

----------------------------------------------------------------------------
(*                           What follows from it                          *)

LEMMA InvHolds == ASSUME WholeWrites PROVE Spec => []Inv
<1>1. Appends = FALSE
  <2>1. Appends \in BOOLEAN
    BY CaptureCopyAssumption
  <2> QED
    BY <2>1 DEF WholeWrites
<1>2. Init => ConsistencyInv
  BY DEF Init, ConsistencyInv, DescriptionInv, SourceInv, BufferInv, AgreementInv,
         ResultInv, InFlight, NoCall, Call
<1>3. ASSUME ConsistencyInv, UNCHANGED vars
      PROVE  ConsistencyInv'
  <2>1. /\ source' = source /\ backup' = backup /\ offset' = offset
        /\ descLock' = descLock /\ pc' = pc /\ op' = op /\ session' = session
        /\ copyEnabled' = copyEnabled /\ errorHappened' = errorHappened /\ bpc' = bpc
        /\ buffer' = buffer /\ copied' = copied /\ rc' = rc /\ sourceAtStop' = sourceAtStop
    BY <1>3 DEF vars, fileVars, appVars, mgrVars, copyVars
  <2> QED
    BY <1>3, <2>1, Zenon DEF ConsistencyInv, DescriptionInv, SourceInv, BufferInv,
       AgreementInv, ResultInv, InFlight, Settled, Written, CopyIsComplete
<1>4. SessionInv /\ TypeInv /\ ConsistencyInv /\ [Next]_vars => ConsistencyInv'
  BY <1>3, StepCases, AppStepKeepsConsistency, CopierStepKeepsConsistency DEF Inv
<1>5. Spec => []TypeInv
  BY <1>1, TypeInvHolds
<1> QED
  BY <1>2, <1>4, <1>5, SessionInvHolds, PTL DEF Spec, Inv

(* A block that the copier has copied, and that no call is about to write  *)
(* to the backup, is what the source has, however writes, truncations and  *)
(* copying interleave: each half of a call and each chunk is done under a  *)
(* lock on its range, and the same call reaches both files.                *)
THEOREM CopiedBlocksAgreeHolds ==
    ASSUME WholeWrites PROVE Spec => []CopiedBlocksAgree
<1>1. Inv => CopiedBlocksAgree
  <2> SUFFICES ASSUME Inv, session, copyEnabled, NEW b \in 0..copied - 1, Settled(b)
               PROVE  backup[b] = source[b]
    BY DEF CopiedBlocksAgree
  <2>1. copied \in 0..MaxBlocks
    BY DEF Inv, TypeInv, TypeOK
  <2>2. b \in Blocks /\ b < copied
    BY <2>1, BoundsAreNumbers
  <2> QED
    BY <2>2 DEF Inv, ConsistencyInv, AgreementInv
<1> QED
  BY <1>1, InvHolds, PTL

(* If create_backup returns 0 then the backup is what the source was when  *)
(* capturing stopped, up to calls that were then in flight: an error that  *)
(* stopped the copy early, on whatever thread, is always reported.         *)
THEOREM BackupConsistentHolds ==
    ASSUME WholeWrites PROVE Spec => []BackupConsistent
<1>1. Inv => BackupConsistent
  BY DEF Inv, ConsistencyInv, ResultInv, BackupConsistent
<1> QED
  BY <1>1, InvHolds, PTL

----------------------------------------------------------------------------
(*                     One backup, taken in one step                       *)

ImageOfBackup ==
    IF PhaseOfBackup = "taken" \/ (bpc = "idle" /\ rc = "zero")
    THEN backup ELSE NoBackup

ResultOfBackup == IF bpc = "idle" THEN rc ELSE "none"

(* A step of do_backup other than its first and last ones, and that which  *)
(* deletes the session, is none of the promise's.                          *)
LEMMA CopyingIsHidden ==
    ASSUME Inv, CopierNext, ~BeginBackup, ~CloseSession, ~EndBackup
    PROVE  /\ UNCHANGED <<source, pc, op, PhaseOfBackup, ResultOfBackup>>
           /\ ImageOfBackup' = ImageOfBackup
<1>1. UNCHANGED <<source, pc, op>>
  BY CopierStepIsLocal DEF Inv, appVars
<1>2. CASE LockWaits(Copier)
  <2>1. UNCHANGED <<backup, bpc, rc, errorHappened>>
    BY <1>2 DEF LockWaits, fileVars, mgrVars, copyVars
  <2> QED BY <1>1, <2>1 DEF PhaseOfBackup, ImageOfBackup, ResultOfBackup
<1>3. CASE ~LockWaits(Copier)
  <2>1. CASE OpenSession
    BY <2>1, <1>1 DEF OpenSession, PhaseOfBackup, ImageOfBackup, ResultOfBackup
  <2>2. CASE CopyNext \/ PollAbortsBetweenChunks \/ CopierGetsRangeLock
    BY <2>2, <1>1 DEF CopyNext, PollAbortsBetweenChunks, CopierGetsRangeLock, Quit,
       PhaseOfBackup, ImageOfBackup, ResultOfBackup
  <2>3. CASE ReadChunk
    BY <2>3, <1>1 DEF ReadChunk, PhaseOfBackup, ImageOfBackup, ResultOfBackup
  <2>4. CASE WriteChunk
    BY <2>4, <1>1 DEF WriteChunk, PhaseOfBackup, ImageOfBackup, ResultOfBackup
  <2>5. CASE ChunkFails \/ CopierUnlocks
    BY <2>5, <1>1 DEF ChunkFails, CopierUnlocks, PhaseOfBackup, ImageOfBackup,
       ResultOfBackup
  <2> QED BY <1>3, <2>1, <2>2, <2>3, <2>4, <2>5 DEF CopierNext, CopierStep
<1> QED BY <1>2, <1>3

(* The blocks that the promise does not speak of depend on these only. *)
LEMMA SameUnderCalls ==
    ASSUME UNCHANGED <<source, pc, op>>
    PROVE  UnderCalls' = UnderCalls /\ HolesBelowCalls' = HolesBelowCalls
  BY DEF UnderCalls, HolesBelowCalls, InFlight

(* The session ends without an error: the copy was complete, and agrees.   *)
LEMMA BackupIsTaken ==
    ASSUME WholeWrites, Inv, CloseSession, rc = "zero", ~errorHappened,
           NEW b \in Blocks, b \notin UnderCalls
    PROVE  backup[b] = source[b] \/ (b \in HolesBelowCalls /\ backup[b] = Eof)
<1>1. session /\ CopyIsComplete /\ inSession = {}
  BY DEF CloseSession, Inv, SessionInv, CopyIsComplete
<1>2. ~ \E t \in AppThreads : pc[t] = "failed"
  BY <1>1 DEF Inv, SessionInv
<1>3. copyEnabled
  BY <1>1, <1>2 DEF Inv, ConsistencyInv, ResultInv
<1>4. CASE Settled(b)
  BY <1>1, <1>3, <1>4 DEF Inv, ConsistencyInv, AgreementInv
<1>5. CASE ~Settled(b)
  BY <1>5 DEF Settled, UnderCalls, HolesBelowCalls
<1> QED BY <1>4, <1>5

(* A call changes what it covers, and makes holes below. *)
LEMMA ChangesAreUnsettled ==
    ASSUME WholeWrites, Inv, NEW t \in AppThreads, AppNext(t),
           NEW b \in Blocks, source'[b] # source[b]
    PROVE  \/ b \in UnderCalls'
           \/ b \in HolesBelowCalls' /\ source[b] = Eof /\ source'[b] = Zero
<1>1. RealCall(t)
  BY DEF AppNext, BeginWrite, BeginPwrite, BeginFtruncate, Read, Seek, MoveOffset,
     GetRangeLock, RealCallFails, EnterSession, Mirror, MirrorFails, SetError,
     EndCall, LockWaits, fileVars
<1>2. source'[b] = Applied(op[t], source, b) /\ pc[t] = "locked"
  BY <1>1, RealCallEffect
<1>3. /\ op'[t].lo = op[t].lo /\ op'[t].hi = op[t].hi /\ op'[t].at = op[t].lo
      /\ InFlight(t)'
  BY <1>1, RealCallKeepsCall DEF InFlight
<1>4. op[t].lo \in 0..MaxBlocks /\ op[t].hi \in 0..MaxOffset
  BY <1>2, CallHolds
<1>5. CASE op[t].lo <= b /\ b < op[t].hi
  <2>1. op'[t].at <= b /\ b < op'[t].at + op'[t].hi - op'[t].lo
    BY <1>3, <1>4, <1>5, BoundsAreNumbers
  <2> QED BY <1>3, <2>1 DEF UnderCalls
<1>6. CASE ~(op[t].lo <= b /\ b < op[t].hi)
  <2>1. b < op[t].lo /\ source[b] = Eof /\ source'[b] = Zero
    BY <1>2, <1>6 DEF Applied
  <2> QED BY <1>3, <2>1 DEF HolesBelowCalls
<1> QED BY <1>5, <1>6

(* Between two backups, and when one has been taken, no call touches it.   *)
LEMMA CallsKeepTheImage ==
    ASSUME Inv, NEW t \in AppThreads, AppNext(t)
    PROVE  UNCHANGED <<PhaseOfBackup, ResultOfBackup, ImageOfBackup>>
<1>1. UNCHANGED <<bpc, rc>>
  BY OthersStay DEF copyVars
<1>2. CASE Mirror(t) \/ SetError(t)
  <2>1. session
    BY <1>2 DEF Mirror, SetError, Inv, SessionInv
  <2>2. bpc \notin {"idle", "reporting"}
    BY <2>1 DEF Inv, SessionInv
  <2> QED BY <1>1, <2>2 DEF PhaseOfBackup, ResultOfBackup, ImageOfBackup
<1>3. CASE ~Mirror(t) /\ ~SetError(t)
  <2>1. UNCHANGED <<backup, errorHappened>>
    BY <1>3 DEF AppNext, BeginWrite, BeginPwrite, BeginFtruncate, Read, Seek,
       MoveOffset, GetRangeLock, RealCall, RealCallFails, EnterSession, MirrorFails,
       EndCall, LockWaits, fileVars, mgrVars
  <2> QED BY <1>1, <2>1 DEF PhaseOfBackup, ResultOfBackup, ImageOfBackup
<1> QED BY <1>2, <1>3

LEMMA StepImplementsPromise ==
    ASSUME WholeWrites, Inv, Inv', [Next]_vars
    PROVE  [Promise!Next]_Promise!vars
<1> USE DEF Promise!vars, Promise!fileVars, ImageOfBackup, ResultOfBackup
<1>1. CASE UNCHANGED vars
  <2>1. UNCHANGED <<source, pc, op, bpc, rc, errorHappened, backup>>
    BY <1>1 DEF vars, fileVars, appVars, mgrVars, copyVars
  <2> QED BY <2>1, SameUnderCalls DEF PhaseOfBackup
<1>2. ASSUME NEW t \in AppThreads, AppNext(t) PROVE Promise!Change
  <2>1. source' \in [Blocks -> Contents]
    BY DEF Inv, TypeInv, TypeOK
  <2>2. UnderCalls' \subseteq Blocks /\ HolesBelowCalls' \subseteq Blocks
    BY DEF UnderCalls, HolesBelowCalls
  <2> QED BY <1>2, <2>1, <2>2, ChangesAreUnsettled, CallsKeepTheImage DEF Promise!Change
<1>3. CASE BeginBackup
  <2>1. UNCHANGED <<source, pc, op>> /\ bpc = "idle" /\ bpc' = "starting"
    BY <1>3 DEF BeginBackup, fileVars, appVars
  <2>2. Promise!Begin
    BY <2>1, SameUnderCalls DEF Promise!Begin, PhaseOfBackup
  <2> QED BY <2>2 DEF Promise!Next
<1>4. CASE CloseSession
  <2>1. /\ UNCHANGED <<source, backup, pc, op, rc, errorHappened>>
        /\ bpc = "stopping" /\ bpc' = "reporting"
    BY <1>4 DEF CloseSession, fileVars, appVars
  <2>2. CASE rc = "zero" /\ ~errorHappened
    <3>1. backup \in [Blocks -> Contents]
      BY DEF Inv, TypeInv, TypeOK
    <3>2. Promise!Take
      BY <1>4, <2>1, <2>2, <3>1, SameUnderCalls, BackupIsTaken
      DEF Promise!Take, PhaseOfBackup
    <3> QED BY <3>2 DEF Promise!Next
  <2>3. CASE ~(rc = "zero" /\ ~errorHappened)
    <3>1. Promise!Fail
      BY <2>1, <2>3, SameUnderCalls DEF Promise!Fail, PhaseOfBackup
    <3> QED BY <3>1 DEF Promise!Next
  <2> QED BY <2>2, <2>3
<1>5. CASE EndBackup
  <2>1. /\ UNCHANGED <<source, backup, pc, op, errorHappened>>
        /\ bpc = "reporting" /\ bpc' = "idle"
        /\ rc' = IF errorHappened THEN "nonzero" ELSE rc
        /\ rc \in {"zero", "nonzero"}
    BY <1>5 DEF EndBackup, fileVars, appVars, mgrVars, Inv, TypeInv, TypeOK
  <2>2. Promise!Return
    BY <2>1, SameUnderCalls DEF Promise!Return, PhaseOfBackup
  <2> QED BY <2>2 DEF Promise!Next
<1>6. CASE CopierNext /\ ~BeginBackup /\ ~CloseSession /\ ~EndBackup
  BY <1>6, CopyingIsHidden, SameUnderCalls
<1> QED BY <1>1, <1>2, <1>3, <1>4, <1>5, <1>6, StepCases DEF Promise!Next

(* do_backup implements the backup that is taken in one step: in whatever  *)
(* order writes, truncations, their captures, the copier's chunks, errors  *)
(* and the end of the session come, its result and the backup are those of *)
(* the moment when the session is deleted, and stay so until the next one. *)
THEOREM BackupIsTakenAtOneMoment ==
    ASSUME WholeWrites PROVE Spec => ImplementsConsistentBackup
<1>1. ASSUME Init PROVE Promise!Init
  <2>1. source \in [Blocks -> Contents]
    BY <1>1, InitialTypes DEF TypeInv, TypeOK
  <2>2. ~ \E t \in AppThreads : InFlight(t)
    BY <1>1 DEF Init, InFlight
  <2>3. UnderCalls = {} /\ HolesBelowCalls = {}
    BY <2>2 DEF UnderCalls, HolesBelowCalls
  <2>4. bpc = "idle" /\ rc = "nonzero"
    BY <1>1 DEF Init
  <2> QED BY <2>1, <2>3, <2>4 DEF Promise!Init, PhaseOfBackup
<1> QED BY <1>1, InvHolds, StepImplementsPromise, PTL
        DEF Spec, ImplementsConsistentBackup, Promise!Spec

====
