# Percona TokuBackup in TLA+

TokuBackup ("hot backup") is a library that is linked into a database server.
It interposes on the libc file calls (`open`, `write`, `rename`, ...), and
`tokubackup_create_backup` copies a set of source directories to as many
destination directories *while the server keeps writing to the source*. Calls
that change a file are repeated ("captured") on the copy, so that the backup is
the source as it is at the end of the copy.

This directory holds TLA+ models of that code, TLC configurations, and proofs
checked by TLAPS. `PROJECT.json` maps each definition to the lines of
`src/backup/` it stands for and lists runs, mutants, findings, hazards and
theorems.

## 1. The system

| Component | Source | State | Operations |
| --- | --- | --- | --- |
| Range lock | `source_file.cc:132-188` | `m_locked_ranges`, a mutex and a condition variable for each open file | `lock_range`, `unlock_range` |
| Capture | `manager.cc:433-1020`, `destination_file.cc` | description offsets, the session rwlock | `write`, `pwrite`, `read`, `lseek`, `ftruncate`, `truncate`, ... on the source, then on the copy |
| Copier, one file | `copier.cc:300-676` | the file being copied, its offset, its descriptors | `copy_regular_file`, `copy_file_data`, `copy_file_range` |
| Copier, the walk | `copier.cc:88-300`, `700-805`, `dirsum.cc` | `m_todo`, the sizes that progress is computed from | `do_copy`, `copy_full_path`, `add_dir_entries_to_todo`, `cleanup` |
| Backup manager | `manager.cc:143-245`, `manager_state.cc`, `backup_callbacks.cc` | `m_mutex`, `m_session`, capture and copy flags, the saved error | `do_backup`, `backup_error`, `set_error_internal` |
| File table | `file_hash_table.cc`, `fmap.cc`, `source_file.cc`, `description.cc` | name -> `source_file` with a reference count, fd -> `description` | `open`, `close`, `unlink`, `rename` |
| Backup session | `backup_directory.cc` | source and destination directories | path matching, creation of directories on the way to a file |
| Directory set | `backup.cc:367-447`, `directory_set.cc` | the names of the pairs, and who owns them | `update_to_full_path`, `validate`, prefix translation |
| Locks | `mutex.cc`, `rwlock.cc`, and every `with_...` object | eleven kinds of locks | the order in which calls nest them |
| Interposition | `backup.cc`, `real_syscalls.cc` | one mutex for calls on names; a pointer to each real function | forwards each call to the manager; looks functions up, replaces them |
| Throttle | `copier.cc:678-722` | bytes per second | sleeps, polls, aborts |
| Checks, hooks, hash, benchmarks | `check.cc`, `raii-malloc.h`, `backup_debug.cc`, `MurmurHash3.cc`, `db-benchmark-test/` | | |

How they interact:

- *Threads.* Any number of application threads run captured calls; a thread
  that calls `tokubackup_create_backup` becomes the backup thread and runs
  `do_backup` and the copier itself. They share memory and nothing else.
- *Locks.* The range lock of a file is held around "real call, then the same
  call on the copy", and around "read a buffer, then write it to the copy". The
  description's mutex fixes the offset of `write`. `m_session_rwlock` is held
  for reading around the second call and for writing when the session is
  created or deleted. `m_mutex` admits one backup at a time; `m_error_mutex`
  protects the saved error. The table, the map, a file's name, its fd and the
  copier's list have a lock each.
- *Flags and callbacks.* A failure turns capture and copy off; the copier polls
  the flag between files and between buffers. `poll_fun` may abort, `error_fun`
  is called by the backup thread only.

What is hard here is nearly all of it the order of steps of several threads:
writes against the copy of the same bytes, a session that starts or ends in the
middle of a call, an error on one thread that must become the result of
another, and names that change while they are copied. `PROJECT.json` lists
these hazards at the lines where they bite.

What makes each component correct:

- range lock: no two holders share a byte, nobody sleeps without a reason, the
  unlock always finds its range;
- capture and copy of a file: a backup that returns 0 is a copy of the source at
  one moment, whatever the application did meanwhile; nobody is blocked for good;
  the copier closes the descriptors that it has opened and no others;
- the walk: every file and directory below every source gets to the backup,
  excluded ones do not, and the list is never used beyond its end;
- manager: one session at a time, never deleted under its users, every path
  gives its locks back, 0 means complete, errors are not lost;
- file table: an open file has exactly one `source_file`, whose reference count
  is the number of users; its destination belongs to the current session;
- directory set: what is not a usable pair is refused and reported, names are
  freed by their owner, and capture and copier agree where a file goes;
- locks: one order, in which no calls ever wait for each other in a circle;
- real functions: nobody calls a pointer that is not set.

## 2. The modules

| Module | What it is |
| --- | --- |
| `RangeMutex` | abstract: threads hold disjoint sets of bytes |
| `RangeLock` | `lock_range` / `unlock_range`: vector of ranges, condition variable, broadcast |
| `RangeLockProofs` | invariants and refinement of `RangeLock`, proved |
| `ConsistentBackup` | abstract: a backup of a file that is taken in one step |
| `CaptureCopy` | one open file: application calls, copier, session; INSTANCEs `RangeLock` |
| `CaptureCopyProofs` | the backup is consistent, proved |
| `DirectCopy` | the copier's descriptors for one file, while `O_DIRECT` comes and goes |
| `DirectCopyProofs` | its invariants, proved |
| `CopierTree` | the copier's list and its walk over directories, against calls on names |
| `CopierTreeProofs` | every file and directory gets to the backup, excluded ones do not, proved |
| `BackupManager` | `do_backup` from call to return, error reporting, several callers |
| `BackupManagerProofs` | its invariants, proved |
| `SourceFiles` | the data: `source_file`s, hash table, destinations, backup directories, and the functions on them |
| `FileTable` | the threads: `open` ... `truncate` on names and descriptors, the copier, sessions; EXTENDS `SourceFiles` |
| `FileTableInvariants` | what the next module says of states and steps: hypotheses, invariants, effects on the heap |
| `FileTableProofs` | reference counts, names, finished backups, contents of a backup, proved |
| `DirectorySet` | `tokubackup_create_backup` up to the copy, and the translation of paths |
| `DirectorySetProofs` | checks, ownership, translation of paths, proved |
| `LockOrder` | threads that take locks in the order of their calls |
| `LockPrograms` | the calls of the library as sequences of lock steps, and their order |
| `RealSyscalls` | the pointers to the functions of the C library |
| `InterpositionProofs` | an order of locks excludes deadlock; nobody calls NULL, no registration is lost, proved |
| `MC...` | what TLC checks: the instance of each of them |

The modules look at the same code at different distances. `CaptureCopy` looks
into the writing and copying of one file that stays open; `FileTable` takes those
as single steps and looks at names, descriptors and the lifetime of objects;
`CopierTree` takes all of that as single steps and looks at the tree of
directories. `BackupManager` sees neither data nor names, only errors and
sessions; `LockOrder` only locks.

Operators named `X_Y` and marked "Mutant" are plausible bugs in `X`; no
specification uses them. Each property of a passing run is violated when one of
them takes the place of the definition it is named for.

### RangeLock

`lockedRanges` is `m_locked_ranges`; `phase[t]` says where thread *t* is in
`lock_range` ("requesting", "sleeping") or whether it holds its range. The
region under `m_mutex` is one step. `pthread_cond_wait` may return early
(`SpuriousWakeup`). `unlock_range` looks for an *equal* range, swaps the last
entry into its place and broadcasts if anything was removed; otherwise it calls
`the_manager.fatal_error` (`dead`). Ranges are any pair of offsets, including
empty ones (`write` of 0 bytes) and inverted ones.

### CaptureCopy

A file is a function from block numbers to contents (`Eof` beyond its end); a
block stands for as many bytes as one call writes. `source` is changed by the
real calls, `backup` by the calls on the destination file and by the copier.
`offset` is the description's `m_offset`, `position` the offset that the system
keeps for the descriptor; the code relies on their being the same (`TypeOK` says
so).

| Action | Code |
| --- | --- |
| `BeginWrite`, `BeginPwrite`, `BeginFtruncate` | up to the call of `lock_range` |
| `Read`, `Seek` | `read`, `lseek` under the description's mutex |
| `GetRangeLock` | `lock_range` returns |
| `RealCall`, `RealCallFails` | `call_real_write` etc., offset, description unlocked |
| `EnterSession` | `try_to_enter_session_and_lock` |
| `Mirror` | one turn of the loop of `destination_file::pwrite`, or `truncate` of the copy |
| `MirrorFails`, `SetError` | a failing call on the copy, and `backup_error` |
| `EndCall` | `unlock_range`, return |
| `BeginBackup` ... `EndBackup` | `do_backup`, with the session created and deleted under the write lock |
| `CopyNext`, `CopierGetsRangeLock`, `ReadChunk`, `WriteChunk`, `ChunkFails`, `CopierUnlocks`, `Quit`, `PollAbortsBetweenChunks` | `copy_file_data`, `copy_file_range` |

`sourceAtStop` is a history variable: the source when the session was deleted,
with the blocks `Unsettled` that a call in flight is about to change or has
changed on one side only (such a call returns after the backup has ended, and
may be in it or not).

`ConsistentBackup` is what the caller of `tokubackup_create_backup` is promised,
without copier, capture and locks: the application changes the file, and a
backup of it is taken in one step (`Take`) or fails; the result is returned
later. `unsettled` and `holes` are what calls that have not returned write and
leave below them, of which nothing is promised. `CaptureCopy` implements it with
`Take` at the end of the session; the copying before it is stuttering, and the
copy is the abstract backup only from then on.

Four constants let the system do what the code does not cope with: real writes
that are short (`ShortWrites`), writes on the copy that are short
(`ShortMirrors`), an `lseek` that fails (`SeekFails`), `O_APPEND` (`Appends`). The
runs have none of them; section 5 says what each of them leads to.

Assumptions: the file stays open for the whole session through one description,
so that it has a destination; regions under a write lock that do not wait are
one step; `read` succeeds.

### DirectCopy

`fds` is the process's table of descriptors: the lowest number that is free is
the next one. `srcFd` and `srcDirect` are the `source_info` of
`copy_file_data`, `fd` is the copy of it that
`open_and_lock_file_then_copy_range` gets by value.

| Action | Code |
| --- | --- |
| `OpenSource` | `copy_regular_file` up to the loop |
| `NextBuffer` | a turn of `copy_file_data`, `given_flags_are_different` |
| `CloseOld`, `Reopen` | `close`, `open` and `lseek` when the flags differ |
| `Read` | `copy_file_range` |
| `CloseSource` | the end of `copy_regular_file` |
| `Open`, `SetFlags` | an `open` of the file with or without `O_DIRECT`, and `set_flags` under the fd lock |
| `OpenOther`, `CloseFd`, `Rename`, `CaptureFails` | what else the application does to descriptors, to the name, and to the copy flag |

`moved` remembers that a reopening did not get the number that was closed for
it, or found no file: it is the condition under which the code works.

### CopierTree

A name is a path below a source, as a sequence of components. `tree` and
`backup` say what each source and each destination have under it. `todo` is
`m_todo` in its order, with `Null` for an entry that `cleanup` has freed and
`Foreign` for one that `rename` added.

| Action | Code |
| --- | --- |
| `OpenSession`, `CloseSession` | the session is created and deleted |
| `StartDirectory` | `copier::do_copy` begins a pair: `dirsum`, `.` |
| `Take`, `PollAborts`, `Quit`, `CountRest` | its loop |
| `Stat` | `copy_stripped_file`, `copy_full_path` up to the choice by file type |
| `CopyFile` | `copy_regular_file` |
| `OpenDir`, `MakeDir`, `List` | `opendir`, `mkdir` of the destination, `add_dir_entries_to_todo` |
| `Cleanup` | `cleanup`, and the next pair in `backup_session::do_copy` |
| `Open`, `OpenCapture` | `open(O_CREAT)`, `capture_open` with `open_path`, the destination |
| `Mkdir`, `MkdirCapture` | `mkdir`, `capture_mkdir` |
| `Unlink`, `UnlinkCapture`, `Rename`, `RenameCapture` | the same for `unlink` and `rename` |
| `Rmdir` | `rmdir`, which is not intercepted |

`readdir` returns what was in the directory all along, and any of what came or
went while it was read, in any order. `touched`, `removed` and `grown` are
history: which names a rename took part in or were made by a `mkdir` in the
session, whether a directory was removed, whether a file was added.

### BackupManager

`pc[c]` follows `do_backup` for each caller: clear the error and poll, try
`m_mutex`, validate, create the session, copy `NFiles` files, delete the
session, unlock, look for a saved error, report it. `apc[t]` follows an
application thread through the session and, on failure, `backup_error_ap`
(flags off) and `set_error_internal` (save the error; set the flag). `todo` is
the number of files still to copy. `errstring` numbers the strings that
`m_errstring` has pointed to, and `held[c]` is the one being passed to
`error_fun`: a string that is replaced has been freed. `incomplete` and
`captureFailed` are history variables.

Left out: `m_is_dead` (set by failed checks, which abort the program, and by
the fatal error of `unlock_range`, which is proved unreachable);
`m_backup_is_running`, which nothing reads; pause points for tests.

### SourceFiles and FileTable

`heap` is everything that is reached through the table's mutex: `objects` (each
`source_file`: name, `m_reference_count`, `m_unlinked`, `m_destination_file`),
`live` (those that have not been deleted), `table` (the chain, newest first) and
the backup directories, one for each session: `bdir` gives the backup file that
has a path, `bdata` what it contains. A backup file is apart from its path, as
an inode is, because a `destination_file` keeps its fd when its path is unlinked
or replaced. The source directory is modelled in the same way (`dir`, `data`,
`fds`); the content of a file is the set of writes that it has received, marked
with its inode, so that no two files are equal by accident.

| Action | Code |
| --- | --- |
| `OpenBegin` | the real `open`; with `O_CREAT` under `m_atomic_file_op_mutex` |
| `OpenRealpath`, `OpenTable`, `OpenMap` | `realpath`, under no lock; `get_or_create_locked`, whether the name is still there or not; `m_map.put` |
| `OpenCapture`, `OpenTranslate` | in a session: `is_prefix`; the second `realpath` of the name in `translate_prefix`, and the destination. The session's lock and the table's mutex are held in between (`TableLocked`) |
| `CloseBegin`, `CloseMap`, `CloseTable` | `try_to_remove_destination` in a session; `m_map.erase`; `try_to_remove_locked` and the real `close` |
| `Write` | `write` with its repetition on the destination |
| `UnlinkBegin`, `UnlinkTable`, `UnlinkCapture` | the real `unlink`; `get_or_create_locked`; the rest, under the session lock and the table's mutex |
| `RenameBegin`, `RenameCapture` | the real `rename`; `capture_rename` with `rename_locked` |
| `TruncatePath` | `truncate` by path |
| `StartBackup`, `StopBackup` | session created, `prepare_directories_for_backup`; `disable_descriptions`, session deleted |
| `ListDirectory`, `CopyNext` | `add_dir_entries_to_todo`; the loop of `do_copy` up to `stat` |
| `CopyLookup` ... `CopyRelease` | `get_or_create_locked`; `open`; `lstat` and the destination; `copy_file_data`; `try_to_remove_destination`; `try_to_remove_locked`, or giving up |

`crashed` says where a null pointer has been used; the process takes no more
steps then. Four history variables serve the properties:

- `renamed`: names that took part in a rename in the session;
- `wrong`: computed when a session without errors ends, the names whose backup
  differs from the source, without those of calls that are still under way
  (`Unsettled`);
- `ghosts`: names for which an `open` made or found a `source_file` after an
  `unlink` of the name that was over by then (section 5, 9);
- `kept`: the paths, in each finished backup, of files that were open more than
  once or in a call's hands when it ended (`KeptNames`; section 5, 7).

A session ends whenever the copier is done: the write lock waits for threads
that are inside the session, and not for calls that are between two locked
sections. So a call may begin before a session, or in one, and be captured in the
next.

`Failures` lists the places where the creation of a destination may fail:
`open`, `prepare` and `copy` report it, `unlink` and `rename` return early. What
an application does to names decides whether the code works. `Liberties` lists
what it may do to names that are in use, and in a session:

| Liberty | The application may | Without it |
| --- | --- | --- |
| `open` | open a name that is open already | it opens it again only after `close` |
| `create` | create a name again while the unlinked file is still open or being copied | only when its `source_file` has gone |
| `rename` | rename an open file, or over one | only names that no descriptor and no call uses |
| `truncate` | call `truncate(path)` in a session | only outside sessions |
| `overwrite` | open a file with `O_TRUNC` in a session | only outside sessions |

The run `file_table` has `open` and `truncate`; section 5 says what each of the
others breaks. Without any of them, open, write, close and unlink of each file
are still free to happen anywhere, on several threads. `Openable` is a bound,
the names that the application opens; all others it can only unlink, truncate and
rename.

What the properties say. `ReferencesMatchUsers` and `OneObjectPerName` have no
exception. `DestinationsAreThere`: the copier, `unlink` and `rename` never use a
null pointer; `open` and `truncate` do (section 5, 10 and 11).
`UnrenamedFilesAreBackedUp`: what a backup without errors has wrong was renamed
in the session, or is a ghost, or was kept from an earlier backup.
`FinishedBackupsStay`: what changes in a finished backup was kept by it.

### DirectorySet

`pairs` is what the caller passes, with what `realpath`, `stat`, `open` and
`readdir` are going to find there. Sources are compared as strings, so that here
a path is the sequence of its characters (any strings will do, the proofs only
compare them).

| Action | Code |
| --- | --- |
| `CheckNames`, `CheckFirstPair` | `tokubackup_create_backup`: null names, and the comparison of the first pair |
| `UpdatePair`, `EndUpdate` | `update_to_full_path`, `handle_realpath_results` |
| `ValidatePair` | a turn of `validate` |
| `Copy` | which sources the copier finds |
| `Destroy` | `~directory_set` |

`owner` and `freed` follow the strings: whose they are, and how often they went
to `free()`.

### LockOrder and LockPrograms

All that is kept of a thread is the call it is in, a sequence of `lock`, `try`
and `unlock` steps, and its place there. `LockPrograms` composes the sequences
from `With`, `WithRead` and `Optionally` as the code does from its `with_...`
objects and early returns. `CodeRank` is the order. The session lock has a place
for each mode: a reader of it may hold a range, and `truncate` reads it before it
locks a range, which is well only as long as no writer of the session lock wants
a range and a waiting writer does not stop readers (the default of glibc; with
writers preferred, `truncate`, `write` and the end of a backup can block each
other). `CallbackUses` says what the caller's `poll_fun` and `error_fun` do.

### RealSyscalls

`real` has the pointers, `dlsymMutex` the mutex they share. `check`, `lock`,
`recheck`, `set`, `unlock` are the steps of `dlsym_set`; the look before the lock
is without the mutex, and `register_...` (`store`) writes without it. `below` is
what `register_...` has returned: the function that the new one is to call. That
`dlsym` finds nothing is left out (`Library # NULL`): the pointer stays NULL then,
and the comment at `real_syscalls.cc:63` expects the segfault at the call.

## 3. The runs

| Run | Bounds | Shows |
| --- | --- | --- |
| `range_lock` | 3 threads, offsets 0..2 | all invariants, `SleepersWake`, `ImplementsRangeMutex` |
| `capture_copy_safety` | 2 threads, 2 calls, 3 blocks, buffer of 2, 2 values, 2 backups; aborts, failing calls on source and copy | `CopiedBlocksAgree`, `BackupConsistent`, `BackupChangesOnlyInSession`, `ImplementsConsistentBackup` |
| `capture_copy_liveness` | 2 threads, 2 calls, 2 blocks, buffer of 1, 1 backup; the same faults | `CallsReturn`, `BackupReturns` |
| `direct_copy` | 3 blocks, 4 descriptors, 3 calls | `CopyIsFaithful`, `DescriptorsAreKept`, `CopyEnds` |
| `copier_tree` | 2 sources; directories `d`, `d/e`, file `d/e/f`, excluded file `g`; 2 threads, 2 calls of any kind | `FilesAreBackedUp`, `DirectoriesAreBackedUp`, `ExcludedStayOut`, `CrashNeedsRemovalOrRename`, `ProgressOfFirstDirectory`, `BackupReturns` |
| `backup_manager_two_callers` | 2 callers, 2 threads, 1 file, 2 calls of `do_backup`, 2 errors of any kind | serialization, lifetime of the session, progress |
| `backup_manager_errors` | 1 caller, 2 threads, 2 files, 3 backups, 4 errors of any kind | `FailuresAreReported`, `ErrorStringIsAlive`, `MissingFilesLeaveAnError` |
| `backup_manager_concurrent` | 2 callers, 1 thread, 2 files, 2 calls of `do_backup`; violation | `SuccessMeansComplete` fails, see section 5 |
| `file_table` | 2 names of which one is opened, 2 threads, 2 descriptors, 3 calls (and closes), 2 backups, liberties `open` and `truncate`; `open`, `prepare` and the copier may fail | `ReferencesMatchUsers`, `OneObjectPerName`, `DestinationsAreThere`, `UnrenamedFilesAreBackedUp`, `FinishedBackupsStay` |
| `directory_set` | 2 pairs; sources `/a`, `/ab`, `/a/b`, `/c`, `/`; every failure of every check | `LastPairIsChecked`, `OwnStringsAreFreed`, `FailuresAreReported`, `CaptureAgreesWithCopier` |
| `lock_order` | a thread that makes any call, one that takes a backup, one that truncates by path or asks for a second backup | `NoDeadlock`, `LocksAreOrdered` |
| `real_syscalls` | 3 threads, of which one registers; 2 pointers, 2 functions to register | `NullIsNeverCalled`, `NoHookIsLost` |

Why the bounds are enough to be interesting. Three offsets give every relation
of two intervals (disjoint, adjacent, nested, overlapping, equal, empty,
inverted); three threads are two waiters for one holder, which tells signal from
broadcast. Three blocks and a buffer of two give a full and a partial buffer, a
file whose size is a multiple of the buffer, an empty one, and calls before,
inside, across and after the buffer being copied; two calls of two threads, of
different values, are enough to reorder writes. Two backups let a call start in
one session and end in the next. In the manager, two files let the copier stop
between them, and three backups let errors be left over from an earlier one.
In the file table, three calls of two threads are enough for create, unlink and
create again, for two opens and an unlink, or create, rename and unlink, against
the copier, each other and the end of the first session; the second backup sees
what the first one left behind. It begins with the file that is opened or with
none; the second name comes and goes by renames. The run also passes with both
names openable and one descriptor, and with four calls on one name, but takes
longer; with `create` and `overwrite` added on one name and four calls,
`ReferencesMatchUsers`, `OneObjectPerName` and `FinishedBackupsStay` pass. Five
objects are what two threads, two descriptors and the copier can hold.
In the tree, a directory in a directory lets names come and go on both sides of
the copier's position, and the second source is copied with the list that the
first one left. Of descriptors, four are the copier's, two of the application
and a free one below or above them; three calls turn `O_DIRECT` on and off with
another open between. The order of locks is a matter of pairs: a circle of two
calls needs two threads, and the third one holds what neither of them does.

`MaxOps`, `MaxCalls`, `MaxSessions`, `MaxBackups`, `MaxErrors` only bound how
much happens; runs that use up their bound, or whose backup is over, stop, hence
`CHECK_DEADLOCK FALSE`. In `lock_order` a deadlock of threads is the invariant
`NoDeadlock`, which is stronger: it looks for circles among some of the threads.
`range_lock` has no such bound and checks deadlock.

Fairness. Threads are scheduled and real calls return, so each thread's next
step is weakly fair; nothing forces an application to begin a call, nobody is
forced to fail. For locks this is no more than the code gives:

- `LockGranted \/ LockBlocks` is weakly fair (a woken thread gets the mutex
  sometime); *getting* a range is not, a stream of other users may starve a
  waiter, so `SleepersWake` only says that a sleeper is woken.
- In `CaptureCopy` getting a range is weakly fair, which holds since the calls
  are finitely many.
- `m_session_rwlock` is a default pthread rwlock, which prefers readers. In
  `BackupManager` the threads may enter the session for ever, so `BackupsReturn`
  is conditional on `<>[](readers = {})`. Without that a busy server can keep
  `do_backup` from ending. In `CaptureCopy` the calls are finitely many and the
  condition is met.
- In `CopierTree` only the copier is fair: `BackupReturns` needs no progress of
  the application. In `DirectCopy` the application also closes its descriptors
  sometime, so that the copier is not without one for ever.

## 4. The proofs

`RangeLockProofs`, for every set of threads and every `MaxOffset \in Nat`:
`TypeCorrect`, `MutualExclusionHolds`, `NoEntryLeaks`,
`UnlockAlwaysFindsItsRange`, `WakeupsAreNotLost` and
`RangeLockImplementsRangeMutex` (`Spec => Abstract!Spec`). The inductive
invariant is the conjunction of the five invariants; none of the last four is
inductive alone. Mutual exclusion needs that the *vector* has every holder's
range, which is a bijection between holders and entries (`OneEntryPerHolder`): a
count would not do, because empty ranges may be locked twice and erased by
value. Two lemmas carry the rest: `IntersectIffShareByte` (the comparison of
endpoints is "have a byte in common", also for empty and inverted ranges) and
`RemoveSwapProperties`.

`BackupManagerProofs`, for any callers, threads, files and bounds:

- `TypeCorrect`, `BackupsNeverOverlap`, `SessionsOutliveCaptures` from
  `IInv == TypeOK /\ BackupsAreSerialized /\ SessionOutlivesCaptures`;
- with one caller (`OneCaller`), `CapturedFailuresAreReported` and
  `ErrorStringsStayAlive`, from `ErrorInv`, which says where an error that
  happened in the session is now: saved, about to be saved by a thread that is
  still in the session, or already reported;
- with one caller, `NoFileIsLostSilently` (`MissingFilesLeaveAnError`) and, if
  also `~CloseFails` and `~OutsideErrors`, `SuccessfulBackupsAreComplete`, both
  from `CompleteInv`, which says that copying can be off, or files missing, only
  with an excuse, and which excuses there can be once the backup has returned.

The assumptions are facts about the environment, and each one is needed:
section 5 says what happens without it. `SuccessMeansComplete` itself is checked
only where it fails, in the run `backup_manager_concurrent`.

`InterpositionProofs` is about locks and about the look-up of functions, and
extends both modules; `RealSyscalls` therefore has names of its own for its
specification (`LookupSpec`). Of locks, for any number of threads, any
locks, and calls of any length and number. `OrderExcludesDeadlock`: in a state where every thread waits
for a lock that comes after those it holds, no threads wait in a circle. Of
threads that all wait, one waits for the lock of the greatest rank (`LastInOrder`,
from the least-element principle of the naturals); its holder would wait for one
of greater rank (`BlockedComesFirst`). `LocksAreOrderedHolds` and
`NoDeadlockHolds` carry this to all reachable states, if each call by itself
takes its locks in the order (`CallsAreOrdered`); the inductive invariant
`CallsOfThreads` says that a thread is in one of its calls. That the calls of
the library do so is what the run `lock_order` shows of `LockPrograms` (one
thread at a time would be enough for that), and the theorem makes it a result for
any number of application threads.

Of the look-up (`RealSyscalls`), for any callers, pointers and functions:
`TypeCorrect` and `NullIsNeverCalledHolds`. The invariant is `TypeOK` and `LookedUp`: a pointer,
once set, is never reset to NULL, so that a thread that has passed the look-up
may use it without the mutex. With one thread that registers (`OneRegistrar`),
`NoHookIsLostHolds`; its invariant says that between the reading and the writing
of the pointer in `register_...` nobody else writes it, which two registrars do
(section 5, 26).

`CaptureCopyProofs`, for any threads, values, file, buffer, calls and backups:

- `BackupChangesOnlyInSessionHolds`, without hypotheses. `SessionInv` says that a
  thread between `try_to_enter_session_and_lock` and its exit is in a session,
  which cannot be deleted under it;
- `TypeCorrect`, if nobody uses `O_APPEND`. `TypeOK` is not inductive: that the
  offsets stay in bounds depends on what each call holds (`RangesInv`: its own
  range, and the copier that of its buffer), and that on the range lock, whose
  own invariant (`RangeLockProofs!IInv`, an INSTANCE for the threads and the
  copier) is a conjunct here. Steps of the lock preserve it by the lemmas of
  `RangeLockProofs`;
- `CopiedBlocksAgreeHolds` and `BackupConsistentHolds`, if writes are whole and at
  the offset the description says (`WholeWrites`). The argument: the offset that
  `write` locked is still the one at which it writes, as the description is
  locked (`DescriptionInv`); as long as a call holds its range, the source has
  there what the call wrote (`SourceInv`), so that the repetition brings the
  backup to what the source is (`Applied` to both); the copier's buffer is what
  the source has, as the copier holds its range (`BufferInv`); so all blocks that
  the copier has passed, and that no call is about to repeat, agree
  (`AgreementInv`). An error makes the result one (`ResultInv`);
- `BackupIsTakenAtOneMoment`, under the same hypothesis: `CaptureCopy` implements
  `ConsistentBackup`. From the invariants above, the step that deletes the session
  is `Take` if there has been no error (`BackupIsTaken`), and what a call changes
  is unsettled until it returns (`ChangesAreUnsettled`); after the session neither
  the backup nor the result can change any more (`CallsKeepTheImage`).

`CopierTreeProofs`, for any names, kinds of trees, pairs of directories, threads
and calls, and any order in which `readdir` returns what is there:

- `TypeOKHolds`, from `BaseInv`: in sources and destinations everything is in a
  directory (`SourcesInv`, `BackupsInv`, kept by `create_subdirectories`, `mkdir`
  and `Move`); what the copier looks at is not excluded, and what it listed is in
  it (`VisitInv`); the list is longer than the copier knows by what renames have
  added, and by no more (`ListInv`); what a call in progress has done, and that
  one at a time has the file-operation mutex (`CallInv`);
- `CrashNeedsRemovalOrRenameHolds`, from `WalkInv`, which adds where freed
  entries and those of renames can be (`SessionInv`, `CrashInv`);
- `FilesAreBackedUpHolds` and `DirectoriesAreBackedUpHolds`, without hypotheses.
  `BackupInv` says of each name that is neither touched nor excluded, while the
  session has no error: a file, or directory, of the source is in the backup, or
  the copier is going to come to it (`Covered`: it or a directory above it is in
  the list, is being looked at, or was listed just now), or its `open` is still
  to be captured (`FileOk`, `DirOk`); and no file of the backup is where the
  source has none, here or above (`ClearOk`). The last part is what keeps
  `open_path` and `mkdir` from being blocked. A step of the copier loses nothing
  that is covered but the file that it copies and the directory that it makes
  (`CoverageIsKept`). When the list is empty nothing is covered any more;
- `ProgressOfFirstDirectoryHolds`, from `ProgressInv`: what is copied and what is
  still ahead is no more than the total. For this no entry may be counted twice:
  none of the list is in another one, or in what is looked at (`Apart`);
- `ExcludedStayOutHolds`, if `ExcludedOutright`: the function rejects an excluded
  name by its path in the destination, too (section 5, 20), and rejects no
  directory that has something in it, since the directories above a captured file
  are made whether they are excluded or not. `CopierTree.cfg` satisfies both.

`DirectCopyProofs`, for any file size, descriptors and calls, without
hypotheses: `TypeCorrect`, `CopyIsFaithfulHolds`, `DescriptorsAreKeptHolds`. As
long as no reopening got another number (`~moved`), the copier has one
descriptor, the one that `source_info` names (`SourceInv`), it stands in the file
where the destination ends (`OffsetInv`), and the destination is a beginning of
the file (`CopiedInv`).

`DirectorySetProofs`, for any number of pairs and any paths: `TypeCorrect`,
`LastPairIsCheckedHolds`, `FailuresAreReportedHolds`, `OwnStringsAreFreedHolds`.
The invariant says of each loop what its result `r` is about, the pair before
`i` (`ResultInv`), whose the strings are that have been passed (`OwnersInv`,
`AllOrNone`), and what is left of that at the end (`VerdictInv`).
`CaptureAgreesWithCopierHolds` is about the translation of paths rather than
about steps: of sources none of which is a prefix of another one's characters,
one at most is a prefix of a path, and cutting it off is the inverse of
`pathcat` (`SeparateSourcesAgree`). It needs that no destination is the root, to
which a slash is not added.

`FileTableProofs`, for any names, threads, descriptors, calls and backups that
begin and end at any moment; the invariants and hypotheses are in
`FileTableInvariants`. The hypotheses leave out what section 5 shows to break a
property:

| Theorem | Hypotheses |
| --- | --- |
| `TypeCorrect`, `ReferencesMatchUsersHolds`, `OneObjectPerNameHolds`, `FinishedBackupsStayHolds` | `Orderly`, `EnoughObjects` |
| `DestinationsAreThereHolds` | `Orderly`, `NoRecreation`, `EnoughObjects` |
| `UnrenamedFilesAreBackedUpHolds` | `Tame` (`Orderly` and `NoRecreation`), `EnoughObjects`, no `overwrite` |

`Orderly`: no name in use is renamed or renamed to, and `unlink` and `rename` get
the destinations they ask for (section 5, 13 and 14). `NoRecreation`: no name in
use is created (9). `EnoughObjects` says that `malloc` does not fail: there is a
`source_file` for each descriptor, each thread and the copier. No hypothesis
restricts `open`, `truncate`, failures that are reported or calls that outlast a
session, and in the theorems of the first row none restricts `create` and
`overwrite`. The exceptions are in the properties: what is `kept`, a ghost or
renamed. `FileTable.cfg` satisfies every hypothesis. The counts alone are not
inductive, as a count of one must mean that the *last* user goes. `IInv` has
twelve parts:

- who has which `source_file` and descriptor in hand at each step (`CallInv`,
  `CopierInv`), that two calls do not work on one descriptor, and one at a time
  has the file-operation mutex (`ApartInv`), and the counts (`RefsInv`); the
  lemmas `UserComes`, `UserGoes` and `UserPassesOn` move a user from a thread to a
  descriptor and back;
- the table and the objects: `Tidy(heap)`, each `source_file` once, no two of a
  name;
- why names are not mixed up: an open file has the inode of its `source_file`'s
  name, until that is unlinked, or the name is a ghost (`HeldInv`); the unlinked
  one has no name (`UnlinkInv`); nobody but the copier uses a name that is being
  renamed (`RenameInv`);
- why finished backups stay: a destination is a file of the current backup, or one
  that an earlier backup has kept, or has lost its path (`BackupInv`). This is
  where the session's end counts: `disable_descriptions` removes the destination
  of every `source_file` with one reference, and those with more are in `kept`;
- why pointers are not null: the copier has a destination when it writes to it
  (`CopyInv`), and with that nothing crashes but `open` and `truncate`
  (`CrashInv`).

Each step of `FileTable` has a lemma `...KeepsInv`. They use the operators of
`SourceFiles` through lemmas that say what each does to the heap (`GetOrCreateIs`,
`TryToRemoveIs`, `RenameObjectIs`, `PrepareIs`, ...): one object or one path
changes, everything else is as it was.

`UnrenamedFilesAreBackedUpHolds` needs `DataInv` on top of `IInv`, which says of
the data what `IInv` leaves out:

- an inode has one name, and what is open on it is mapped to the `source_file` of
  that name, or its `open` or `close` has not returned (`InodeInv`);
- as long as the session has no error (`Healthy`), destinations are the files
  that the backup has at their names (`DestInv`); what can be written through a
  descriptor has a destination, so that `write` repeats it (`WriteInv`); the
  copier reads the file that it writes to (`CopyingInv`);
- for each name that is not renamed, a ghost or kept from an earlier backup
  (`Unmoved`, `NamesInv`): if the file is gone, so is its copy (`GoneOk`); the
  copy has nothing that the file has not (`ContentOk`); and
  the copier has still to get there, or the file is new, empty and its `open` has
  not returned, or the copy has all of it (`CoverOk`);
- when the copier stops there is nothing left to copy (`StopInv`), and so what is
  wrong in a backup without errors is one of the exceptions (`ResultInv`).

A lemma `...KeepsData` per step keeps it, from `IInv` before and after the step.
Both names of a `rename` in the session are exempt in the property, because the
copier does not find a file by its new name (section 5, 8). A file that is open
several times has one `source_file`, so that each descriptor writes to the same
destination, which stays until the last of them is closed.

Assumptions about constants that the proofs rest on are those of each module
(`CaptureCopyAssumption`, ...): sets that are finite where they are counted,
bounds that are numbers, values such as `NoOne` that are no thread, names of the
tree that are sequences, and names of the table that are no numbers, as a file
that exists at the start has its name for its inode and later ones are numbered.
TLC evaluates them in every run.

Only model-checked:

- all liveness (`SleepersWake`, `CallsReturn`, `BackupReturns`, `CopyEnds`,
  `BackupsReturn`): fairness and ENABLED are outside what the prover handles;
- the hypothesis `CallsAreOrdered` of `InterpositionProofs` for the calls of
  `LockPrograms`, by the run `lock_order`.

The type invariants of `CopierTree`, `DirectCopy`, `DirectorySet` and `FileTable`
are stated beside their other properties and are in no run; they are proved.

## 5. Where the code and its promises differ

One run, `backup_manager_concurrent`, ends in a counterexample. For the others
the constants are given that make a property of a passing run, or the named
stronger form of one, fail; everything else can stay as in the run unless said
otherwise.

The data of one file (`CaptureCopySafety.cfg`, `BackupConsistent`; one value, two
blocks, a buffer of one, one session and no failures are enough):

1. **A short or failed `write` is mirrored in full** (`manager.cc:482-488`;
   `ShortWrites = TRUE`). The description's offset moves by what was written, the
   copy gets all of the buffer; `do_backup` returns 0. `pwrite` has the same fault
   for short writes, but leaves the copy alone when the real call fails.
   `README.md:4-6` of the sources promises consistent copies of files that are
   being edited.
2. **A short write on the copy is continued with the wrong bytes**
   (`destination_file.cc:80-98`; `ShortMirrors = TRUE`). The loop advances the
   offset and not the buffer, so that the rest gets the beginning of the data
   again.
3. **The offset is not the descriptor's** (`manager.cc:604-606`). An `lseek` that
   fails sets `m_offset` to -1, and the next `write` locks and mirrors the wrong
   range (`SeekFails = TRUE`, three calls). With `O_APPEND` the real write goes to
   the end of the file and the copy of it to `m_offset` (`Appends = TRUE`).

Errors and sessions (`BackupManager`):

4. **A second caller breaks the first one's backup** (`manager.cc:151-168`, the
   run `backup_manager_concurrent`). Getting EBUSY, or being aborted by its first
   poll, it calls `backup_error`, which turns copying off for the whole manager;
   the first backup returns 0 with files missing. The second caller also clears
   `m_an_error_happened` (line 152) before it tries `m_mutex`, and so forgets an
   error saved for the first: `FailuresAreReported` fails for two callers, too.
5. **A failing `close` of a copy on the backup thread**
   (`source_file.cc:273`) is reported, but ends the copy without a result:
   `do_backup` returns 0. With `Callers = {c1}`, `CloseFails = TRUE`,
   `OutsideErrors = FALSE`, `SuccessMeansComplete` fails.
6. **An error outside the session** (`manager.cc:865`, `1035`) turns copying off
   before it is saved, and the thread does not hold the session lock: `do_backup`
   can look for the error in between. With `Callers = {c1}`,
   `OutsideErrors = TRUE`, `CloseFails = FALSE`, `SuccessMeansComplete` fails.

Names and descriptors (`FileTable.cfg`):

7. **A destination survives its session** (`source_file.cc:269`). A
   `source_file` with two references keeps its destination when the session ends.
   An `open` between `get_or_create_locked` and `m_map.put` is such a reference;
   the destination the copier has made stays, and the next backup, finding one,
   writes to the old backup's file and returns 0 without the file (one name, one
   thread, one call: `UnrenamedFilesAreBackedUp` without the last set,
   `FinishedBackupsStay` without `\ kept`). A file that is open twice comes to the
   same, since `disable_descriptions` tries it twice with a count of two (one
   thread, two descriptors, three calls). `source_file.h:84-87` wants the lifetime
   scoped to a session. An `unlink` or `close` that begins in one session and is
   captured in the next has similar effects. These paths are `kept`, and the
   properties and theorems say that it happens to no others.
8. **A renamed file is not copied** (`manager.cc:711`). `rename` adds the new
   name to the list as a path in the *destination*, which the copier appends to
   the source directory and does not find; the comment at `manager.cc:701-703`
   says that it is added to be sure that it is copied. Its backup is the empty
   file that `rename_locked` created (one session, one call: `wrong = {}`). A
   rename that happened before the session started and is captured in it replaces
   a finished copy in the same way. Renamed names are exempt.
9. **An unlinked name gets a new `source_file`** (`manager.cc:1030`, `1039`). An
   `open` without `O_CREAT` does not take `m_atomic_file_op_mutex`
   (`backup.cc:98-108`). If a whole `unlink` runs after its `realpath` and before
   its look-up, the look-up makes a `source_file` that is not marked unlinked. The
   next `prepare` (`manager.cc:254-279`) creates an empty file for it in a backup
   that returns 0 (one name, two threads, one descriptor, two calls:
   `UnrenamedFilesAreBackedUp` without `ghosts`). Such names are `ghosts`, and
   exempt.
10. **`open` uses a null pointer** (`backup_directory.cc:207-209`, called from
    line 262). `capture_open` resolves the name in `is_prefix` and again in
    `translate_prefix`, and does not look at the second result; a comment there
    says that it would segfault (#6605). An `unlink` in between is enough, as the
    real `unlink` (`manager.cc:745`) is under neither of the locks that `open`
    holds (one name, two threads, one call each: `crashed = "open"`).
    `DestinationsAreThere` lets it pass.
11. **`truncate(path)` in a session** looks for the path of the backup file in a
    table of source files (`manager.cc:880`) and uses the null pointer it gets
    (`Liberties = {"truncate"}`, one call: `crashed = "truncate"`).
    `DestinationsAreThere` lets it pass, too.
12. **A name that is created again while the unlinked file is open**
    (`manager.cc:776`) gets the old `source_file`, which never has a destination:
    `unlink` in a session then uses a null pointer (`Liberties = {"create"}`, one
    name, one thread, two descriptors, three calls: `DestinationsAreThere`). A
    related race: if the name is unlinked and created again between the real
    `open` and the lookup, the descriptor gets the `source_file` of the new file
    and mirrors to its backup what is written to the old one. The old
    `source_file` also lives while the copier copies the unlinked file: a file
    that is created then is missing in a backup that returns 0 (one name, two
    threads, three calls: `UnrenamedFilesAreBackedUp`).
13. **`unlink` and `rename` give up silently** when the backup file cannot be
    created (`manager.cc:769`, `file_hash_table.cc:236`): the reference is not
    given back and nobody is told, although a comment in the caller says that
    `rename_locked` has reported it. `Failures = {"unlink"}` breaks
    `ReferencesMatchUsers` and, since the file stays in the backup,
    `UnrenamedFilesAreBackedUp`; `Failures = {"rename"}` breaks the former.
14. **`rename` without a session** leaves the table as it was
    (`manager.cc:633-638`); `hotbackup.tex`'s invariant 6 says that the directory
    is updated. An open file is then found under its old name only, and a file
    created there is taken for it. And `remove` unhooks the first entry with the
    *name*, so that with two objects of a name the wrong one may go
    (`Liberties = {"rename"}`).
15. **`open(O_TRUNC)` is not repeated** (`manager.cc:331`). The copy of a file that
    was copied before keeps what the source has lost: `Liberties = {"overwrite"}`,
    one name, one call, `UnrenamedFilesAreBackedUp`.

The tree (`CopierTree.cfg`):

16. **A directory that vanishes between `stat` and `opendir`**
    (`copier.cc:293-296`) leaves a NULL `DIR`, which is read. `Sources = 1`,
    `Calls = {"rmdir"}`: `NeverCrashes`. The same after a `rename` of a directory.
17. **`cleanup` frees the entries and does not clear the list**
    (`copier.cc:784-790`). If a rename has added an entry after the last look at
    the list, the next source directory's walk begins with a freed one.
    `Calls = {"rename"}`: `NeverCrashes`.
18. **Progress may exceed 1** (`copier.cc:137`). The amount copied is never reset,
    the total is that of the current directory: `Progress`, with two sources.
    `backup.h:79-80` calls it a number between 0 and 1.
19. **Renames of directories, and of files into or out of a directory that the
    backup does not have yet,** are not captured properly: with a missing old
    parent `rename_locked` gives up silently (as in 13); with a missing new one
    the rename on the copy fails, and the whole backup with it.
20. **`exclude_copy` is asked with different names**: by the copier and `unlink`
    with that of the source, by `capture_open` with that of the destination, while
    `backup.h:49-51` speaks of the source. Set `Excluded` and `ExcludedInBackup`
    apart and `ExcludedStayOut` fails.
    An excluded `open`, or one whose path is blocked by a file in the backup,
    goes on without a destination and is not reported.

The pairs of directories (`DirectorySet.cfg`):

21. **Only the last pair's result counts** (`directory_set.cc:131`, and the loop
    of `update_to_full_path`). A destination that is not empty is reported and
    then accepted; a source that does not exist is left out of a backup that
    returns 0. `AllPairsAreChecked` fails; the comment at `directory_set.cc:88-99`
    states it.
22. **Names are freed that the set does not own** (`directory_set.cc:243-252`). If
    the last pair does not resolve, all are freed, those that failed and still
    are the caller's as well. Leave out the hypothesis of `OwnStringsAreFreed` and
    it fails. That failure is not reported to `error_fun`, and only the first pair
    is compared with itself.
23. **A source is matched as a prefix of characters** (`directory_set.cc:170`): a
    file in `/ab` is taken to be in `/a` if both are sources, and with the root as
    a source a slash is lost. `CaptureAlwaysAgrees` fails.

Descriptors, locks, functions:

24. **The copier forgets that it has reopened the file** (`copier.cc:588`): the
    new descriptor and flags are known to the innermost call only. When the new
    number is another one, the old one is used, and closed, again, though it may
    be the application's by now; a file that has lost its name ends the copy
    without an error. `CopyIsAlwaysFaithful` fails in `DirectCopy`.
25. **Callbacks run with locks held** (`copier.cc:560` and the places of
    `Callback` in `LockPrograms`): a `poll_fun` or `error_fun` that writes
    (`CallbackUses = {"write"}`) or opens (`{"open"}`) a file blocks its own
    thread. `backup.h` does not say that it must not.
26. **Two threads that register functions** for one call (`Registrars = {t1,
    t2}`) lose one of them: `NoHookIsLost`. `real_syscalls.h` says that the system
    will call the new function. Its compare-and-swap would not help, as
    `register_...` looks the pointer up first and then stores. A function may also
    be called before `register_...` has returned what it is to call.

## 6. What is not modelled, and the plan

Not modelled: throttling (wall-clock arithmetic; its polls and its look at the
copy flag are in `CaptureCopy` and `BackupManager`), `check.cc` and
`raii-malloc.h` (a failed check aborts the program), `MurmurHash3.cc`
(third-party; buckets do not matter to what the table promises) and the
resizing of the table, test hooks, the benchmarks in `db-benchmark-test`. Of
modelled components: `m_is_dead`; failing calls on the backup directory other
than the creation of a file and writes to it; a failing `realpath` in `rename`;
symbolic links and special files, which the copier skips.

What is left: a composition of the modules, of which each takes the steps of the
one below it as one. That `CaptureCopy` implements `ConsistentBackup` is what
justifies `FileTable` and `CopierTree` in doing so with the data of a file; that
they could be put together is argued here and is neither checked nor proved.

## 7. Running it

    tlc -config RangeLock.cfg MCRangeLock.tla
    tlc -config CaptureCopySafety.cfg MCCaptureCopy.tla
    tlapm RangeLockProofs.tla

and so on for the other configurations in `PROJECT.json`.
