---- MODULE FileTable ----
(***************************************************************************)
(* open, close, write, unlink, rename and truncate of an application, and  *)
(* what they do to the source_files and destinations of module SourceFiles,*)
(* while backups start, copy file after file, and stop.                    *)
(*                                                                         *)
(* A step is what a thread does under the table's mutex, or one system     *)
(* call on the source directory.  Each file of the source is an inode;     *)
(* its content is the set of writes it has received, so that the content   *)
(* of two files is never mistaken for each other.  Writing and copying one *)
(* file is a single step here: module CaptureCopy is about its inside.     *)
(***************************************************************************)
EXTENDS SourceFiles

CONSTANTS
    Threads,        \* application threads
    Existing,       \* which names may exist at first: a set of sets
    Openable,       \* bound: the names that the application opens
    MaxFds,         \* bound: descriptors that are open at once
    MaxCalls,       \* bound: calls of the application other than close
    Failures,       \* where the creation of a destination may fail: "open",
                    \* "prepare", "copy", "unlink", "rename"
    Liberties       \* what the application does with names that are in use,
                    \* see InUse ("open", "create", "rename"), "truncate" by
                    \* path while a backup runs, and "overwrite" by an
                    \* open(O_TRUNC) while a backup runs

ASSUME FileTableAssumption ==
    /\ IsFiniteSet(Names) /\ NoName \notin Names /\ IsFiniteSet(Threads)
    (* A name is also the inode it has at first; the others are numbers. *)
    /\ \A n \in Names : n \notin Nat
    /\ MaxSessions \in Nat /\ MaxObjects \in Nat \ {0}
    /\ MaxFds \in Nat /\ MaxCalls \in Nat
    /\ Existing \subseteq SUBSET Names /\ Openable \subseteq Names
    /\ Liberties \subseteq
         {"open", "create", "rename", "truncate", "overwrite"}
    /\ Failures \subseteq {"open", "prepare", "copy", "unlink", "rename"}

VARIABLES
    (* the source directory and the process's descriptors *)
    dir,            \* the inode that has each name; None
    lastInode,      \* the inode that was created last
    data,           \* how many writes each inode has received
    fds,            \* the inode each descriptor is open on; None
    (* the backup library *)
    map,            \* m_map: the source_file of each descriptor's description
    heap,           \* source_files, table and backups: see SourceFiles
    call,           \* the call each thread is in
    callsLeft,      \* calls that may still begin
    (* the session and the copier *)
    session,        \* number of the current or last session
    running,        \* m_session # NULL
    failed,         \* the session has seen backup_error: copying is off
    cpc,            \* where the backup thread is
    copying,        \* the name, source_file and inode the copier has in hand
    todo,           \* m_todo, without the order
    crashed,        \* where a null pointer was used, or "no"
    (* history *)
    renamed,        \* names that took part in a rename in the session
    wrong,          \* names that the last finished backup has wrong
    ghosts,         \* names that open looked up after an unlink of them
    kept            \* the paths of KeptNames in each finished backup

vars == <<dir, lastInode, data, fds, map, heap, call, callsLeft, session,
          running, failed, cpc, copying, todo, crashed, renamed, wrong, ghosts,
          kept>>

sourceVars  == <<dir, lastInode, data, fds>>
sessionVars == <<session, running, cpc, copying>>

None == 0

(* A file that exists at first is identified by the name it has then. *)
Inodes == Names \cup 1..MaxCalls

Fds == 1..MaxFds

(* A path below the source that no file has: the copier gets the names of  *)
(* the backup where it expects names relative to the source.               *)
Elsewhere == NoName

Idle == [at |-> "idle", name |-> NoName, to |-> NoName, fd |-> 0,
         object |-> Null, locked |-> FALSE]

NothingToCopy == [name |-> NoName, object |-> Null, inode |-> None]

Content(i) == {i} \X (1..data[i])
Target(n) == <<session, n>>

(* m_atomic_file_op_mutex *)
FileOpLocked == \E t \in Threads : call[t].locked

(* The session's read lock and the table's mutex are held between two steps. *)
TableLocked == \E t \in Threads : call[t].at = "open translate"

(* The application has the file open, or is in a call on it; or the file    *)
(* was unlinked and still has a source_file.                                *)
InUse(n) ==
    \/ \E fd \in Fds : \/ map[fd] # Null /\ heap.objects[map[fd]].name = n
                       \/ fds[fd] # None /\ fds[fd] = dir[n]
    \/ \E t \in Threads :
         \/ n \in {call[t].name, call[t].to}
         \/ call[t].object # Null /\ heap.objects[call[t].object].name = n
    \/ Lookup(heap, n) # Null /\ heap.objects[Lookup(heap, n)].unlinked

May(liberty, n) == InUse(n) => liberty \in Liberties

Renaming(n) == \E t \in Threads : call[t].at = "rename capture"
                                   /\ n \in {call[t].name, call[t].to}

(* An unlink of the name has removed it and is not finished. *)
Unlinking(n) ==
    \E t \in Threads : call[t].at \in {"unlink table", "unlink capture"}
                       /\ call[t].name = n

(* The application may use fd: no thread is opening or closing it. *)
Usable(fd) == fds[fd] # None /\ \A t \in Threads : call[t].fd # fd

TypeOK ==
    /\ dir \in [Names -> Inodes \cup {None}]
    /\ lastInode \in 0..MaxCalls
    /\ data \in [Inodes -> Nat]
    /\ fds \in [Fds -> Inodes \cup {None}]
    /\ map \in [Fds -> Objects \cup {Null}]
    /\ heap.objects \in
         [Objects -> [name : Names \cup {NoName}, refs : Nat,
                      unlinked : BOOLEAN,
                      dest : [file : BackupFiles, path : Paths]
                                 \cup {NoDestination}]]
    /\ heap.live \subseteq Objects
    /\ heap.table \in Seq(Objects)
    /\ heap.bdir \in [Paths -> BackupFiles \cup {Null}]
    /\ UNION ToSet(heap.bdata) \subseteq (Inodes \X Nat)
    /\ \A t \in Threads :
         call[t] \in [at : {"idle", "open realpath", "open table", "open map",
                            "open capture", "open translate", "close map",
                            "close table", "unlink table", "unlink capture",
                            "rename capture"},
                      name : Names \cup {NoName}, to : Names \cup {NoName},
                      fd : Fds \cup {0}, object : Objects \cup {Null},
                      locked : BOOLEAN]
    /\ callsLeft \in 0..MaxCalls
    /\ session \in 0..MaxSessions
    /\ running \in BOOLEAN /\ failed \in BOOLEAN
    /\ crashed \in {"no", "open", "truncate", "unlink", "rename", "copy"}
    /\ cpc \in {"idle", "list", "next", "lookup", "open", "create", "data",
                "close", "release", "give up", "stop"}
    /\ copying \in [name : Names \cup {NoName}, object : Objects \cup {Null},
                    inode : Inodes \cup {None}]
    /\ todo \subseteq Names \cup {Elsewhere}
    /\ renamed \subseteq Names /\ wrong \subseteq Names
    /\ ghosts \subseteq Names /\ kept \subseteq Paths

----------------------------------------------------------------------------
(*                         Calls of the application                        *)

Begin(t, c) ==
    /\ call[t] = Idle /\ callsLeft > 0
    /\ callsLeft' = callsLeft - 1
    /\ call' = [call EXCEPT ![t] = c]

Return(t) ==
    /\ call' = [call EXCEPT ![t] = Idle]
    /\ UNCHANGED callsLeft

Proceed(t, at, object) ==
    /\ call' = [call EXCEPT ![t].at = at, ![t].object = object]
    /\ UNCHANGED callsLeft

(* The null pointer is used here if it is there. *)
CrashIf(null, place) == crashed' = IF null THEN place ELSE crashed

(* backup_error, as far as the session is concerned *)
Fail == failed' = (failed \/ running)

(* The creation of a destination for o can be tried, and may fail. *)
CreationFails(where, h, o) == where \in Failures /\ NeedsDestination(h, o)

(* The real open.  With O_CREAT it is done under the file-operation mutex, *)
(* which is then held until the call returns.  O_TRUNC outside a session   *)
(* is a TruncatePath.                                                      *)
OpenBegin(t, n, creates, truncates) ==
    \E fd \in {Min({f \in Fds : fds[f] = None} \cup {MaxFds + 1})} \cap Fds :
      /\ Begin(t, [Idle EXCEPT !.at = "open realpath", !.name = n, !.fd = fd,
                               !.locked = creates])
      /\ n \in Openable
      /\ Renaming(n) => "rename" \in Liberties
      /\ creates => ~FileOpLocked
      /\ truncates => dir[n] # None /\ running /\ "overwrite" \in Liberties
      /\ data' = IF truncates THEN [data EXCEPT ![dir[n]] = 0] ELSE data
      /\ IF dir[n] # None
         THEN /\ May("open", n)
              /\ fds' = [fds EXCEPT ![fd] = dir[n]]
              /\ UNCHANGED <<dir, lastInode>>
         ELSE /\ creates /\ May("create", n)
              /\ lastInode' = lastInode + 1
              /\ dir' = [dir EXCEPT ![n] = lastInode']
              /\ fds' = [fds EXCEPT ![fd] = lastInode']
      /\ UNCHANGED <<map, heap, sessionVars, failed, todo, renamed, wrong,
                     ghosts, kept, crashed>>

(* realpath, under no lock; it fails if the name has gone. *)
OpenRealpath(t) ==
    /\ call[t].at = "open realpath"
    /\ IF dir[call[t].name] = None
       THEN Return(t) /\ Fail
       ELSE Proceed(t, "open table", Null) /\ UNCHANGED failed
    /\ UNCHANGED <<sourceVars, map, heap, sessionVars, todo, renamed, wrong,
                   ghosts, kept, crashed>>

(* get_or_create_locked, whether or not the name is still there *)
OpenTable(t) ==
    LET n == call[t].name IN
      /\ call[t].at = "open table"
      /\ ~TableLocked
      /\ heap' = GetOrCreate(heap, n)
      /\ Proceed(t, "open map", Lookup(heap', n))
      /\ ghosts' = IF dir[n] = None /\ ~Unlinking(n) THEN ghosts \cup {n}
                                                     ELSE ghosts
      /\ UNCHANGED <<sourceVars, map, sessionVars, failed, todo, renamed,
                     wrong, kept, crashed>>

OpenMap(t) ==
    /\ call[t].at = "open map"
    /\ map' = [map EXCEPT ![call[t].fd] = call[t].object]
    /\ Proceed(t, "open capture", Null)
    /\ UNCHANGED <<sourceVars, heap, sessionVars, failed, todo, renamed,
                   wrong, ghosts, kept, crashed>>

(* In a session, under its lock and the table's mutex: is_prefix, which     *)
(* says no if the name has gone.                                            *)
OpenCapture(t) ==
    /\ call[t].at = "open capture"
    /\ running => ~TableLocked
    /\ IF running /\ dir[call[t].name] # None
       THEN Proceed(t, "open translate", Null)
       ELSE Return(t)
    /\ UNCHANGED <<sourceVars, map, heap, sessionVars, failed, todo, renamed,
                   wrong, ghosts, kept, crashed>>

(* translate_prefix resolves the name again and does not look whether that  *)
(* failed; then the backup file is created.  O_TRUNC is not repeated.       *)
OpenTranslate(t) ==
    LET n == call[t].name
        o == map[call[t].fd]
    IN /\ call[t].at = "open translate"
       /\ \/ /\ dir[n] = None
             /\ crashed' = "open"
             /\ UNCHANGED <<heap, failed>>
          \/ /\ dir[n] # None
             /\ heap' = TryToCreateDestination(heap, o, Target(n))
             /\ UNCHANGED <<failed, crashed>>
          \/ /\ dir[n] # None
             /\ CreationFails("open", heap, o)
             /\ failed' = TRUE /\ UNCHANGED <<heap, crashed>>
       /\ Return(t)
       /\ UNCHANGED <<sourceVars, map, sessionVars, todo, renamed, wrong,
                      ghosts, kept>>

(* A descriptor that is not mapped is just closed. *)
CloseBegin(t, fd) ==
    /\ call[t] = Idle
    /\ Usable(fd)
    /\ IF map[fd] = Null
       THEN fds' = [fds EXCEPT ![fd] = None] /\ UNCHANGED <<heap, call>>
       ELSE /\ running => ~TableLocked
            /\ heap' = IF running THEN TryToRemoveDestination(heap, map[fd])
                                  ELSE heap
            /\ call' = [call EXCEPT ![t] = [Idle EXCEPT !.at = "close map",
                                                        !.fd = fd]]
            /\ UNCHANGED fds
    /\ UNCHANGED <<dir, lastInode, data, map, callsLeft, sessionVars, failed,
                   todo, renamed, wrong, ghosts, kept, crashed>>

CloseMap(t) ==
    LET fd == call[t].fd IN
      /\ call[t].at = "close map"
      /\ map' = [map EXCEPT ![fd] = Null]
      /\ Proceed(t, "close table", map[fd])
      /\ UNCHANGED <<sourceVars, heap, sessionVars, failed, todo, renamed,
                     wrong, ghosts, kept, crashed>>

(* try_to_remove_locked, and the real close *)
CloseTable(t) ==
    /\ call[t].at = "close table"
    /\ ~TableLocked
    /\ heap' = TryToRemove(heap, call[t].object)
    /\ fds' = [fds EXCEPT ![call[t].fd] = None]
    /\ Return(t)
    /\ UNCHANGED <<dir, lastInode, data, map, sessionVars, failed, todo,
                   renamed, wrong, ghosts, kept, crashed>>

(* A write, with its repetition on the destination: see CaptureCopy. *)
Write(t, fd) ==
    LET i == fds[fd] IN
      /\ call[t] = Idle /\ callsLeft > 0
      /\ Usable(fd)
      /\ callsLeft' = callsLeft - 1
      /\ data' = [data EXCEPT ![i] = @ + 1]
      /\ heap' = IF running /\ map[fd] # Null
                 THEN WriteDestination(heap, map[fd], {<<i, data'[i]>>})
                 ELSE heap
      /\ UNCHANGED <<dir, lastInode, fds, map, call, sessionVars, failed,
                     todo, renamed, wrong, ghosts, kept, crashed>>

(* truncate to nothing.  In a session the source_file is looked up by the  *)
(* path of the backup file, which the table does not have.                 *)
TruncatePath(t, n) ==
    LET found == IF running THEN Null ELSE Lookup(heap, n) IN
      /\ call[t] = Idle /\ callsLeft > 0
      /\ callsLeft' = callsLeft - 1
      /\ dir[n] # None
      /\ running => "truncate" \in Liberties /\ ~TableLocked
      /\ CrashIf(running /\ found = Null, "truncate")
      /\ data' = IF running THEN data ELSE [data EXCEPT ![dir[n]] = 0]
      /\ UNCHANGED <<dir, lastInode, fds, map, heap, call, sessionVars,
                     failed, todo, renamed, wrong, ghosts, kept>>

(* realpath and the real unlink *)
UnlinkBegin(t, n) ==
    /\ Begin(t, [Idle EXCEPT !.at = "unlink table", !.name = n,
                             !.locked = TRUE])
    /\ ~FileOpLocked
    /\ dir[n] # None
    /\ dir' = [dir EXCEPT ![n] = None]
    /\ UNCHANGED <<lastInode, data, fds, map, heap, sessionVars, failed, todo,
                   renamed, wrong, ghosts, kept, crashed>>

UnlinkTable(t) ==
    LET n == call[t].name IN
      /\ call[t].at = "unlink table"
      /\ ~TableLocked
      /\ heap' = GetOrCreate(heap, n)
      /\ Proceed(t, "unlink capture", Lookup(heap', n))
      /\ UNCHANGED <<sourceVars, map, sessionVars, failed, todo, renamed,
                     wrong, ghosts, kept, crashed>>

(* Mutant: a file that the copier has not reached is left to it. *)
UnlinkBackup_OnlyIfOpen(h, o, path) ==
    IF Dest(h, o) = NoDestination THEN h ELSE UnlinkDestination(h, o)

(* A destination is made if there is none, to be unlinked by its path. *)
UnlinkBackup(h, o, path) ==
    LET created == TryToCreateDestination(h, o, path)
    IN  IF Dest(created, o) = NoDestination THEN created
        ELSE UnlinkDestination(created, o)

(* Mutant: the reference that unlink took is not given back. *)
MarkUnlinked_KeepsReference(h, o) ==
    TryToRemoveDestination([h EXCEPT !.objects[o].unlinked = TRUE], o)

MarkUnlinked(h, o) ==
    LET marked == [h EXCEPT !.objects[o].unlinked = TRUE]
    IN  TryToRemove(TryToRemoveDestination(marked, o), o)

(* If a destination cannot be made, unlink returns at once, without a      *)
(* report.                                                                 *)
UnlinkCapture(t) ==
    LET o        == call[t].object
        captured == running /\ ~failed
        created  == TryToCreateDestination(heap, o, Target(call[t].name))
        noDest   == Dest(created, o) = NoDestination
        unlinked == IF captured
                    THEN UnlinkBackup(heap, o, Target(call[t].name))
                    ELSE heap
    IN  /\ call[t].at = "unlink capture"
        /\ ~TableLocked
        /\ \/ /\ CrashIf(captured /\ noDest, "unlink")
              /\ IF captured /\ ~noDest /\ DestinationIsGone(created, o)
                 THEN Fail ELSE UNCHANGED failed
              /\ heap' = MarkUnlinked(unlinked, o)
           \/ /\ captured /\ CreationFails("unlink", heap, o)
              /\ UNCHANGED <<heap, failed, crashed>>
        /\ Return(t)
        /\ UNCHANGED <<sourceVars, map, sessionVars, todo, renamed, wrong,
                       ghosts, kept>>

(* realpath and the real rename *)
RenameBegin(t, from, to) ==
    /\ Begin(t, [Idle EXCEPT !.at = "rename capture", !.name = from,
                             !.to = to, !.locked = TRUE])
    /\ ~FileOpLocked
    /\ dir[from] # None /\ from # to
    /\ May("rename", from) /\ May("rename", to)
    /\ dir' = [dir EXCEPT ![to] = dir[from], ![from] = None]
    /\ UNCHANGED <<lastInode, data, fds, map, heap, sessionVars, failed, todo,
                   renamed, wrong, ghosts, kept, crashed>>

(* Only in a session: capture_rename with rename_locked, which returns at  *)
(* once if a destination cannot be made, without a report.                 *)
RenameCapture(t) ==
    LET from    == call[t].name
        to      == call[t].to
        found   == GetOrCreate(heap, from)
        o       == Lookup(found, from)
        created == TryToCreateDestination(found, o, Target(from))
        noDest  == Dest(created, o) = NoDestination
        gone    == DestinationIsGone(created, o)
    IN  /\ call[t].at = "rename capture"
        /\ running => ~TableLocked
        /\ \/ /\ ~running
              /\ UNCHANGED <<heap, failed, todo, crashed, renamed>>
           \/ /\ running
              /\ renamed' = renamed \cup {from, to}
              /\ IF noDest
                 THEN crashed' = "rename" /\ UNCHANGED <<heap, failed, todo>>
                 ELSE /\ heap' = TryToRemove(
                              RenameObject(created, o, to, Target(to)), o)
                      /\ failed' = (failed \/ gone)
                      /\ todo' = IF gone THEN todo
                                 ELSE todo \cup {Elsewhere}
                      /\ UNCHANGED crashed
           \/ /\ running /\ CreationFails("rename", found, o)
              /\ renamed' = renamed \cup {from, to}
              /\ heap' = found
              /\ UNCHANGED <<failed, todo, crashed>>
        /\ Return(t)
        /\ UNCHANGED <<sourceVars, map, sessionVars, wrong, ghosts, kept>>

----------------------------------------------------------------------------
(*                        The backup thread                                *)

(* The source_files of the descriptors up to last. *)
Mapped(last) == {map[fd] : fd \in 1..last} \ {Null}

(* prepare_directories_for_backup, for the descriptors up to last: backup  *)
(* s, which is new, gets an empty file for each source_file without a      *)
(* destination.                                                            *)
Prepare(h, s, last) ==
    LET bare  == {o \in Mapped(last) : NeedsDestination(h, o)}
        names == {h.objects[o].name : o \in bare}
        file  == CHOOSE f \in Injection(names, FreeBackupFiles(h)) : TRUE
    IN  [h EXCEPT
          !.bdir = [p \in Paths |-> IF p[1] = s /\ p[2] \in names
                                    THEN file[p[2]] ELSE @[p]],
          !.bdata = [b \in BackupFiles |-> IF b \in Range(file) THEN {}
                                           ELSE @[b]],
          !.objects = [o \in Objects |->
              IF o \in bare
              THEN [@[o] EXCEPT
                      !.dest = [file |-> file[h.objects[o].name],
                                path |-> <<s, h.objects[o].name>>]]
              ELSE @[o]]]

(* Mutant: the destinations of open files outlive the session. *)
DisableDescriptions_Forgotten(h) == h

(* disable_descriptions *)
DisableDescriptions(h) ==
    [h EXCEPT !.objects = [o \in Objects |->
        IF o \in Mapped(MaxFds) THEN TryToRemoveDestination(h, o).objects[o]
        ELSE @[o]]]

StartBackup ==
    /\ cpc = "idle"
    /\ ~TableLocked
    /\ session < MaxSessions
    /\ session' = session + 1
    /\ running' = TRUE
    /\ renamed' = {}
    /\ wrong' = {}
    /\ \/ /\ heap' = Prepare(heap, session + 1, MaxFds)
          /\ failed' = FALSE /\ cpc' = "list"
       \/ /\ \E fd \in {f \in Fds : map[f] # Null} :
               /\ heap' = Prepare(heap, session + 1, fd - 1)
               /\ CreationFails("prepare", heap', map[fd])
          /\ failed' = TRUE /\ cpc' = "stop"
    /\ UNCHANGED <<sourceVars, map, call, callsLeft, copying, todo, ghosts,
                   kept, crashed>>

(* add_dir_entries_to_todo *)
ListDirectory ==
    /\ cpc = "list"
    /\ todo' = todo \cup {n \in Names : dir[n] # None}
    /\ cpc' = "next"
    /\ UNCHANGED <<sourceVars, map, heap, call, callsLeft, session, running,
                   failed, copying, renamed, wrong, ghosts, kept, crashed>>

(* do_copy's loop, and stat: a name that has gone is skipped. *)
CopyNext ==
    /\ cpc = "next"
    /\ \/ /\ failed \/ todo = {}
          /\ cpc' = "stop"
          /\ UNCHANGED <<todo, copying>>
       \/ /\ ~failed
          /\ \E n \in todo :
               /\ todo' = todo \ {n}
               /\ IF n = Elsewhere \/ dir[n] = None
                  THEN UNCHANGED <<cpc, copying>>
                  ELSE /\ cpc' = "lookup"
                       /\ copying' = [copying EXCEPT !.name = n]
    /\ UNCHANGED <<sourceVars, map, heap, call, callsLeft, session, running,
                   failed, renamed, wrong, ghosts, kept, crashed>>

CopierVarsUnchanged ==
    UNCHANGED <<sourceVars, map, call, callsLeft, session, running, todo,
                renamed, wrong, ghosts, kept>>

CopyLookup ==
    /\ cpc = "lookup"
    /\ ~TableLocked
    /\ heap' = GetOrCreate(heap, copying.name)
    /\ copying' = [copying EXCEPT !.object = Lookup(heap', copying.name)]
    /\ cpc' = "open"
    /\ CopierVarsUnchanged /\ UNCHANGED <<failed, crashed>>

CopyOpenSource ==
    /\ cpc = "open"
    /\ copying' = [copying EXCEPT !.inode = dir[copying.name]]
    /\ cpc' = IF dir[copying.name] = None THEN "release" ELSE "create"
    /\ CopierVarsUnchanged /\ UNCHANGED <<heap, failed, crashed>>

(* lstat, and the destination if the name is still there *)
CopyCreate ==
    LET exists == dir[copying.name] # None IN
      /\ cpc = "create"
      /\ ~TableLocked
      /\ \/ /\ heap' = IF exists
                       THEN TryToCreateDestination(heap, copying.object,
                                                   Target(copying.name))
                       ELSE heap
            /\ cpc' = IF exists /\ Dest(heap', copying.object) # NoDestination
                      THEN "data" ELSE "close"
         \/ /\ exists /\ CreationFails("copy", heap, copying.object)
            /\ cpc' = "give up" /\ UNCHANGED heap
      /\ CopierVarsUnchanged /\ UNCHANGED <<copying, failed, crashed>>

(* copy_file_data: see CaptureCopy. *)
CopyData ==
    /\ cpc = "data"
    /\ CrashIf(Dest(heap, copying.object) = NoDestination, "copy")
    /\ heap' = IF failed THEN heap
               ELSE WriteDestination(heap, copying.object,
                                     Content(copying.inode))
    /\ cpc' = "close"
    /\ CopierVarsUnchanged /\ UNCHANGED <<copying, failed>>

CopyRemoveDestination ==
    /\ cpc = "close"
    /\ ~TableLocked
    /\ heap' = TryToRemoveDestination(heap, copying.object)
    /\ cpc' = "release"
    /\ CopierVarsUnchanged /\ UNCHANGED <<copying, failed, crashed>>

(* If there was an error do_copy and do_backup return it and report it.    *)
CopyRelease ==
    /\ cpc \in {"release", "give up"}
    /\ ~TableLocked
    /\ heap' = TryToRemove(heap, copying.object)
    /\ copying' = NothingToCopy
    /\ cpc' = IF cpc = "release" THEN "next" ELSE "stop"
    /\ failed' = (failed \/ cpc = "give up")
    /\ CopierVarsUnchanged /\ UNCHANGED crashed

(* Does the backup have what the source has under the name? *)
BackedUp(n) ==
    LET b == heap.bdir[Target(n)]
    IN  IF dir[n] = None THEN b = Null
        ELSE b # Null /\ heap.bdata[b] = Content(dir[n])

(* A call on such a name that has not returned may be in the backup or not. *)
Unsettled ==
    LET Used(t) == {call[t].object}
                     \cup {map[fd] : fd \in Fds \cap {call[t].fd}}
    IN  UNION {{call[t].name, call[t].to}
                 \cup {heap.objects[o].name : o \in Used(t) \ {Null}}
               : t \in Threads}

(* Files that two descriptors have open. *)
Shared ==
    {heap.objects[map[fd]].name :
       fd \in {f \in Fds :
                map[f] # Null /\ \E g \in Fds \ {f} : map[g] = map[f]}}

(* Files that are open more than once, or that a call has in hand. *)
KeptNames == (Unsettled \cup Shared) \ {NoName}

(* The session's write lock waits for who is inside the session, not for    *)
(* calls that are between two locked sections.                              *)
StopBackup ==
    /\ cpc = "stop"
    /\ ~TableLocked
    /\ running' = FALSE
    /\ failed' = FALSE
    /\ heap' = DisableDescriptions(heap)
    /\ wrong' = IF failed THEN {}
                ELSE {n \in Names \ Unsettled : ~BackedUp(n)}
    /\ kept' = kept \cup {Target(n) : n \in KeptNames}
    /\ todo' = {}
    /\ cpc' = "idle"
    /\ UNCHANGED <<sourceVars, map, call, callsLeft, session, copying,
                   renamed, ghosts, crashed>>

----------------------------------------------------------------------------

(* The files that exist at first have been written to once. *)
Init ==
    /\ \E existing \in Existing :
         dir = [n \in Names |-> IF n \in existing THEN n ELSE None]
    /\ lastInode = 0
    /\ data = [i \in Inodes |-> IF i \in Names THEN 1 ELSE 0]
    /\ fds = [fd \in Fds |-> None]
    /\ map = [fd \in Fds |-> Null]
    /\ heap = EmptyHeap
    /\ call = [t \in Threads |-> Idle]
    /\ callsLeft = MaxCalls
    /\ session = 0
    /\ running = FALSE /\ failed = FALSE /\ crashed = "no"
    /\ cpc = "idle"
    /\ copying = NothingToCopy
    /\ todo = {}
    /\ renamed = {}
    /\ wrong = {}
    /\ ghosts = {}
    /\ kept = {}

AppStep(t) ==
    \/ \E n \in Names, creates, truncates \in BOOLEAN :
         OpenBegin(t, n, creates, truncates)
    \/ OpenRealpath(t) \/ OpenTable(t) \/ OpenMap(t)
    \/ OpenCapture(t) \/ OpenTranslate(t)
    \/ \E fd \in Fds : CloseBegin(t, fd) \/ Write(t, fd)
    \/ CloseMap(t) \/ CloseTable(t)
    \/ \E n \in Names : TruncatePath(t, n) \/ UnlinkBegin(t, n)
    \/ UnlinkTable(t) \/ UnlinkCapture(t)
    \/ \E from, to \in Names : RenameBegin(t, from, to)
    \/ RenameCapture(t)

BackupStep ==
    \/ StartBackup \/ ListDirectory \/ CopyNext \/ CopyLookup
    \/ CopyOpenSource \/ CopyCreate \/ CopyData \/ CopyRemoveDestination
    \/ CopyRelease \/ StopBackup

(* A process that has crashed takes no more steps. *)
Next == crashed = "no" /\ (BackupStep \/ \E t \in Threads : AppStep(t))

Spec == Init /\ [][Next]_vars

----------------------------------------------------------------------------
(*                             Properties                                  *)

(* The source_files that a descriptor, a call or the copier refers to. *)
Users(o) ==
    {<<"fd", fd>> : fd \in {f \in Fds : map[f] = o}}
      \cup {<<"call", t>> : t \in {u \in Threads : call[u].object = o}}
      \cup (IF copying.object = o THEN {<<"copier">>} ELSE {})

(* A source_file has as many references as users: none is deleted under a  *)
(* user, and none is left over (hotbackup.tex's invariant 3).              *)
ReferencesMatchUsers ==
    \A o \in Objects :
      LET users == Users(o) IN
        /\ heap.objects[o].refs = Cardinality(users)
        /\ o \in heap.live <=> users # {}

(* The table has each source_file once, and no two of the same name:       *)
(* whoever looks a name up gets the object that its other users have       *)
(* (invariant 1 of hotbackup.tex).                                         *)
OneObjectPerName ==
    /\ ToSet(heap.table) = heap.live
    /\ Cardinality(heap.live) = Len(heap.table)
    /\ \A o, p \in heap.live :
         heap.objects[o].name = heap.objects[p].name => o = p

(* Nobody calls a method of a destination_file that is not there: not the  *)
(* copier, whose file may be closed or unlinked while it is copied, and    *)
(* neither unlink nor rename.  A null pointer is used by open, if the name *)
(* goes between two looks at it (backup_directory.cc:208), and by truncate *)
(* in a session, and nowhere else.                                         *)
DestinationsAreThere == crashed \in {"no", "open", "truncate"}

(* After a backup without errors, each name has in the backup the content  *)
(* that it has in the source when the session ends, and names that are not *)
(* in the source are not in the backup, whatever was opened, created,      *)
(* written, closed and unlinked meanwhile.  Excepted are names that were   *)
(* renamed in the session, names that a call had in hand when an earlier   *)
(* backup ended, and names that an open looked up after an unlink that     *)
(* began and ended in between.                                             *)
UnrenamedFilesAreBackedUp ==
    wrong \subseteq
      renamed \cup ghosts \cup {p[2] : p \in {q \in kept : q[1] < session}}

(* The backup p may not change any more. *)
Finished(p) == p[1] < session \/ (p[1] = session /\ ~running)

SameInBackup(p) ==
    /\ heap'.bdir[p] = heap.bdir[p]
    /\ heap.bdir[p] # Null =>
         heap'.bdata[heap.bdir[p]] = heap.bdata[heap.bdir[p]]

(* In a finished backup nothing is changed but files that were open more   *)
(* than once, or in the hands of a call, when it ended: their destinations *)
(* may outlive the session, and nobody else's does.                        *)
FinishedBackupsStay ==
    [][\A p \in Paths \ kept : Finished(p) => SameInBackup(p)]_vars

====
