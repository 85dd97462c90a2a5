------------------------ MODULE FileTableInvariants ------------------------
(***************************************************************************)
(* What the proofs about FileTable say of its states and steps: the        *)
(* hypotheses of the theorems, the inductive invariants IInv and DataInv,  *)
(* and what the functions of SourceFiles do to the heap.                   *)
(***************************************************************************)
EXTENDS FileTable

(* The application renames no file that is in use, and no file to the name  *)
(* of one; and unlink and rename, which would keep their reference, get     *)
(* their destinations.                                                      *)
Orderly ==
    /\ "rename" \notin Liberties
    /\ Failures \cap {"unlink", "rename"} = {}

(* No file is created at a name that is in use. *)
NoRecreation == "create" \notin Liberties

(* Files may be opened again all the same, while they are open. *)
Tame == Orderly /\ NoRecreation

(* There is memory for a source_file for each of its possible users. *)
EnoughObjects == MaxObjects >= MaxFds + Cardinality(Threads) + 1

----------------------------------------------------------------------------
(*                       The inductive invariant                           *)

Destinations == [file : BackupFiles, path : Paths] \cup {NoDestination}

SourceFileType == [name : Names \cup {NoName}, refs : Nat,
                   unlinked : BOOLEAN, dest : Destinations]

HeapType == [objects : [Objects -> SourceFileType],
             live    : SUBSET Objects,
             table   : Seq(Objects),
             bdir    : [Paths -> BackupFiles \cup {Null}],
             bdata   : [BackupFiles -> SUBSET (Inodes \X Nat)]]

Entries(table) == {table[k] : k \in 1..Len(table)}

Distinct(table) ==
    \A j, k \in 1..Len(table) : table[j] = table[k] => j = k

(* The table has each source_file once and no two of one name. *)
Tidy(h) ==
    /\ h \in HeapType
    /\ Distinct(h.table) /\ Entries(h.table) = h.live
    /\ \A o \in h.live : h.objects[o].name \in Names
    /\ \A o, p \in h.live : h.objects[o].name = h.objects[p].name => o = p
    /\ \A o \in Objects \ h.live : h.objects[o] = NoObject

NameOf(o) == heap.objects[o].name

HoldsObject == {"open map", "close table", "unlink capture"}
OpenSteps ==
    {"open realpath", "open table", "open map", "open capture", "open translate"}
HoldsFd == OpenSteps \cup {"close map", "close table"}
BeforeTable == {"open realpath", "open table"}
Locks == {"unlink table", "unlink capture", "rename capture"}
Steps == {"idle"} \cup HoldsFd \cup Locks

CallType ==
    [at : Steps, name : Names \cup {NoName}, to : Names \cup {NoName},
     fd : Fds \cup {0}, object : Objects \cup {Null}, locked : BOOLEAN]

CopierHolds == {"open", "create", "data", "close", "release", "give up"}

TypeInv ==
    /\ dir \in [Names -> Inodes \cup {None}]
    /\ lastInode \in 0..MaxCalls /\ lastInode + callsLeft <= MaxCalls
    /\ data \in [Inodes -> Nat]
    /\ fds \in [Fds -> Inodes \cup {None}]
    /\ map \in [Fds -> Objects \cup {Null}]
    /\ call \in [Threads -> CallType]
    /\ callsLeft \in 0..MaxCalls
    /\ session \in 0..MaxSessions
    /\ running \in BOOLEAN /\ failed \in BOOLEAN
    /\ crashed \in {"no", "open", "truncate", "unlink", "rename", "copy"}
    /\ cpc \in {"idle", "list", "next", "lookup", "stop"} \cup CopierHolds
    /\ copying \in [name : Names \cup {NoName}, object : Objects \cup {Null},
                    inode : Inodes \cup {None}]
    /\ todo \subseteq Names \cup {Elsewhere}
    /\ renamed \subseteq Names /\ wrong \subseteq Names
    /\ ghosts \subseteq Names /\ kept \subseteq Paths

(* What a call has in hand, by where it is. *)
CallOk(t) ==
    LET c == call[t] IN
      /\ c.object # Null <=> c.at \in HoldsObject
      /\ c.fd # 0 <=> c.at \in HoldsFd
      /\ c.at \in Locks => c.locked
      /\ c.at \in Locks \cup OpenSteps => c.name \in Names
      /\ c.at = "rename capture" => c.to \in Names /\ c.to # c.name
      /\ c.at \in HoldsFd => fds[c.fd] # None
      /\ c.at \in {"open realpath", "open table", "open map", "close table"} =>
           map[c.fd] = Null
      /\ c.at \in {"open capture", "open translate", "close map"} =>
           map[c.fd] # Null
      /\ c.at \in {"open map", "unlink capture"} => NameOf(c.object) = c.name
      /\ c.at \in {"open capture", "open translate"} => NameOf(map[c.fd]) = c.name
      /\ c.at = "open translate" => running

CallInv == \A t \in Threads : CallOk(t)

(* No two calls work on one descriptor, and one call at a time has the     *)
(* file-operation mutex.                                                   *)
ApartInv ==
    /\ \A t, u \in Threads :
         t # u => /\ call[t].fd # 0 => call[t].fd # call[u].fd
                  /\ ~(call[t].locked /\ call[u].locked)
    /\ \A fd \in Fds : fds[fd] = None => map[fd] = Null

(* Where the copier is, and what it has in hand. *)
CopierInv ==
    /\ running <=> cpc # "idle"
    /\ copying.object # Null <=> cpc \in CopierHolds
    /\ cpc \in CopierHolds \cup {"lookup"} => copying.name \in Names
    /\ cpc \in {"create", "data"} => copying.inode # None

(* The reference counts. *)
RefsInv == ReferencesMatchUsers

(* A descriptor is open on the file that has its source_file's name, or    *)
(* the name has gone.                                                      *)
Held(fd, o) ==
    \/ fds[fd] = dir[NameOf(o)]
    \/ heap.objects[o].unlinked
    \/ Unlinking(NameOf(o))
    \/ NameOf(o) \in ghosts

AllHeld ==
    /\ \A fd \in Fds : map[fd] # Null => Held(fd, map[fd])
    /\ \A t \in Threads :
         /\ call[t].at \in {"open map", "close table"} =>
              Held(call[t].fd, call[t].object)
         /\ call[t].at \in BeforeTable =>
              dir[call[t].name] \in {fds[call[t].fd], None}

HeldInv == Tame => AllHeld

(* An unlinked file has no name; what is being unlinked has been there. *)
UnlinkedAreGone ==
    /\ \A o \in heap.live : heap.objects[o].unlinked => dir[NameOf(o)] = None
    /\ \A t \in Threads :
         call[t].at \in {"unlink table", "unlink capture"} =>
           /\ dir[call[t].name] = None
           /\ \A o \in heap.live :
                NameOf(o) = call[t].name => ~heap.objects[o].unlinked

UnlinkInv == NoRecreation => UnlinkedAreGone

(* Nobody but the copier uses the names of a rename. *)
RenameInv ==
    \A t \in Threads :
      call[t].at = "rename capture" =>
        LET names == {call[t].name, call[t].to} IN
          /\ \A o \in heap.live :
               NameOf(o) \in names => /\ ~heap.objects[o].unlinked
                                      /\ \A fd \in Fds : map[fd] # o
                                      /\ \A u \in Threads : call[u].object # o
          /\ \A u \in Threads :
               call[u].at \in BeforeTable => call[u].name \notin names

(* No file has two paths, and none is in a backup that is to come. *)
FilesApart(h, s) ==
    /\ \A p, q \in Paths : h.bdir[p] = h.bdir[q] /\ h.bdir[p] # Null => p = q
    /\ \A p \in Paths : h.bdir[p] # Null => p[1] <= s

(* A destination at path for a source_file e in backup s, or in one that   *)
(* it has outlived: at the name of the source_file, until that is unlinked. *)
DestinationOk(bdir, e, s, old) ==
    LET d == e.dest IN
      /\ \A p \in Paths : bdir[p] = d.file => p = d.path
      /\ d.path[2] = e.name
      /\ d.path[1] = s \/ d.path \in old
      /\ e.unlinked \/ bdir[d.path] # Null

DestinationsIn(h, s, old) ==
    \A o \in h.live :
      Dest(h, o) # NoDestination => DestinationOk(h.bdir, h.objects[o], s, old)

(* There is no backup 0. *)
Current == IF running THEN session ELSE 0

BackupInv ==
    /\ FilesApart(heap, session)
    /\ DestinationsIn(heap, Current, kept)
    /\ running => session > 0
    /\ \A p \in kept : p[1] <= session /\ (running => p[1] < session)

(* The copier has the source_file of the name it copies, or that was       *)
(* renamed, with its destination, or unlinked.                             *)
CopyInv ==
    /\ cpc \in {"open", "create"} =>
         \/ NameOf(copying.object) = copying.name
         \/ ~NeedsDestination(heap, copying.object)
    /\ cpc = "data" => Dest(heap, copying.object) # NoDestination

CrashInv ==
    /\ crashed \notin {"copy", "rename"}
    /\ NoRecreation => crashed # "unlink"

IInv ==
    /\ TypeInv /\ Tidy(heap) /\ CallInv /\ ApartInv /\ CopierInv /\ RefsInv
    /\ HeldInv /\ UnlinkInv /\ RenameInv /\ BackupInv /\ CopyInv
    /\ CrashInv

----------------------------------------------------------------------------
(*               What a step does to the heap, from h to g                 *)

(* Nothing but the entry of o differs. *)
OnlyObject(h, g, o) == \A p \in Objects \ {o} : g.objects[p] = h.objects[p]

SameFiles(h, g) == g.bdir = h.bdir /\ g.bdata = h.bdata

WithReference(e) == [e EXCEPT !.refs = @ + 1]

NewObject(name) == [NoObject EXCEPT !.name = name, !.refs = 1]

WithFiles(h, bdir, bdata) == [h EXCEPT !.bdir = bdir, !.bdata = bdata]

(* From h to g, o gets the destination b at path. *)
DestinationCreated(h, g, o, path, b) ==
    /\ Tidy(g) /\ OnlyObject(h, g, o)
    /\ g.live = h.live /\ g.table = h.table
    /\ h.bdir[path] # Null => b = h.bdir[path]
    /\ h.bdir[path] = Null => b \in FreeBackupFiles(h)
    /\ g.bdir = [h.bdir EXCEPT ![path] = b]
    /\ \A c \in BackupFiles : c = b \/ g.bdata[c] = h.bdata[c]
    /\ h.bdir[path] # Null => g.bdata = h.bdata
    /\ h.bdir[path] = Null => g.bdata[b] = {}
    /\ g.objects[o] = [h.objects[o] EXCEPT
                         !.dest = [file |-> b, path |-> path]]

(* A source_file with its new name and its destination's new path. *)
RenamedTo(e, to, path) ==
    [e EXCEPT !.name = to, !.dest = [file |-> e.dest.file, path |-> path]]

Released(e) == [e EXCEPT !.refs = @ - 1]

(* A backup directory in which a file was renamed. *)
Moved(bdir, from, to) ==
    IF from = to THEN bdir
    ELSE [bdir EXCEPT ![to] = bdir[from], ![from] = Null]

(* Names, references and marks stay as they are. *)
SameIdentity(h, g) ==
    /\ g.live = h.live
    /\ \A o \in Objects : /\ g.objects[o].name = h.objects[o].name
                          /\ g.objects[o].refs = h.objects[o].refs
                          /\ g.objects[o].unlinked = h.objects[o].unlinked

(* The file that backup s has at the name is the destination of the        *)
(* source_file of that name, if that has one, and of no other.             *)
DestAgrees(h, s, n) ==
    \A o \in h.live :
      Dest(h, o) # NoDestination =>
        (Dest(h, o).file = h.bdir[<<s, n>>]
           <=> h.objects[o].name = n /\ ~h.objects[o].unlinked)

(* No file of backup s has two names. *)
OnePath(h, s) ==
    \A m, n \in Names :
      h.bdir[<<s, m>>] = h.bdir[<<s, n>>] /\ h.bdir[<<s, m>>] # Null => m = n

(* What the backups before s have stays as it is, but for the paths old. *)
StaysBefore(h, g, s, old) ==
    \A p \in Paths \ old :
      p[1] < s => /\ g.bdir[p] = h.bdir[p]
                  /\ h.bdir[p] # Null => g.bdata[h.bdir[p]] = h.bdata[h.bdir[p]]

(* The backups stay as they are, and no destination is made. *)
NoNewDestination(h, g) ==
    /\ SameFiles(h, g)
    /\ \A o \in g.live :
         Dest(g, o) # NoDestination =>
           /\ o \in h.live /\ Dest(g, o) = Dest(h, o)
           /\ g.objects[o].name = h.objects[o].name
           /\ h.objects[o].unlinked => g.objects[o].unlinked

(* The effect of the end of unlink. *)
Unlinked(h, g, o) ==
    /\ Tidy(g) /\ OnlyObject(h, g, o)
    /\ h.objects[o].refs > 1 =>
         /\ g.live = h.live
         /\ g.objects[o].name = h.objects[o].name
         /\ g.objects[o].refs = h.objects[o].refs - 1
         /\ g.objects[o].unlinked
         /\ Dest(h, o) # NoDestination => Dest(g, o) = Dest(h, o)
    /\ h.objects[o].refs = 1 => g.live = h.live \ {o} /\ g.objects[o] = NoObject

WithDestination(e, file, path) ==
    [e EXCEPT !.dest = [file |-> file, path |-> path]]

(* A new backup: what is open, has a name and has not kept the destination *)
(* that it had in an earlier one gets an empty file of its own.            *)
Prepared(h, g, s, last, old) ==
    /\ \A o \in Mapped(last) :
         ~h.objects[o].unlinked => Dest(g, o) # NoDestination
    /\ \A n \in Names :
         g.bdir[<<s, n>>] # Null =>
           /\ g.bdata[g.bdir[<<s, n>>]] = {}
           /\ \E o \in Mapped(last) :
                h.objects[o].name = n /\ ~h.objects[o].unlinked
    /\ OnePath(g, s)
    /\ \A n \in Names \ {p[2] : p \in old} : DestAgrees(g, s, n)

(* The name has in backup s what it had. *)
BackupSame(h, g, s, n) ==
    /\ g.bdir[<<s, n>>] = h.bdir[<<s, n>>]
    /\ h.bdir[<<s, n>>] # Null =>
         g.bdata[h.bdir[<<s, n>>]] = h.bdata[h.bdir[<<s, n>>]]

(* No destination is made, and the source_files that keep theirs keep      *)
(* their names and marks.                                                  *)
Still(h, g) ==
    /\ SameFiles(h, g)
    /\ \A o \in g.live :
         Dest(g, o) # NoDestination =>
           /\ o \in h.live /\ Dest(g, o) = Dest(h, o)
           /\ g.objects[o].name = h.objects[o].name
           /\ g.objects[o].unlinked = h.objects[o].unlinked

(* A new destination: the file that the name has, or a new, empty one. *)
BackupCreated(h, g, s, n) ==
    /\ OnePath(g, s)
    /\ \A m \in Names : DestAgrees(h, s, m) => DestAgrees(g, s, m)
    /\ \A m \in Names :
         \/ BackupSame(h, g, s, m)
         \/ /\ m = n /\ h.bdir[<<s, m>>] = Null
            /\ g.bdir[<<s, m>>] # Null /\ g.bdata[g.bdir[<<s, m>>]] = {}

(* The names that a rename is not about have in backup s what they had. *)
BackupRenamed(h, g, s, from, to) ==
    /\ OnePath(g, s)
    /\ \A m \in Names \ {from, to} :
         /\ BackupSame(h, g, s, m)
         /\ DestAgrees(h, s, m) => DestAgrees(g, s, m)

(* Names and marks stay, and new source_files are not marked. *)
NamesStay(h, g) ==
    \A o \in g.live :
      /\ o \in h.live => /\ g.objects[o].name = h.objects[o].name
                         /\ g.objects[o].unlinked = h.objects[o].unlinked
      /\ o \notin h.live => ~g.objects[o].unlinked

(* The effect of get_or_create for whoever holds no source_file yet. *)
Takes(h, g, n, o) ==
    /\ Tidy(g) /\ NoNewDestination(h, g) /\ OnlyObject(h, g, o)
    /\ NamesStay(h, g)
    /\ g.live = h.live \cup {o} /\ g.objects[o].name = n /\ o = Lookup(g, n)
    /\ o \in h.live => g.objects[o].refs = h.objects[o].refs + 1
    /\ o \notin h.live => g.objects[o].refs = 1
    /\ \A p \in h.live : Dest(g, p) = Dest(h, p)

(* The effect of try_to_remove for a user who returns its reference. *)
Returns(h, g, o) ==
    /\ Tidy(g) /\ NoNewDestination(h, g) /\ OnlyObject(h, g, o)
    /\ NamesStay(h, g)
    /\ h.objects[o].refs > 1 =>
         g.live = h.live /\ g.objects[o].refs = h.objects[o].refs - 1
    /\ h.objects[o].refs = 1 => g.live = h.live \ {o} /\ g.objects[o] = NoObject
    /\ \A p \in g.live : p \in h.live /\ Dest(g, p) = Dest(h, p)

(* The effect of the end of rename, which gives its reference back. *)
Renamed(h, g, o, from, to) ==
    /\ Tidy(g) /\ OnlyObject(h, g, o) /\ g.live = h.live
    /\ o \in h.live => /\ h.objects[o].name = from /\ g.objects[o].name = to
                       /\ g.objects[o].refs = h.objects[o].refs
                       /\ ~g.objects[o].unlinked
                       /\ Dest(g, o) # NoDestination
    /\ o \notin h.live => g.objects[o] = h.objects[o]

----------------------------------------------------------------------------
(*                     What the backup has, name by name                   *)

(* Names that were open more than once, or in the hands of a call, when an  *)
(* earlier backup ended.                                                    *)
Stale == {p[2] : p \in {q \in kept : q[1] < session}}

(* Nobody has renamed it in the session, or is about to; it is no ghost,    *)
(* and no earlier backup has left a destination of it.                      *)
Unmoved(n) == n \notin renamed \cup ghosts \cup Stale /\ ~Renaming(n)

(* The session goes well so far: who gives up says so when it has released *)
(* the source_file.                                                        *)
Healthy == running /\ ~failed /\ cpc # "give up"

BackupOf(n) == heap.bdir[Target(n)]

DestInv == /\ OnePath(heap, session)
           /\ \A n \in Names : Unmoved(n) => DestAgrees(heap, session, n)

(* The descriptor of the call is not mapped yet. *)
Opening(t) == call[t].at \in {"open realpath", "open table", "open map"}

(* Inodes that exist, or can exist. *)
Known == Names \cup (1..lastInode) \cup {None}

(* An inode has one name; what is open on it is mapped to the source_file  *)
(* of that name, or is going to be, or is being closed.                    *)
InodeInv ==
    /\ \A n \in Names : dir[n] \in Known
    /\ \A fd \in Fds : fds[fd] \in Known
    /\ \A i \in 1..MaxCalls : i > lastInode => data[i] = 0
    /\ \A m, n \in Names : dir[m] = dir[n] /\ dir[m] # None => m = n
    /\ \A fd \in Fds, n \in Names : fds[fd] # None /\ fds[fd] = dir[n] =>
         IF map[fd] # Null THEN NameOf(map[fd]) = n
         ELSE \E t \in Threads : call[t].fd = fd
    /\ \A t \in Threads, n \in Names :
         Opening(t) /\ fds[call[t].fd] = dir[n] => n = call[t].name

(* What can be written to through a descriptor has a destination. *)
WriteOk(fd) ==
    /\ map[fd] # Null /\ fds[fd] = dir[NameOf(map[fd])]
    /\ \A t \in Threads : call[t].fd # fd
    /\ Unmoved(NameOf(map[fd]))
    => Dest(heap, map[fd]) # NoDestination

WriteInv == \A fd \in Fds : WriteOk(fd)

(* The copier reads the file that it writes to. *)
CopyingInv ==
    cpc \in {"open", "create", "data"} =>
      \A o \in Objects, n \in Names :
        o = copying.object /\ n = NameOf(o) =>
          /\ n = copying.name \/ (~Unmoved(n) /\ ~Unmoved(copying.name))
          /\ cpc # "open" /\ Unmoved(n) /\ ~heap.objects[o].unlinked =>
               copying.inode = dir[n] \/ Unlinking(n)

(* A file that has gone, or is going, is not in the backup. *)
GoneOk(n) == dir[n] = None /\ ~Unlinking(n) => BackupOf(n) = Null

(* The backup has nothing that the file has not. *)
ContentOk(n) ==
    dir[n] # None /\ BackupOf(n) # Null =>
      heap.bdata[BackupOf(n)] \subseteq Content(dir[n])

(* The copier will get to the name, or its open has not returned, or the   *)
(* backup has it.                                                          *)
ToCopy(n) ==
    \/ cpc = "list"
    \/ n \in todo
    \/ cpc \in {"lookup", "open", "create", "data"} /\ copying.name = n

BeingOpened(n) ==
    \E t \in Threads : call[t].at \in OpenSteps /\ call[t].name = n

Fresh(n) == BackupOf(n) = Null /\ data[dir[n]] = 0 /\ BeingOpened(n)

Complete(n) == BackupOf(n) # Null /\ heap.bdata[BackupOf(n)] = Content(dir[n])

CoverOk(n) == dir[n] # None => ToCopy(n) \/ Fresh(n) \/ Complete(n)

NameOk(n) == GoneOk(n) /\ ContentOk(n) /\ CoverOk(n)

NamesInv == \A n \in Names : Unmoved(n) => NameOk(n)

StopInv == cpc = "stop" => todo \cap Names = {}

ResultInv == wrong \subseteq renamed \cup ghosts \cup Stale

SessionInv ==
    Healthy => DestInv /\ WriteInv /\ CopyingInv /\ NamesInv /\ StopInv

DataInv == InodeInv /\ ResultInv /\ SessionInv

----------------------------------------------------------------------------
(*                        What steps have in common                        *)

Actors == ({"fd"} \X Fds) \cup ({"call"} \X Threads) \cup {<<"copier">>}

InHandLive ==
    /\ \A fd \in Fds : map[fd] # Null => map[fd] \in heap.live
    /\ \A t \in Threads : call[t].object # Null => call[t].object \in heap.live
    /\ copying.object # Null => copying.object \in heap.live

(* The other threads are where they were. *)
OthersWait(t) == \A u \in Threads \ {t} : call'[u] = call[u]

(* A source_file keeps its name and its mark. *)
Kept(o) ==
    /\ o \in heap.live /\ o \in heap'.live
    /\ heap'.objects[o].name = heap.objects[o].name
    /\ heap.objects[o].unlinked => heap'.objects[o].unlinked

(* What is in hand of anybody but t is kept. *)
InHandKept(t) ==
    /\ \A fd \in Fds : map[fd] # Null => Kept(map[fd])
    /\ \A u \in Threads \ {t} : call[u].object # Null => Kept(call[u].object)

(* The step does not touch the descriptors of other calls. *)
OtherDescriptorsKept(t) ==
    \A u \in Threads \ {t}, fd \in Fds :
      fd = call[u].fd => map'[fd] = map[fd] /\ fds'[fd] = fds[fd]

(* The name stays on its inode, or is being unlinked. *)
Steady(n) ==
    Unlinking(n)' \/ (dir'[n] = dir[n] /\ ~Unlinking(n))

UnlinkSteps == {"unlink table", "unlink capture"}

(* The source and the backup have under the name what they had. *)
SameName(n) ==
    /\ dir'[n] = dir[n] /\ (dir[n] # None => data'[dir[n]] = data[dir[n]])
    /\ BackupSame(heap, heap', session, n)

(* What rename does to the source_file o, with its destination. *)
RenameSteps(h, s, from, to, k, o, c, g) ==
    /\ k = GetOrCreate(h, from) /\ o = Lookup(k, from)
    /\ c = TryToCreateDestination(k, o, <<s, from>>)
    /\ g = TryToRemove(RenameObject(c, o, to, <<s, to>>), o)

(* A name of which nobody has anything gets its first file. *)
FirstFile(n) ==
    /\ dir[n] = None /\ ~Unlinking(n) /\ dir'[n] # None /\ data[dir'[n]] = 0
    /\ \A o \in heap.live : NameOf(o) = n => ~heap.objects[o].unlinked

(* A new descriptor, of a new file or of one that is there. *)
Opens(t, fd, n, i) ==
    /\ OthersWait(t) /\ call[t] = Idle /\ fds[fd] = None /\ i # None /\ i \in Known'
    /\ dir' = [dir EXCEPT ![n] = i] /\ fds' = [fds EXCEPT ![fd] = i]
    /\ \A m \in Names \ {n} : dir[m] # i
    /\ dir[n] = i \/ \A gd \in Fds : fds[gd] # None => fds[gd] # i
    /\ UNCHANGED <<heap, map, data>>
    /\ lastInode \in Nat /\ lastInode' \in Nat /\ lastInode' >= lastInode
    /\ call'[t].fd = fd /\ call'[t].name = n

============================================================================
