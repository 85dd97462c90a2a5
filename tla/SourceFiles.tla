---- MODULE SourceFiles ----
(***************************************************************************)
(* The objects behind file names: source_file objects with their reference *)
(* counts and destinations (source_file.cc), the hash table that finds     *)
(* them by name (file_hash_table.cc), and the backup directories that the  *)
(* destinations live in.                                                   *)
(*                                                                         *)
(* All of it is one record, which the operators of this module transform   *)
(* as the functions of the code do under the table's mutex:                *)
(*   objects  the source_file at each address                              *)
(*   live     the addresses that are allocated                             *)
(*   table    the entries of the table, newest first                       *)
(*   bdir     the backup file that has each path                           *)
(*   bdata    what each backup file contains                               *)
(* The table has one chain.  Entries of the same name share a chain in the *)
(* code, too, and are met in this order until the table is resized.        *)
(* Calls on the backup directories fail only if a name is not there, but   *)
(* for the creation of a destination: see FileTable.                       *)
(***************************************************************************)
EXTENDS Integers, Sequences, SequencesExt, FiniteSets, FiniteSetsExt

CONSTANTS Names,        \* file names, relative to the source directory
          MaxSessions,  \* bound: backups taken, each to a directory of its own
          MaxObjects,   \* bound: source_files that are alive at once
          NoName        \* not a name

Null == 0
Objects == 1..MaxObjects

(* The destination of a name in each backup. *)
Paths == (1..MaxSessions) \X Names

(* Enough: each path and each object has at most one. *)
BackupFiles == 1..(Cardinality(Names) * MaxSessions + MaxObjects)

(* A destination_file: what its fd is open on, and its path. *)
NoDestination == [file |-> Null, path |-> <<0, NoName>>]

NoObject == [name |-> NoName, refs |-> 0, unlinked |-> FALSE,
             dest |-> NoDestination]

EmptyHeap == [objects |-> [o \in Objects |-> NoObject],
              live    |-> {},
              table   |-> <<>>,
              bdir    |-> [p \in Paths |-> Null],
              bdata   |-> [b \in BackupFiles |-> {}]]

Dest(h, o) == h.objects[o].dest

----------------------------------------------------------------------------
(*                          The hash table                                 *)

Position(h, name) ==
    SelectInSeq(h.table, LAMBDA o : h.objects[o].name = name)

(* file_hash_table::get *)
Lookup(h, name) ==
    LET i == Position(h, name) IN IF i = 0 THEN Null ELSE h.table[i]

(* Nothing is inserted twice. *)
Put(h, o) ==
    IF o \in Range(h.table) THEN h ELSE [h EXCEPT !.table = <<o>> \o @]

FreshObject(h) == Min(Objects \ h.live)

(* The caller gets Lookup(GetOrCreate(h, name), name), with a reference. *)
GetOrCreate(h, name) ==
    LET found == Lookup(h, name)
        new   == FreshObject(h)
    IN  IF found # Null
        THEN [h EXCEPT !.objects[found].refs = @ + 1]
        ELSE Put([h EXCEPT !.live = @ \cup {new},
                           !.objects[new] = [NoObject EXCEPT !.name = name,
                                                             !.refs = 1]], new)

(* file_hash_table::remove unhooks the first entry that has the name of o, *)
(* whether or not it is o.                                                 *)
Unhook(h, o) ==
    LET i == Position(h, h.objects[o].name)
    IN  IF i = 0 THEN h ELSE [h EXCEPT !.table = RemoveAt(@, i)]

----------------------------------------------------------------------------
(*                           Destinations                                  *)

(* Mutant: the destination is closed under other users of the file. *)
TryToRemoveDestination_Always(h, o) ==
    [h EXCEPT !.objects[o].dest = NoDestination]

(* Close and delete the destination, unless others use the source_file. *)
TryToRemoveDestination(h, o) ==
    IF h.objects[o].refs > 1 THEN h
    ELSE [h EXCEPT !.objects[o].dest = NoDestination]

FreeBackupFiles(h) ==
    BackupFiles \ (Range(h.bdir) \cup {Dest(h, o).file : o \in h.live})

FreshBackupFile(h) == Min(FreeBackupFiles(h))

(* There is no destination, and the file was not unlinked. *)
NeedsDestination(h, o) ==
    ~h.objects[o].unlinked /\ Dest(h, o) = NoDestination

(* open(O_CREAT), if need be. *)
TryToCreateDestination(h, o, path) ==
    IF ~NeedsDestination(h, o) THEN h
    ELSE LET exists == h.bdir[path] # Null
             b      == IF exists THEN h.bdir[path] ELSE FreshBackupFile(h)
         IN  [h EXCEPT !.bdir[path] = b,
                       !.bdata[b] = IF exists THEN @ ELSE {},
                       !.objects[o].dest = [file |-> b, path |-> path]]

(* The path of the destination has gone: unlink and rename get ENOENT. *)
DestinationIsGone(h, o) == h.bdir[Dest(h, o).path] = Null

(* What is written to a file without a destination is not mirrored. *)
WriteDestination(h, o, content) ==
    IF Dest(h, o) = NoDestination THEN h
    ELSE [h EXCEPT !.bdata[Dest(h, o).file] = @ \cup content]

(* destination_file::unlink *)
UnlinkDestination(h, o) == [h EXCEPT !.bdir[Dest(h, o).path] = Null]

(* destination_file::rename *)
RenameDestination(h, o, to) ==
    LET from == Dest(h, o).path
        pathChanged == [h EXCEPT !.objects[o].dest.path = to]
    IN  IF from = to \/ DestinationIsGone(h, o) THEN pathChanged
        ELSE [pathChanged EXCEPT !.bdir[to] = h.bdir[from],
                                 !.bdir[from] = Null]

----------------------------------------------------------------------------
(*                        Lifetimes and names                              *)

(* Mutant: a source_file is deleted and stays in the table. *)
TryToRemove_LeavesEntry(h, o) ==
    LET released == [h EXCEPT !.objects[o].refs = @ - 1]
    IN  IF released.objects[o].refs > 0 THEN released
        ELSE [released EXCEPT !.live = @ \ {o}, !.objects[o] = NoObject]

(* Give a reference back; with the last one, close the destination, unhook *)
(* the object and delete it.                                               *)
TryToRemove(h, o) ==
    LET released == [h EXCEPT !.objects[o].refs = @ - 1]
        removed  == Unhook(TryToRemoveDestination(released, o), o)
    IN  IF released.objects[o].refs > 0 THEN released
        ELSE [removed EXCEPT !.live = @ \ {o}, !.objects[o] = NoObject]

(* file_hash_table::rename: unhook, rename source_file and backup file, and *)
(* hook in again if the backup file was there.                             *)
RenameObject(h, o, to, path) ==
    LET unhooked == Unhook(h, o)
        renamed  == [unhooked EXCEPT !.objects[o].name = to]
        moved    == RenameDestination(renamed, o, path)
    IN  IF DestinationIsGone(h, o) THEN moved ELSE Put(moved, o)

====
