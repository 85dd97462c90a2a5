---- MODULE CopierTree ----
(***************************************************************************)
(* The copier's walk over the source directories (copier.cc, dirsum.cc)    *)
(* while an application opens, makes, removes and renames files and        *)
(* directories below them (backup_directory.cc, manager.cc).               *)
(*                                                                         *)
(* A name is a path below a source directory, a sequence of components;    *)
(* the source directory itself is <<>>, the copier's ".".  A tree tells of *)
(* each name what is there.  The content of a file is only told from an    *)
(* unfinished one: CaptureCopy and FileTable are about data, descriptors   *)
(* and source_file objects.                                                *)
(*                                                                         *)
(* A call of the application is two steps, the system call on the source   *)
(* and what the library does after it.  open (with O_CREAT), unlink and    *)
(* rename hold the file-operation mutex over both; mkdir does not; rmdir   *)
(* is not intercepted at all.                                              *)
(***************************************************************************)
EXTENDS Naturals, Sequences, FiniteSets, SequencesExt

CONSTANTS
    Sources,        \* number of pairs of source and destination directories
    Names,          \* names below a source directory, closed under Parent
    Directories,    \* those that are directories when the backup starts
    Contents,       \* what a source may have when the backup starts
    Excluded,       \* those that exclude_copy() rejects, called with ...
    ExcludedInBackup, \* ... the name in the source, or in the destination
    Threads,
    MaxCalls,       \* bound: calls of the application
    Calls           \* the calls it makes

FileOps == {"open", "unlink", "rename"}
Root == <<>>
Null == <<"null">>
Foreign == <<"foreign">>
All == Names \cup {Root}
Parent(p) == Front(p)
Ancestors(p) == {SubSeq(p, 1, n) : n \in 0..(Len(p) - 1)}
Children(p) == {n \in Names : Parent(n) = p}
Below(p) == {n \in Names : IsPrefix(p, n)}
Components == UNION {Range(p) : p \in Names}

ASSUME CopierTreeAssumption ==
    /\ Sources \in Nat \ {0} /\ MaxCalls \in Nat
    /\ IsFiniteSet(Names) /\ {Root, Null, Foreign} \cap Names = {}
    /\ Names \subseteq Seq(Components)
    /\ \A p \in Names : Parent(p) \in All
    /\ Directories \subseteq Names
    /\ \A c \in Contents : \A p \in c : p \in Names /\
         (Parent(p) = Root \/ Parent(p) \in c \cap Directories)
    /\ Excluded \subseteq Names /\ ExcludedInBackup \subseteq Names
    /\ Calls \subseteq FileOps \cup {"mkdir", "rmdir"}

VARIABLES
    (* the directories *)
    tree,           \* what each source has under each name
    backup,         \* what each destination has; "part" is a file without
                    \* the content that its source had before the session
    (* the copier *)
    pc,             \* where the backup thread is
    index,          \* the pair of directories being copied
    todo,           \* m_todo: names, Null for a freed entry, and Foreign for
                    \* a name that rename added, a path in the destination
    known,          \* n_known, read after each entry
    entry,          \* fname
    listed,         \* what the open DIR had when it was opened; NoDir: NULL
    total, done,    \* m_total_bytes_to_back_up, m_total_bytes_backed_up, in
                    \* files
    rc,             \* what do_copy returns: "ok", "aborted", "error"
    (* the session and the application *)
    failed,         \* backup_error was called: capture and copy are off
    call, callsLeft,
    (* history *)
    touched,        \* names that a rename, or a mkdir of the session, took
                    \* part in
    removed,        \* a directory was removed or renamed in the session
    grown           \* a source got a file since the session started

vars == <<tree, backup, pc, index, todo, known, entry, listed, total, done,
          rc, failed, call, callsLeft, touched, removed, grown>>

copierVars  == <<pc, index, known, entry, listed, total, done, rc>>
historyVars == <<touched, removed, grown>>

Items == All \cup {Null, Foreign}

NoDir == {Root}     \* no directory has its own root as an entry
Idle == [op |-> "none"]
Pairs == 1..Sources

----------------------------------------------------------------------------
(*                         The two file systems                            *)

HasDir(fs, p) == fs[Parent(p)] = "dir"

(* What is under p, with all that is below it, goes under q.               *)
Move(fs, p, q) ==
    [n \in All |->
       IF IsPrefix(p, n) THEN "none"
       ELSE IF IsPrefix(q, n)
         THEN LET from == p \o SubSeq(n, Len(q) + 1, Len(n))
              IN IF from \in Names THEN fs[from] ELSE "none"
         ELSE fs[n]]

(* open_path: stat() fails if a file is where a directory should be;       *)
(* otherwise the directories above a name that is not there are made, and  *)
(* those that exist already are no error.  The name itself is not made.    *)
PathIsBlocked(fs, p) == \E a \in Ancestors(p) : fs[a] \in {"file", "part"}

create_subdirectories(fs, p) ==
    [n \in All |-> IF n \in Ancestors(p) /\ fs[n] = "none" THEN "dir"
                                                           ELSE fs[n]]

open_path(fs, p) ==
    IF fs[p] = "none" THEN create_subdirectories(fs, p) ELSE fs

(* try_to_create_destination_file *)
CanCreate(fs, p) == HasDir(fs, p) /\ fs[p] # "dir"

Create(fs, p, kind) == IF fs[p] = "none" THEN [fs EXCEPT ![p] = kind] ELSE fs

(* Mutant: open() is captured whatever exclude_copy says. *)
file_is_excluded_Never(p) == FALSE

file_is_excluded(p) == p \in ExcludedInBackup

----------------------------------------------------------------------------
(*                             The session                                 *)

InSession == pc \notin {"none", "closed", "crashed"}

(* The first step of do_backup with a session: from here on the            *)
(* application's calls are captured.                                       *)
OpenSession ==
    /\ pc = "none"
    /\ pc' = "start"
    /\ UNCHANGED <<tree, backup, index, todo, known, entry, listed, total,
                   done, rc, failed, call, callsLeft, historyVars>>

(* Mutant: directories are not looked into. *)
dirsum_Flat(fs) == Cardinality({p \in Children(Root) : fs[p] = "file"})

dirsum(fs) == Cardinality({p \in Names : fs[p] = "file"})

(* m_todo.size() *)
KnownFiles(list) == Len(list)

(* Mutant: copying that has been turned off is not given up. *)
NothingToCopy_IgnoresFailure == known = 0

(* The list is empty, or was when it was last looked at, or copying is off. *)
NothingToCopy == known = 0 \/ failed

(* backup_session::do_copy goes on to the next pair, and copier::do_copy   *)
(* starts with ".", which it adds to what is in the list already.  dirsum  *)
(* counts what is below the source.                                        *)
StartDirectory ==
    /\ pc = "start"
    /\ total' = dirsum(tree[index])
    /\ todo' = Append(todo, Root)
    /\ known' = KnownFiles(todo')
    /\ pc' = "loop"
    /\ UNCHANGED <<tree, backup, index, entry, listed, done, rc, failed,
                   call, callsLeft, historyVars>>

Quit ==
    /\ pc = "loop"
    /\ NothingToCopy
    /\ pc' = "cleanup"
    /\ UNCHANGED <<tree, backup, index, todo, known, entry, listed, total,
                   done, rc, failed, call, callsLeft, historyVars>>

(* The first entry is looked at, poll() is called with its name, and it is *)
(* popped.  The name of an entry that cleanup has freed is NULL: strlen.   *)
Take ==
    /\ pc = "loop" /\ known # 0 /\ ~failed
    /\ IF Head(todo) = Null
         THEN pc' = "crashed" /\ UNCHANGED <<todo, entry>>
         ELSE /\ entry' = Head(todo)
              /\ todo' = Tail(todo)
              /\ pc' = "entry"
    /\ UNCHANGED <<tree, backup, index, known, listed, total, done, rc,
                   failed, call, callsLeft, historyVars>>

PollAborts ==
    /\ pc = "loop" /\ known # 0 /\ ~failed /\ Head(todo) # Null
    /\ rc' = "aborted"
    /\ pc' = "cleanup"
    /\ UNCHANGED <<tree, backup, index, todo, known, entry, listed, total,
                   done, failed, call, callsLeft, historyVars>>

(* copy_full_path: excluded names and those that are gone are skipped; the *)
(* path of a Foreign entry, a path in the destination put after the source *)
(* directory, does not exist.                                              *)
Stat ==
    /\ pc = "entry"
    /\ pc' = IF entry = Foreign \/ entry \in Excluded THEN "next"
             ELSE CASE tree[index][entry] = "none" -> "next"
                    [] tree[index][entry] = "file" -> "file"
                    [] tree[index][entry] = "dir"  -> "opendir"
    /\ UNCHANGED <<tree, backup, index, todo, known, entry, listed, total,
                   done, rc, failed, call, callsLeft, historyVars>>

(* copy_regular_file.  A directory that has taken the file's place can be  *)
(* opened and not read; by then its destination is a file.                 *)
CopyFile ==
    /\ pc = "file"
    /\ LET now == tree[index][entry]
           able == CanCreate(backup[index], entry)
       IN /\ backup' = IF now # "none" /\ able
                         THEN [backup EXCEPT ![index][entry] =
                                 IF now = "file" THEN "file"
                                 ELSE IF @ = "none" THEN "part" ELSE @]
                         ELSE backup
          /\ done' = IF now = "file" /\ able THEN done + 1 ELSE done
          /\ IF now = "none" \/ (now = "file" /\ able)
               THEN pc' = "next" /\ UNCHANGED rc
               ELSE pc' = "cleanup" /\ rc' = "error"
    /\ UNCHANGED <<tree, index, todo, known, entry, listed, total, failed,
                   call, callsLeft, historyVars>>

(* opendir() of a directory that is gone is not an error; what comes next  *)
(* uses its NULL result all the same.                                      *)
OpenDir ==
    /\ pc = "opendir"
    /\ IF tree[index][entry] = "file"
         THEN pc' = "cleanup" /\ rc' = "error" /\ UNCHANGED listed
         ELSE /\ listed' = IF tree[index][entry] = "none" THEN NoDir
                           ELSE {n \in Children(entry) :
                                   tree[index][n] # "none"}
              /\ pc' = "mkdir"
              /\ UNCHANGED rc
    /\ UNCHANGED <<tree, backup, index, todo, known, entry, total, done,
                   failed, call, callsLeft, historyVars>>

(* Mutant: a directory with nothing in it is not made. *)
mkdir_IfUsed(fs, p) ==
    IF HasDir(fs, p) /\ listed # {} THEN Create(fs, p, "dir") ELSE fs

(* A name that is there already is no error, whatever it is. *)
mkdir(fs, p) == IF HasDir(fs, p) THEN Create(fs, p, "dir") ELSE fs

(* Mutant: what exists in the backup is taken for copied. *)
AfterMkdir_SkipsExisting(able) ==
    IF ~able THEN "cleanup"
    ELSE IF entry # Root /\ backup[index][entry] = "dir" THEN "next"
    ELSE IF listed = NoDir THEN "crashed" ELSE "list"

AfterMkdir(able) ==
    IF ~able THEN "cleanup" ELSE IF listed = NoDir THEN "crashed" ELSE "list"

(* The directory is made in the destination and its entries are read, from *)
(* a NULL DIR if need be.                                                  *)
MakeDir ==
    /\ pc = "mkdir"
    /\ LET able == entry = Root \/ HasDir(backup[index], entry)
       IN /\ backup' = IF entry = Root THEN backup
                       ELSE [backup EXCEPT ![index] = mkdir(@, entry)]
          /\ pc' = AfterMkdir(able)
          /\ rc' = IF able THEN rc ELSE "error"
    /\ UNCHANGED <<tree, index, todo, known, entry, listed, total, done,
                   failed, call, callsLeft, historyVars>>

(* add_dir_entries_to_todo: the entries that are there all along, and any  *)
(* of those that come or go meanwhile, in any order.                       *)
List ==
    /\ pc = "list"
    /\ LET now == {n \in Children(entry) : tree[index][n] # "none"}
       IN \E names \in SUBSET (listed \cup now) :
            /\ listed \cap now \subseteq names
            /\ \E s \in SetToSeqs(IF failed THEN {} ELSE names) :
                 todo' = todo \o s
    /\ listed' = {}
    /\ pc' = "next"
    /\ UNCHANGED <<tree, backup, index, known, entry, total, done, rc,
                   failed, call, callsLeft, historyVars>>

(* The look at the size of the list after each entry. *)
CountRest ==
    /\ pc = "next"
    /\ known' = KnownFiles(todo)
    /\ entry' = Root
    /\ pc' = "loop"
    /\ UNCHANGED <<tree, backup, index, todo, listed, total, done, rc,
                   failed, call, callsLeft, historyVars>>

(* Mutant: a directory that has failed does not end the backup. *)
GoesOn_AfterErrors == index < Sources

GoesOn == rc = "ok" /\ index < Sources

(* cleanup frees the entries that are left; they stay in the list.         *)
Cleanup ==
    /\ pc = "cleanup"
    /\ todo' = [k \in DOMAIN todo |-> Null]
    /\ entry' = Root /\ listed' = {}
    /\ IF GoesOn
         THEN index' = index + 1 /\ pc' = "start"
         ELSE UNCHANGED index /\ pc' = "stop"
    /\ UNCHANGED <<tree, backup, known, total, done, rc, failed, call,
                   callsLeft, historyVars>>

CloseSession ==
    /\ pc = "stop"
    /\ pc' = "closed"
    /\ UNCHANGED <<tree, backup, index, todo, known, entry, listed, total,
                   done, rc, failed, call, callsLeft, historyVars>>

CopierStep ==
    \/ OpenSession \/ StartDirectory \/ Quit \/ Take \/ PollAborts \/ Stat
    \/ CopyFile \/ OpenDir \/ MakeDir \/ List \/ CountRest \/ Cleanup
    \/ CloseSession

----------------------------------------------------------------------------
(*                           The application                               *)

Begin(t, op) ==
    /\ op \in Calls
    /\ call[t] = Idle /\ callsLeft > 0
    /\ op \in FileOps => \A u \in Threads : call[u].op \notin FileOps
    /\ callsLeft' = callsLeft - 1

InCall(t, op) == call[t].op = op

End(t) == call' = [call EXCEPT ![t] = Idle] /\ UNCHANGED <<tree, callsLeft>>

Open(t, i, p) ==
    /\ Begin(t, "open")
    /\ HasDir(tree[i], p) /\ tree[i][p] # "dir"
    /\ tree' = [tree EXCEPT ![i] = Create(@, p, "file")]
    /\ grown' = (grown \/ tree[i][p] = "none")
    /\ call' = [call EXCEPT ![t] =
                  [op |-> "open", at |-> i, name |-> p,
                   fresh |-> tree[i][p] = "none"]]
    /\ UNCHANGED <<backup, copierVars, todo, failed, touched, removed>>

(* capture_open, then try_to_create_destination_file.  A file that the     *)
(* call has created is empty, so its destination is complete; its writes   *)
(* are captured.                                                           *)
OpenCapture(t) ==
    /\ InCall(t, "open")
    /\ LET i == call[t].at
           p == call[t].name
           made == open_path(backup[i], p)
           kind == IF call[t].fresh THEN "file" ELSE "part"
       IN IF ~InSession \/ file_is_excluded(p)
               \/ PathIsBlocked(backup[i], p)
            THEN UNCHANGED <<backup, failed>>
            ELSE /\ backup' = [backup EXCEPT ![i] =
                                 IF CanCreate(made, p)
                                   THEN Create(made, p, kind) ELSE made]
                 /\ failed' = (failed \/ ~CanCreate(made, p))
    /\ End(t)
    /\ UNCHANGED <<copierVars, todo, historyVars>>

Mkdir(t, i, p) ==
    /\ Begin(t, "mkdir")
    /\ HasDir(tree[i], p) /\ tree[i][p] = "none"
    /\ tree' = [tree EXCEPT ![i][p] = "dir"]
    /\ call' = [call EXCEPT ![t] = [op |-> "mkdir", at |-> i, name |-> p]]
    /\ touched' = touched \cup IF pc = "none" THEN {} ELSE {<<i, p>>}
    /\ UNCHANGED <<backup, copierVars, todo, failed, removed, grown>>

(* capture_mkdir makes the directories above the new one.                  *)
MkdirCapture(t) ==
    /\ InCall(t, "mkdir")
    /\ LET i == call[t].at
           p == call[t].name
       IN IF ~InSession \/ tree[i][p] = "none"
            THEN UNCHANGED <<backup, failed>>
            ELSE IF PathIsBlocked(backup[i], p)
              THEN failed' = TRUE /\ UNCHANGED backup
              ELSE /\ backup' = [backup EXCEPT ![i] = open_path(@, p)]
                   /\ UNCHANGED failed
    /\ End(t)
    /\ UNCHANGED <<copierVars, todo, historyVars>>

Rmdir(t, i, p) ==
    /\ Begin(t, "rmdir")
    /\ tree[i][p] = "dir"
    /\ \A n \in Children(p) : tree[i][n] = "none"
    /\ tree' = [tree EXCEPT ![i][p] = "none"]
    /\ removed' = (removed \/ pc # "none")
    /\ UNCHANGED <<backup, copierVars, todo, failed, call, touched, grown>>

Unlink(t, i, p) ==
    /\ Begin(t, "unlink")
    /\ tree[i][p] = "file"
    /\ tree' = [tree EXCEPT ![i][p] = "none"]
    /\ call' = [call EXCEPT ![t] = [op |-> "unlink", at |-> i, name |-> p]]
    /\ UNCHANGED <<backup, copierVars, todo, failed, historyVars>>

(* unlink creates the destination to unlink it; if that fails, because the *)
(* directory is not there yet, it gives up and says nothing.               *)
UnlinkCapture(t) ==
    /\ InCall(t, "unlink")
    /\ LET i == call[t].at
           p == call[t].name
       IN backup' =
            IF InSession /\ ~failed /\ p \notin Excluded
                 /\ CanCreate(backup[i], p)
              THEN [backup EXCEPT ![i][p] = "none"]
              ELSE backup
    /\ End(t)
    /\ UNCHANGED <<copierVars, todo, failed, historyVars>>

(* rename() of a file, or of a directory with all that is in it.           *)
Rename(t, i, p, q) ==
    /\ Begin(t, "rename")
    /\ tree[i][p] # "none" /\ HasDir(tree[i], q)
    /\ ~IsPrefix(p, q) /\ ~IsPrefix(q, p)
    /\ tree[i][q] \in {"none", tree[i][p]}
    /\ \A n \in Children(q) : tree[i][n] = "none"
    /\ \A n \in Below(p) : tree[i][n] # "none" =>
                            q \o SubSeq(n, Len(p) + 1, Len(n)) \in Names
    /\ tree' = [tree EXCEPT ![i] = Move(@, p, q)]
    /\ touched' = touched \cup {<<i, n>> : n \in Below(p) \cup Below(q)}
    /\ removed' = (removed \/ (tree[i][p] = "dir" /\ pc # "none"))
    /\ grown' = TRUE
    /\ call' = [call EXCEPT ![t] =
                  [op |-> "rename", at |-> i, name |-> p, new |-> q]]
    /\ UNCHANGED <<backup, copierVars, todo, failed>>

(* capture_rename, with both names in a source directory: the destination  *)
(* of the old name is created, or nothing is done and nothing said; then   *)
(* it is renamed, which must not fail, and the path of the new one in the  *)
(* destination goes to the copier's list.                                  *)
RenameCapture(t) ==
    /\ InCall(t, "rename")
    /\ LET i == call[t].at
           p == call[t].name
           q == call[t].new
           made == Create(backup[i], p, "part")
       IN IF ~InSession \/ tree[i][q] = "none" \/ ~CanCreate(backup[i], p)
            THEN UNCHANGED <<backup, todo, failed>>
            ELSE IF CanCreate(made, q)
              THEN /\ backup' = [backup EXCEPT ![i] = Move(made, p, q)]
                   /\ todo' = Append(todo, Foreign)
                   /\ UNCHANGED failed
              ELSE /\ backup' = [backup EXCEPT ![i] = made]
                   /\ failed' = TRUE
                   /\ UNCHANGED todo
    /\ End(t)
    /\ UNCHANGED <<copierVars, historyVars>>

AppStep(t) ==
    \/ \E i \in Pairs, p \in Names :
         Open(t, i, p) \/ Mkdir(t, i, p) \/ Rmdir(t, i, p) \/ Unlink(t, i, p)
    \/ \E i \in Pairs, p, q \in Names : Rename(t, i, p, q)
    \/ OpenCapture(t) \/ MkdirCapture(t) \/ UnlinkCapture(t)
    \/ RenameCapture(t)

----------------------------------------------------------------------------
Trees ==
    {[p \in All |-> IF p = Root \/ p \in c \cap Directories THEN "dir"
                   ELSE IF p \in c THEN "file" ELSE "none"] : c \in Contents}

Init ==
    /\ tree \in [Pairs -> Trees]
    /\ backup = [i \in Pairs |->
                   [p \in All |-> IF p = Root THEN "dir" ELSE "none"]]
    /\ pc = "none" /\ index = 1
    /\ todo = <<>> /\ known = 0 /\ entry = Root /\ listed = {}
    /\ total = 0 /\ done = 0 /\ rc = "ok" /\ failed = FALSE
    /\ call = [t \in Threads |-> Idle] /\ callsLeft = MaxCalls
    /\ touched = {} /\ removed = FALSE /\ grown = FALSE

(* When the session has ended its directories are left as they are.        *)
Next ==
    /\ pc \notin {"closed", "crashed"}
    /\ CopierStep \/ \E t \in Threads : AppStep(t)

Spec == Init /\ [][Next]_vars

(* The copier runs on the thread that called tokubackup_create_backup.     *)
FairSpec == Spec /\ WF_vars(CopierStep)

----------------------------------------------------------------------------
(*                             Properties                                  *)

CallRecords ==
    {Idle} \cup
    [op : {"open"}, at : Pairs, name : Names, fresh : BOOLEAN] \cup
    [op : {"mkdir", "unlink"}, at : Pairs, name : Names] \cup
    [op : {"rename"}, at : Pairs, name : Names, new : Names]

(* What each variable holds.  In both trees everything is in a directory;  *)
(* the copier's list is not shorter than what the copier knows of it, so   *)
(* that it never looks at the front of an empty list.                      *)
TypeOK ==
    /\ \A i \in Pairs, p \in Names :
         /\ tree[i][p] \in {"none", "file", "dir"}
         /\ backup[i][p] \in {"none", "part", "file", "dir"}
         /\ tree[i][p] # "none" => HasDir(tree[i], p)
         /\ backup[i][p] # "none" => HasDir(backup[i], p)
    /\ pc \in {"none", "start", "loop", "entry", "file", "opendir", "mkdir",
               "list", "next", "cleanup", "stop", "closed", "crashed"}
    /\ index \in Pairs /\ todo \in Seq(Items)
    /\ entry \in Items /\ (listed = NoDir \/ listed \subseteq Names)
    /\ total \in Nat /\ done \in Nat
    /\ known \in Nat /\ (pc \in {"loop", "entry"} => known <= Len(todo) + 1)
    /\ pc = "loop" => known <= Len(todo)
    /\ rc \in {"ok", "aborted", "error"} /\ failed \in BOOLEAN
    /\ call \in [Threads -> CallRecords] /\ callsLeft \in 0..MaxCalls
    /\ touched \subseteq Pairs \X Names
    /\ removed \in BOOLEAN /\ grown \in BOOLEAN

Succeeded == pc = "closed" /\ rc = "ok" /\ ~failed

(* Names that the backup must have right: not touched, not excluded, and   *)
(* no call on them is still to be captured when the session ends.          *)
Settled(i, p) ==
    /\ <<i, p>> \notin touched
    /\ (Ancestors(p) \cup {p}) \cap (Excluded \cup ExcludedInBackup) = {}
    /\ \A t \in Threads :
         call[t] # Idle => <<call[t].at, call[t].name>> # <<i, p>>

(* After a backup that returns 0 every file is in the backup, complete, in *)
(* whatever directory of whatever source it is, whether the copier found   *)
(* it or it was created meanwhile, and whatever was made and removed       *)
(* around it; and the backup has no file that is not in the source.        *)
FilesAreBackedUp ==
    Succeeded =>
      \A i \in Pairs, p \in Names :
        Settled(i, p) =>
          /\ tree[i][p] = "file" => backup[i][p] = "file"
          /\ backup[i][p] \in {"file", "part"} => tree[i][p] = "file"

(* A directory that was there when the session started, or has a file in   *)
(* it, is in the backup.  An empty one that was made in the session need   *)
(* not be, as capture_mkdir does not make it.                              *)
DirectoriesAreBackedUp ==
    Succeeded /\ ~removed =>
      \A i \in Pairs, p \in Names :
        /\ tree[i][p] = "dir"
        /\ Settled(i, p)
             \/ \E n \in Children(p) : tree[i][n] = "file" /\ Settled(i, n)
        => backup[i][p] = "dir"

(* Files that exclude_copy rejects stay out of the backup, whoever meets   *)
(* them first, the copier or an open.                                      *)
ExcludedStayOut ==
    \A i \in Pairs, p \in Excluded :
      <<i, p>> \notin touched => backup[i][p] = "none"

(* The copier uses no NULL: neither the name of a freed entry nor the DIR  *)
(* of a directory that it could not open.                                  *)
NeverCrashes == pc # "crashed"

(* It takes the removal or renaming of a directory, or a rename that adds  *)
(* to the list when a source directory has been copied and another one is  *)
(* still to be, to make it crash.                                          *)
CrashNeedsRemovalOrRename ==
    pc = "crashed" => removed \/ (touched # {} /\ index > 1)

(* poll() is given a number between 0 and 1, backed up over to back up     *)
(* (backup.h:79-80), before an entry is taken and after a file is written  *)
(* (the throttle's poll): at least while the first directory is copied and *)
(* no file appears.                                                        *)
Progress == pc \in {"loop", "next"} => done <= total
ProgressOfFirstDirectory == index = 1 /\ ~grown => Progress

(* The walk ends, if the application makes finitely many calls.            *)
BackupReturns == <>(pc \in {"closed", "crashed"})

====
