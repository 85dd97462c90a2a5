---- MODULE DirectCopy ----
(***************************************************************************)
(* The descriptors of the copier while it copies one file (copier.cc,      *)
(* copy_regular_file to copy_file_range), when opens of the application    *)
(* turn O_DIRECT on and off for that file (file_hash_table.cc,             *)
(* source_file.cc): the copier then closes its descriptor and opens the    *)
(* file again, but src_info is passed by value, so only the innermost call *)
(* learns the new descriptor and flags.                                    *)
(*                                                                         *)
(* A descriptor has the lowest number that is free.  Blocks stand for the  *)
(* buffers that are read at a time; writes to the file are CaptureCopy's.  *)
(***************************************************************************)
EXTENDS Naturals, Sequences, FiniteSets, SequencesExt

CONSTANTS
    Blocks,         \* length of the file
    MaxFd,          \* bound: descriptors of the process
    MaxCalls        \* bound: calls of the application

ASSUME DirectCopyAssumption ==
    Blocks \in Nat /\ MaxFd \in Nat \ {0} /\ MaxCalls \in Nat

Fds == 1..MaxFd
Closed == 0         \* no descriptor, no inode
Original == 1       \* the inode the file's name has when the copy starts
Replacement == 2    \* one that gets the name later
Other == 3          \* some other file of the application
None == [inode |-> Closed, user |-> "nobody", pos |-> 0]

VARIABLES
    (* the process and the directory *)
    fds,            \* the open file, its user and its offset
    path,           \* the inode that has the file's name; Closed: none
    (* the source_file *)
    direct,         \* O_DIRECT in m_flags
    (* the copier *)
    pc,
    srcFd, srcDirect, \* src_info of copy_regular_file and copy_file_data
    fd,             \* src_info.m_fd of open_and_lock_file_then_copy_range
    dest,           \* what was written to the destination
    result,         \* "ok" or "error"
    failed,         \* backup_error was called: copying is off
    (* the application *)
    opening,        \* the flag of an open that is to be noted in m_flags
    callsLeft,
    (* history *)
    moved,          \* the file was reopened under another descriptor, or
                    \* not at all
    renamed,        \* the file has lost its name
    robbed          \* the copier has closed a descriptor of the application

vars == <<fds, path, direct, pc, srcFd, srcDirect, fd, dest, result, failed,
          opening, callsLeft, moved, renamed, robbed>>

appVars == <<path, direct, opening, callsLeft, renamed>>

NoOpen == "none"

Free(d) == fds[d] = None
LowestFree == Min({d \in Fds : Free(d)} \cup {MaxFd + 1})
OpenFile(d, inode, user, pos) ==
    [fds EXCEPT ![d] = [inode |-> inode, user |-> user, pos |-> pos]]

(* close(): which descriptor it is does not matter to the system. *)
Close(d) ==
    /\ fds' = [fds EXCEPT ![d] = None]
    /\ robbed' = (robbed \/ fds[d].user = "app")

----------------------------------------------------------------------------
(*                              The copier                                 *)

(* copy_regular_file, which skips a file that is gone. *)
OpenSource ==
    /\ pc = "start" /\ LowestFree \in Fds
    /\ srcDirect' = direct
    /\ IF path = Closed
         THEN pc' = "done" /\ UNCHANGED <<fds, srcFd>>
         ELSE /\ srcFd' = LowestFree
              /\ fds' = OpenFile(LowestFree, path, "copier", 0)
              /\ pc' = "loop"
    /\ UNCHANGED <<fd, dest, result, failed, moved, robbed, appVars>>

(* given_flags_are_different *)
FlagsDiffer == direct # srcDirect

(* copy_file_data's loop, and fd_lock. *)
NextBuffer ==
    /\ pc = "loop"
    /\ fd' = srcFd
    /\ pc' = IF failed THEN "end" ELSE IF FlagsDiffer THEN "close" ELSE "read"
    /\ UNCHANGED <<fds, srcFd, srcDirect, dest, result, failed, moved,
                   robbed, appVars>>

(* A descriptor that is not open is reported, and that is all. *)
CloseOld ==
    /\ pc = "close"
    /\ Close(fd)
    /\ failed' = (failed \/ Free(fd))
    /\ pc' = "reopen"
    /\ UNCHANGED <<srcFd, srcDirect, fd, dest, result, moved, appVars>>

(* Mutant: the file is not sought to where the copy is. *)
StartOfCopy_Reopened == 0

(* lseek to m_total_written_this_file *)
StartOfCopy == Len(dest)

Reopen ==
    /\ pc = "reopen" /\ LowestFree \in Fds
    /\ moved' = (moved \/ path = Closed \/ LowestFree # srcFd)
    /\ IF path = Closed
         THEN pc' = "end" /\ UNCHANGED <<fds, fd>>
         ELSE /\ fd' = LowestFree
              /\ fds' = OpenFile(LowestFree, path, "copier", StartOfCopy)
              /\ pc' = "read"
    /\ UNCHANGED <<srcFd, srcDirect, dest, result, failed, robbed, appVars>>

(* read() returns 0. *)
AtEnd(d) == fds[d].pos >= Blocks

(* Mutant: the buffer is tried again. *)
AfterReadError_Retry == "loop"

(* copy_file_data goes to out. *)
AfterReadError == "end"

(* copy_file_range, at the offset of whatever is open there. *)
Read ==
    /\ pc = "read"
    /\ IF Free(fd)
         THEN /\ pc' = AfterReadError /\ result' = "error"
              /\ UNCHANGED <<fds, dest>>
         ELSE /\ UNCHANGED result
              /\ IF AtEnd(fd)
                   THEN pc' = "end" /\ UNCHANGED <<fds, dest>>
                   ELSE /\ dest' = Append(dest, <<fds[fd].inode,
                                                  fds[fd].pos>>)
                        /\ fds' = [fds EXCEPT ![fd].pos = @ + 1]
                        /\ pc' = "loop"
    /\ UNCHANGED <<srcFd, srcDirect, fd, failed, moved, robbed, appVars>>

(* Mutant: a copy that was turned off returns before the source is closed. *)
CloseSource_IfCopied ==
    /\ pc = "end"
    /\ IF failed THEN UNCHANGED <<fds, robbed>> ELSE Close(srcFd)
    /\ pc' = "done"
    /\ UNCHANGED <<srcFd, srcDirect, fd, dest, result, failed, moved, appVars>>

(* The end of copy_regular_file. *)
CloseSource ==
    /\ pc = "end"
    /\ Close(srcFd)
    /\ IF Free(srcFd) THEN result' = "error" /\ failed' = TRUE
                      ELSE UNCHANGED <<result, failed>>
    /\ pc' = "done"
    /\ UNCHANGED <<srcFd, srcDirect, fd, dest, moved, appVars>>

CopierStep ==
    \/ OpenSource \/ NextBuffer \/ CloseOld \/ Reopen \/ Read \/ CloseSource

----------------------------------------------------------------------------
(*                           The application                               *)

Call == pc # "done" /\ callsLeft > 0 /\ callsLeft' = callsLeft - 1

(* An open of the file; m_flags follows, once the copier is between two    *)
(* buffers.                                                                *)
Open(flag) ==
    /\ Call /\ opening = NoOpen
    /\ path # Closed /\ LowestFree \in Fds
    /\ fds' = OpenFile(LowestFree, path, "app", 0)
    /\ opening' = flag
    /\ UNCHANGED <<path, direct, pc, srcFd, srcDirect, fd, dest, result,
                   failed, moved, renamed, robbed>>

SetFlags ==
    /\ opening # NoOpen
    /\ pc \notin {"close", "reopen", "read"}
    /\ direct' = (opening = "direct")
    /\ opening' = NoOpen
    /\ UNCHANGED <<fds, path, pc, srcFd, srcDirect, fd, dest, result, failed,
                   callsLeft, moved, renamed, robbed>>

OpenOther ==
    /\ Call /\ LowestFree \in Fds
    /\ fds' = OpenFile(LowestFree, Other, "app", 0)
    /\ UNCHANGED <<path, direct, pc, srcFd, srcDirect, fd, dest, result,
                   failed, opening, moved, renamed, robbed>>

CloseFd(d) ==
    /\ fds[d].user = "app" /\ pc # "done"
    /\ fds' = [fds EXCEPT ![d] = None]
    /\ UNCHANGED <<path, direct, pc, srcFd, srcDirect, fd, dest, result,
                   failed, opening, callsLeft, moved, renamed, robbed>>

(* The file is renamed, and perhaps another one takes its name.            *)
Rename ==
    /\ Call /\ path = Original
    /\ path' \in {Closed, Replacement}
    /\ renamed' = TRUE
    /\ UNCHANGED <<fds, direct, pc, srcFd, srcDirect, fd, dest, result,
                   failed, opening, moved, robbed>>

(* The capture of a call fails and turns copying off. *)
CaptureFails ==
    /\ Call
    /\ failed' = TRUE
    /\ UNCHANGED <<fds, path, direct, pc, srcFd, srcDirect, fd, dest, result,
                   opening, moved, renamed, robbed>>

AppStep ==
    \/ \E flag \in {"direct", "plain"} : Open(flag)
    \/ SetFlags \/ OpenOther \/ Rename \/ CaptureFails
    \/ \E d \in Fds : CloseFd(d)

Init ==
    /\ fds = [d \in Fds |-> None] /\ path = Original /\ direct \in BOOLEAN
    /\ pc = "start" /\ srcFd = Closed /\ srcDirect = FALSE /\ fd = Closed
    /\ dest = <<>> /\ result = "ok" /\ failed = FALSE
    /\ opening = NoOpen /\ callsLeft = MaxCalls
    /\ moved = FALSE /\ renamed = FALSE /\ robbed = FALSE

Next == CopierStep \/ AppStep

Spec == Init /\ [][Next]_vars

(* The copier's thread runs; the process is not out of descriptors for     *)
(* ever.                                                                   *)
FairSpec ==
    Spec /\ WF_vars(CopierStep) /\ \A d \in Fds : WF_vars(CloseFd(d))

----------------------------------------------------------------------------
(*                             Properties                                  *)

(* What each variable holds; the copier's destination is not longer than   *)
(* the file, and what it reads from is its own unless it has moved.        *)
TypeOK ==
    /\ fds \in [Fds -> [inode : {Closed, Original, Replacement, Other},
                        user : {"nobody", "app", "copier"},
                        pos : Nat]]
    /\ path \in {Closed, Original, Replacement} /\ direct \in BOOLEAN
    /\ pc \in {"start", "loop", "close", "reopen", "read", "end", "done"}
    /\ srcFd \in Fds \cup {Closed} /\ fd \in Fds \cup {Closed}
    /\ srcDirect \in BOOLEAN /\ failed \in BOOLEAN
    /\ dest \in Seq({Original, Replacement, Other} \X Nat)
    /\ result \in {"ok", "error"} /\ opening \in {NoOpen, "direct", "plain"}
    /\ callsLeft \in 0..MaxCalls
    /\ moved \in BOOLEAN /\ renamed \in BOOLEAN /\ robbed \in BOOLEAN
    /\ ~moved => Len(dest) <= Blocks /\ \A d \in Fds : fds[d].pos <= Blocks

Whole == [k \in 1..Blocks |-> <<Original, k - 1>>]

(* However often O_DIRECT changes, while every reopening gets the          *)
(* descriptor that was closed for it (copier.cc, copy_file_data): the      *)
(* destination is a beginning of the file, of its blocks in their order,   *)
(* unless another file has taken its name, and of the whole file when the  *)
(* copy succeeds and the file has kept its name.                           *)
CopyIsFaithful ==
    ~moved =>
      /\ \A k \in DOMAIN dest : dest[k][2] = k - 1
      /\ path # Replacement => IsPrefix(dest, Whole)
      /\ pc = "done" /\ result = "ok" /\ ~failed /\ ~renamed => dest = Whole

(* The same for every reopening: the copy of a file that keeps its name    *)
(* succeeds only with all its bytes (copier.cc, copy_file_data).           *)
CopyIsAlwaysFaithful ==
    pc = "done" /\ result = "ok" /\ ~failed /\ ~renamed => dest = Whole

(* The copier closes what it has opened, and nothing else.                 *)
DescriptorsAreKept ==
    ~moved =>
      /\ ~robbed
      /\ pc = "done" => \A d \in Fds : fds[d].user # "copier"
      /\ pc \in {"loop", "read", "end"} => fds[srcFd].user = "copier"

(* A copy ends, if the application opens finitely many files. *)
CopyEnds == <>(pc = "done")

====
