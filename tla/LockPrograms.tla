---- MODULE LockPrograms ----
(***************************************************************************)
(* The locks that the calls of the library take, in their order, for       *)
(* LockOrder: the calls of the application (backup.cc, manager.cc) and     *)
(* do_backup with its copier (manager.cc, copier.cc).                      *)
(*                                                                         *)
(* A call is the set of sequences of steps it can take.  One lock stands   *)
(* for all of a kind (of descriptions, of source_files), because no call   *)
(* holds two of them.  The ranges of a file are one lock as well: any two  *)
(* of them may intersect.  Left out are the mutexes under which nothing    *)
(* else is taken: those of lock_range itself, of the saved error, of dlsym.*)
(***************************************************************************)
EXTENDS Integers, Sequences

CONSTANT
    CallbackUses    \* what poll_fun and error_fun use: "write", "open"

ASSUME CallbackUsesAssumption == CallbackUses \subseteq {"write", "open"}

CodeLocks == {"file_op", "backup", "session", "description", "range", "fmap",
              "table", "name", "fd", "todo"}

(* The order of the code.  Only the session lock differs by mode: calls    *)
(* hold a range while they wait to read it, and truncate the other way     *)
(* round, which is well because no writer waits for a range.               *)
CodeRank == [x \in CodeLocks \X {"read", "write"} |->
    CASE x[1] = "backup" -> 0
      [] x[1] = "file_op" -> 1
      [] x = <<"session", "write">> -> 2
      [] x[1] = "description" -> 3
      [] x[1] = "range" -> 4
      [] x = <<"session", "read">> -> 5
      [] x[1] = "fmap" -> 6
      [] x[1] = "table" -> 7
      [] x[1] = "name" -> 8
      [] x[1] = "fd" -> 9
      [] x[1] = "todo" -> 10]

Acquire(l, mode) == [op |-> "lock", lock |-> l, mode |-> mode]
Release(l) == [op |-> "unlock", lock |-> l]
TryToAcquire(l) == [op |-> "try", lock |-> l, mode |-> "write"]

Nothing == {<<>>}
Then(A, B) == {a \o b : a \in A, b \in B}
Optionally(A) == A \cup Nothing

(* The with_... objects. *)
With(l, A) == {<<Acquire(l, "write")>> \o a \o <<Release(l)>> : a \in A}
WithRead(l, A) == {<<Acquire(l, "read")>> \o a \o <<Release(l)>> : a \in A}
Briefly(l) == With(l, Nothing)

(* with_manager_enter_session_and_lock: A if there is a session. *)
InSession(A) == WithRead("session", Optionally(A))

----------------------------------------------------------------------------
(*                     Calls of the application                            *)

(* Descriptions are looked up first in every call that has a descriptor.   *)
OfDescription(A) == Then(Briefly("fmap"), Optionally(A))

(* setup_description_and_source_file, with set_flags under the table's     *)
(* mutex, and the capture.                                                 *)
OpenFile ==
    Then(With("table", Briefly("fd")),
    Then(Briefly("fmap"),
         InSession(Then(Briefly("fmap"),
                        With("table", WithRead("name", Nothing))))))

(* Only an open that may create the file holds the file-operation mutex.   *)
OpenCall == Optionally(OpenFile) \cup With("file_op", Optionally(OpenFile))

(* Mutant: the description stays locked in the map until it is erased. *)
CloseCall_HoldsMap ==
    With("fmap", Then(InSession(Briefly("table")), Briefly("table")))

CloseCall ==
    OfDescription(Then(InSession(Briefly("table")),
                       Then(Briefly("fmap"), Briefly("table"))))

(* The description's mutex is released when the offset is known.           *)
WriteCall ==
    OfDescription(
      Then({<<Acquire("description", "write"), Acquire("range", "write"),
              Release("description")>>},
      Then(InSession(Nothing), {<<Release("range")>>})))

(* pwrite, ftruncate *)
RangeCall == OfDescription(With("range", Optionally(InSession(Nothing))))

(* read, lseek *)
OffsetCall == OfDescription(Briefly("description"))

(* The session lock is held over all of truncate. *)
TruncateCall == InSession(Then(Briefly("table"), Briefly("range")))

RenameCall ==
    With("file_op",
         Optionally(InSession(Then(With("table", Optionally(Briefly("name"))),
                                   Optionally(Briefly("todo"))))))

UnlinkCall ==
    With("file_op",
         Optionally(Then(Briefly("table"),
                         WithRead("session",
                                  With("table", Optionally(Briefly("name")))))))

MkdirCall == WithRead("session", Nothing)

AppPrograms ==
    OpenCall \cup CloseCall \cup WriteCall \cup RangeCall \cup OffsetCall
      \cup TruncateCall \cup RenameCall \cup UnlinkCall \cup MkdirCall

----------------------------------------------------------------------------
(*                     The thread of a backup                              *)

(* poll_fun and error_fun are called with whatever locks are held.  They   *)
(* may use a file of their own, whose range and description are free.      *)
Callback ==
    Nothing
      \cup (IF "write" \in CallbackUses
              THEN Then(Briefly("fmap"), InSession(Nothing)) ELSE {})
      \cup (IF "open" \in CallbackUses
              THEN Then(Briefly("table"), Briefly("fmap")) ELSE {})

(* prepare_directories_for_backup, for one descriptor. *)
Prepare ==
    With("fmap", Optionally(With("table", WithRead("name", Callback))))

(* Mutant: the table is asked for the destination of each buffer. *)
CopyData_LooksUp == With("range", With("fd", Briefly("table")))

(* One buffer of copy_file_data; poll_fun is called under both locks. *)
CopyData == With("range", With("fd", Callback))

(* copy_using_source_info, copy_regular_file, create_destination_and_copy. *)
CopyFile ==
    Then(Briefly("table"),
    Then(Briefly("fd"),
    Then(Optionally(Then(With("table", Briefly("name")),
                         Then(Optionally(CopyData), With("table", Callback)))),
         Briefly("table"))))

(* do_copy, for one name: the list is filled, looked at and emptied, and   *)
(* filled from a directory.                                                *)
CopyList ==
    Then(Briefly("todo"),
    Then(Briefly("todo"),
         Optionally(Then(Briefly("todo"), CopyFile \cup Briefly("todo")))))

OpenSession == With("session", Then(Briefly("todo"), Prepare))

(* disable_descriptions, where a file of the backup may fail to close, and *)
(* cleanup.                                                                *)
CloseSession == With("session", Then(With("fmap", Callback), Briefly("todo")))

DoBackup ==
    {<<TryToAcquire("backup")>> \o b \o <<Release("backup")>> :
       b \in Optionally(Then(OpenSession,
                             Then(Optionally(CopyList), CloseSession)))}

====
