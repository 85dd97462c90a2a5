---- MODULE MCLockOrder ----
(***************************************************************************)
(* The calls of the code in the threads of LockOrder: one thread of the    *)
(* application that makes any call, one that takes a backup, and one that  *)
(* truncates a file or asks for a second backup, of directories that are   *)
(* not valid.                                                              *)
(***************************************************************************)
EXTENDS LockOrder, LockPrograms, TLC

CONSTANTS a1, a2, b1

MCThreads == {a1, a2, b1}
MCProgramsOf ==
    a1 :> AppPrograms @@ b1 :> DoBackup
      @@ a2 :> TruncateCall \cup {p \in DoBackup : Len(p) = 2}
====
