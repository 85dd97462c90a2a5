---- MODULE ConsistentBackup ----
(***************************************************************************)
(* What tokubackup_create_backup promises of a file that is being written  *)
(* (src/backup/backup.h): when it returns 0, the backup is the file as it  *)
(* was at one moment of the call, and stays so until the next backup.      *)
(*                                                                         *)
(* There is no copier here, no capture and no lock.  The backup is taken   *)
(* in one step, whatever has been written; CaptureCopy is shown to         *)
(* implement it.  What the application cannot count on is a call that has  *)
(* changed the file and not returned yet: of the blocks that it writes the *)
(* backup may have anything, and of the holes that it makes nothing.       *)
(***************************************************************************)
CONSTANTS
    Blocks,
    Contents,       \* what a block of a file may hold, ...
    Zero, Eof,      \* ... among them: a hole, and nothing
    NoBackup        \* there is no backup

VARIABLES
    file,           \* the source file
    unsettled,      \* blocks that calls under way write
    holes,          \* holes below them
    phase,          \* of the call: "idle", "taking", "taken", "failed"
    result,         \* what it has returned; "none": it has not
    image           \* the backup, as the last call has left it

fileVars == <<file, unsettled, holes>>
vars == <<fileVars, phase, result, image>>

----------------------------------------------------------------------------

Init ==
    /\ file \in [Blocks -> Contents]
    /\ unsettled = {} /\ holes = {}
    /\ phase = "idle" /\ result = "nonzero" /\ image = NoBackup

(* A call on the file begins to have effect, or has returned: what changes *)
(* is unsettled at first.                                                  *)
Change ==
    /\ file' \in [Blocks -> Contents]
    /\ unsettled' \subseteq Blocks /\ holes' \subseteq Blocks
    /\ \A b \in Blocks : file'[b] # file[b] =>
         \/ b \in unsettled'
         \/ b \in holes' /\ file[b] = Eof /\ file'[b] = Zero
    /\ UNCHANGED <<phase, result, image>>

Begin ==
    /\ phase = "idle"
    /\ phase' = "taking" /\ result' = "none" /\ image' = NoBackup
    /\ UNCHANGED fileVars

(* The moment of which the backup is. *)
Take ==
    /\ phase = "taking"
    /\ phase' = "taken"
    /\ image' \in [Blocks -> Contents]
    /\ \A b \in Blocks \ unsettled :
         image'[b] = file[b] \/ (b \in holes /\ image'[b] = Eof)
    /\ UNCHANGED <<fileVars, result>>

Fail ==
    /\ phase = "taking"
    /\ phase' = "failed"
    /\ UNCHANGED <<fileVars, result, image>>

Return ==
    /\ phase \in {"taken", "failed"}
    /\ phase' = "idle"
    /\ result' = IF phase = "taken" THEN "zero" ELSE "nonzero"
    /\ UNCHANGED <<fileVars, image>>

Next == Change \/ Begin \/ Take \/ Fail \/ Return

Spec == Init /\ [][Next]_vars

====
