---- MODULE DirectorySet ----
(***************************************************************************)
(* tokubackup_create_backup up to the copy (backup.cc, directory_set.cc):  *)
(* what is checked of the pairs of directories that the caller names, who  *)
(* owns their names, and how a path is translated from a source to its     *)
(* destination (backup_directory.cc, copier.cc).                           *)
(*                                                                         *)
(* Sources are told apart by string prefixes, so a path is the sequence of *)
(* its characters here.                                                    *)
(***************************************************************************)
EXTENDS Naturals, Sequences, SequencesExt

CONSTANTS
    Count,          \* number of pairs
    SourcePaths, DestinationPaths,  \* what realpath() can make of the names
    Rests           \* paths below a source directory, with the slash

SourceStates == {"ok", "missing", "null"}
DestinationStates == {"ok", "missing", "null", "file", "locked", "full",
                      "unreadable", "unclosable"}
Results == {"ok", "EINVAL", "ENOENT", "errno"}
Slash == "/"

ASSUME DirectorySetAssumption ==
    /\ Count \in Nat \ {0}
    /\ \A p \in SourcePaths \cup DestinationPaths \cup Rests :
         p \in Seq(STRING) /\ p # <<>> /\ p[1] = Slash

VARIABLES
    pairs,          \* what the caller passes, and what is there
    pc, i,          \* where the call is, and in which pair
    owner,          \* whose strings m_sources[i] and m_destinations[i] are
    freed,          \* how often they were passed to free()
    fullPaths,      \* m_real_path_successful
    r, reported,    \* the result so far; error_fun was called
    copied          \* the pairs whose source the copier finds

vars == <<pairs, pc, i, owner, freed, fullPaths, r, reported, copied>>

Pairs == 1..Count

----------------------------------------------------------------------------
(*                            Translation                                  *)

(* Index of the first source that a real path starts with; 0 for none. *)
find_index_matching_prefix(sources, file) ==
    SelectInSeq(sources, LAMBDA s : IsPrefix(s, file))

(* Mutant: the character after the source directory is taken for its slash *)
(* and left out. *)
translate_prefix_of_realpath_Trimmed(sources, destinations, file) ==
    LET k == find_index_matching_prefix(sources, file)
    IN destinations[k] \o SubSeq(file, Len(sources[k]) + 2, Len(file))

translate_prefix_of_realpath(sources, destinations, file) ==
    LET k == find_index_matching_prefix(sources, file)
    IN destinations[k] \o SubSeq(file, Len(sources[k]) + 1, Len(file))

(* The copier's way from a directory to what is in it: one slash between. *)
pathcat(a, b) ==
    LET rest == IF Head(b) = Slash THEN Tail(b) ELSE b
    IN IF Last(a) = Slash THEN a \o rest ELSE a \o <<Slash>> \o rest

SourceNames == [k \in Pairs |-> pairs[k].source]
DestinationNames == [k \in Pairs |-> pairs[k].destination]

----------------------------------------------------------------------------
(*                              The call                                   *)

(* The call ends with a result; the directory_set, if there is one, goes.  *)
Return(result, tells) ==
    /\ r' = result
    /\ reported' = (reported \/ tells)
    /\ pc' = IF pc \in {"names", "first"} THEN "done" ELSE "destroy"

CheckNames ==
    /\ pc = "names"
    /\ IF \E k \in Pairs : "null" \in {pairs[k].from, pairs[k].to}
         THEN Return("EINVAL", TRUE)
         ELSE pc' = "first" /\ UNCHANGED <<r, reported>>
    /\ UNCHANGED <<pairs, i, owner, freed, fullPaths, copied>>

(* Only the first pair is resolved and compared here. *)
CheckFirstPair ==
    /\ pc = "first"
    /\ LET p == pairs[1]
       IN IF p.from = "missing" \/ p.to = "missing"
            THEN Return("ENOENT", TRUE)
            ELSE IF p.source = p.destination
              THEN Return("EINVAL", TRUE)
              ELSE pc' = "update" /\ UNCHANGED <<r, reported>>
    /\ UNCHANGED <<pairs, i, owner, freed, fullPaths, copied>>

(* update_to_real_path_on_index: both names are replaced, or neither.  The *)
(* result is that of the last pair.                                        *)
UpdatePair ==
    /\ pc = "update" /\ i <= Count
    /\ LET resolved == pairs[i].from = "ok" /\ pairs[i].to # "missing"
       IN /\ owner' = [owner EXCEPT ![i] = IF resolved THEN "set" ELSE @]
          /\ r' = IF resolved THEN "ok" ELSE "ENOENT"
    /\ i' = i + 1
    /\ UNCHANGED <<pairs, pc, freed, fullPaths, reported, copied>>

FreeAll == [k \in Pairs |-> freed[k] + 1]

(* Mutant: success is not noted. *)
handle_realpath_results_Forgets ==
    IF r # "ok" THEN freed' = FreeAll /\ fullPaths' = FALSE
             ELSE UNCHANGED <<freed, fullPaths>>

(* All pairs that were tried are freed, those that failed as well. *)
handle_realpath_results ==
    IF r # "ok" THEN freed' = FreeAll /\ fullPaths' = FALSE
             ELSE UNCHANGED freed /\ fullPaths' = TRUE

EndUpdate ==
    /\ pc = "update" /\ i > Count
    /\ handle_realpath_results
    /\ IF r # "ok" THEN Return("EINVAL", FALSE)
                ELSE pc' = "validate" /\ UNCHANGED <<r, reported>>
    /\ i' = 1
    /\ UNCHANGED <<pairs, owner, copied>>

(* Mutant: a directory that is not empty will do. *)
verify_destination_is_empty_Skipped(p) == "ok"

verify_destination_is_empty(p) ==
    CASE p.to = "full" -> "EINVAL"
      [] p.to = "unreadable" -> "errno"
      [] OTHER -> "ok"

(* Mutant: a regular file is refused without a word. *)
Problem_Silent(p) ==
    CASE p.to = "missing" -> <<"ENOENT", TRUE>>
      [] p.to = "file" -> <<"EINVAL", FALSE>>
      [] p.to \in {"locked", "unclosable"} -> <<"errno", TRUE>>
      [] OTHER -> <<"ok", FALSE>>

(* What ends the loop of validate, and whether it is reported. *)
Problem(p) ==
    CASE p.to = "missing" -> <<"ENOENT", TRUE>>
      [] p.to = "file" -> <<"EINVAL", TRUE>>
      [] p.to \in {"locked", "unclosable"} -> <<"errno", TRUE>>
      [] OTHER -> <<"ok", FALSE>>

(* One turn of validate's loop.  It goes on after a directory that is not  *)
(* empty or cannot be read, and the next turn's stat() resets the result.  *)
ValidatePair ==
    /\ pc = "validate" /\ i <= Count
    /\ LET p == pairs[i]
           empty == verify_destination_is_empty(p)
       IN IF Problem(p)[1] # "ok"
            THEN Return(Problem(p)[1], Problem(p)[2]) /\ UNCHANGED i
            ELSE /\ r' = empty
                 /\ reported' = (reported \/ empty # "ok")
                 /\ i' = i + 1
                 /\ UNCHANGED pc
    /\ UNCHANGED <<pairs, owner, freed, fullPaths, copied>>

(* The copier finds nothing under a source that does not exist, which is   *)
(* no error to it.                                                         *)
Copy ==
    /\ pc = "validate" /\ i > Count
    /\ copied' = IF r = "ok" THEN {k \in Pairs : pairs[k].from = "ok"} ELSE {}
    /\ Return(r, FALSE)
    /\ UNCHANGED <<pairs, i, owner, freed, fullPaths>>

(* ~directory_set *)
Destroy ==
    /\ pc = "destroy"
    /\ freed' = IF fullPaths THEN FreeAll ELSE freed
    /\ pc' = "done"
    /\ UNCHANGED <<pairs, i, owner, fullPaths, r, reported, copied>>

Init ==
    /\ pairs \in [Pairs -> [source : SourcePaths, from : SourceStates,
                            destination : DestinationPaths,
                            to : DestinationStates]]
    /\ pc = "names" /\ i = 1
    /\ owner = [k \in Pairs |-> "caller"] /\ freed = [k \in Pairs |-> 0]
    /\ fullPaths = FALSE
    /\ r = "ok" /\ reported = FALSE /\ copied = {}

Next ==
    \/ CheckNames \/ CheckFirstPair \/ UpdatePair \/ EndUpdate
    \/ ValidatePair \/ Copy \/ Destroy

Spec == Init /\ [][Next]_vars

----------------------------------------------------------------------------
(*                             Properties                                  *)

(* What each variable holds; no name is freed twice, whatever fails. *)
TypeOK ==
    /\ pc \in {"names", "first", "update", "validate", "destroy", "done"}
    /\ i \in 1..(Count + 1)
    /\ owner \in [Pairs -> {"caller", "set"}]
    /\ freed \in [Pairs -> 0..1]
    /\ fullPaths \in BOOLEAN /\ reported \in BOOLEAN
    /\ r \in Results /\ copied \subseteq Pairs
    /\ pc \in {"names", "first"} => r = "ok" /\ ~reported
    /\ fullPaths => pc \in {"validate", "destroy", "done"}

Usable(p) == p.from = "ok" /\ p.to = "ok"

(* A result of 0 means that the last pair is usable, that the others have  *)
(* destinations that can be opened, and that a source is left out only if  *)
(* it does not exist.  What is missing here for the other pairs is lost:   *)
(* see AllPairsAreChecked.                                                 *)
LastPairIsChecked ==
    pc = "done" /\ r = "ok" =>
      /\ Usable(pairs[Count])
      /\ \A k \in Pairs :
           /\ pairs[k].to \in {"ok", "full", "unreadable"}
           /\ k \in copied \/ pairs[k].from = "missing"

(* A result of 0 means that every pair was usable. *)
AllPairsAreChecked ==
    pc = "done" /\ r = "ok" => \A k \in Pairs : Usable(pairs[k])

(* If all names resolve, or the first do not, the strings of realpath are  *)
(* freed when the call ends, once, and the caller's never.                 *)
OwnStringsAreFreed ==
    (\A k \in Pairs \ {1} : pairs[k].from # "missing"
                             /\ pairs[k].to # "missing") =>
      \A k \in Pairs :
        /\ freed[k] <= (IF owner[k] = "set" THEN 1 ELSE 0)
        /\ pc = "done" /\ owner[k] = "set" => freed[k] = 1

(* The caller's error function hears of every failure, except that a       *)
(* directory of a later pair does not exist.                               *)
FailuresAreReported ==
    pc = "done" /\ r # "ok" =>
      \/ reported
      \/ \E k \in Pairs \ {1} : "missing" \in {pairs[k].from, pairs[k].to}

(* No source is the beginning of another one's path, nor the root. *)
SourcesAreSeparate ==
    /\ \A k, l \in Pairs : k # l => ~IsPrefix(SourceNames[k], SourceNames[l])
    /\ \A k \in Pairs : Last(SourceNames[k]) # Slash

(* What the application does to a file is captured where the copier copies *)
(* the file to, in the destination of its own source.                      *)
CaptureAgrees ==
    \A k \in Pairs, rest \in Rests :
      translate_prefix_of_realpath(SourceNames, DestinationNames,
                                   pathcat(SourceNames[k], rest))
        = pathcat(DestinationNames[k], rest)

CaptureAgreesWithCopier == pc = "validate" /\ SourcesAreSeparate => CaptureAgrees

(* The same for any sources: it fails for /a and /ab, and for the root. *)
CaptureAlwaysAgrees == pc = "validate" => CaptureAgrees

====
