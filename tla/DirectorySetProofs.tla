------------------------ MODULE DirectorySetProofs ------------------------
(***************************************************************************)
(* What tokubackup_create_backup() finds out about the pairs of            *)
(* directories, who frees their names, and that capture and copier         *)
(* translate a path alike: for any number of pairs and any paths.          *)
(***************************************************************************)
EXTENDS DirectorySet, SequenceTheorems, TLAPS

----------------------------------------------------------------------------
(*                       The inductive invariant                           *)

PairType == [source : SourcePaths, from : SourceStates,
             destination : DestinationPaths, to : DestinationStates]

(* realpath() finds both directories of a pair. *)
Resolves(p) == p.from = "ok" /\ p.to # "missing"

(* validate can open and close the destination. *)
Opens(p) == p.to \in {"ok", "full", "unreadable"}

(* A directory of a later pair does not exist. *)
LaterMissing ==
    \E k \in Pairs \ {1} : "missing" \in {pairs[k].from, pairs[k].to}

(* What the steps so far have seen of the names. *)
NamesInv ==
    /\ pairs \in [Pairs -> PairType]
    /\ pc \notin {"names", "done"} =>
         \A k \in Pairs : pairs[k].from # "null" /\ pairs[k].to # "null"
    /\ pc \in {"update", "validate", "destroy"} => Resolves(pairs[1])
    /\ pc \in {"names", "first"} => i = 1

(* Whose the names are, and which have been freed. *)
OwnersInv ==
    /\ pc \in {"names", "first", "update", "validate"} =>
         \A k \in Pairs : freed[k] = 0
    /\ pc \in {"names", "first"} => \A k \in Pairs : owner[k] = "caller"
    /\ pc = "update" =>
         \A k \in Pairs : owner[k] = "set" <=> k < i /\ Resolves(pairs[k])
    /\ pc = "validate" => fullPaths
    /\ pc = "destroy" /\ fullPaths => \A k \in Pairs : freed[k] = 0

(* If no later directory is missing, the set owns all names or none. *)
AllOrNone ==
    ~LaterMissing =>
      /\ pc = "validate" => \A k \in Pairs : owner[k] = "set"
      /\ pc = "destroy" => fullPaths /\ \A k \in Pairs : owner[k] = "set"
      /\ pc = "done" =>
           \/ \A k \in Pairs : owner[k] = "caller" /\ freed[k] = 0
           \/ \A k \in Pairs : owner[k] = "set" /\ freed[k] = 1

(* What the result says in each loop, which is about the pair before i. *)
ResultInv ==
    /\ pc \in {"names", "first"} => r = "ok"
    /\ pc = "update" /\ i = 1 => r = "ok"
    /\ pc = "update" /\ i > 1 => (r = "ok" <=> Resolves(pairs[i - 1]))
    /\ pc = "validate" =>
         /\ Resolves(pairs[Count])
         /\ \A k \in Pairs : k < i => Opens(pairs[k])
         /\ i = 1 => r = "ok"
         /\ i > 1 => (r = "ok" <=> pairs[i - 1].to = "ok")
         /\ r # "ok" => reported

(* What it says at the end. *)
VerdictInv ==
    pc \in {"destroy", "done"} =>
      /\ r = "ok" => /\ Usable(pairs[Count])
                     /\ \A k \in Pairs :
                          /\ Opens(pairs[k])
                          /\ k \in copied \/ pairs[k].from = "missing"
      /\ r # "ok" => reported \/ LaterMissing

IInv ==
    TypeOK /\ NamesInv /\ OwnersInv /\ AllOrNone /\ ResultInv /\ VerdictInv

----------------------------------------------------------------------------
(*                     The invariant is inductive                          *)

USE DirectorySetAssumption DEF Pairs

LEMMA PairTypes ==
  ASSUME NamesInv, NEW k \in Pairs
  PROVE  /\ pairs[k] \in PairType
         /\ pairs[k].from \in SourceStates
         /\ pairs[k].to \in DestinationStates
  BY DEF NamesInv, PairType

LEMMA InitHasIInv == Init => IInv
<1> SUFFICES ASSUME Init PROVE IInv
  OBVIOUS
<1>1. TypeOK
  <2>1. i \in 1..(Count + 1) /\ freed \in [Pairs -> 0..1]
    BY DEF Init
  <2> QED BY <2>1 DEF Init, TypeOK, Results
<1>2. NamesInv
  BY DEF Init, NamesInv, PairType
<1>3. OwnersInv
  BY DEF Init, OwnersInv
<1>4. AllOrNone /\ ResultInv /\ VerdictInv
  BY DEF Init, AllOrNone, ResultInv, VerdictInv
<1> QED BY <1>1, <1>2, <1>3, <1>4 DEF IInv

(* None of the names is null from here on. *)
LEMMA CheckNamesKeepsIInv == IInv /\ CheckNames => IInv'
<1> SUFFICES ASSUME IInv, CheckNames PROVE IInv'
  OBVIOUS
<1>0. \A k \in Pairs : pairs[k].from \in SourceStates /\ pairs[k].to \in DestinationStates
  BY PairTypes DEF IInv
<1>1. TypeOK'
  BY DEF IInv, TypeOK, OwnersInv, Results, CheckNames, Return
<1>2. NamesInv'
  BY <1>0 DEF IInv, TypeOK, NamesInv, Resolves, SourceStates, CheckNames,
    Return
<1>3. OwnersInv'
  BY DEF IInv, TypeOK, OwnersInv, CheckNames, Return
<1>4. AllOrNone'
  BY <1>0 DEF IInv, TypeOK, NamesInv, OwnersInv, AllOrNone, LaterMissing,
    Resolves, SourceStates, CheckNames, Return
<1>5. ResultInv'
  BY <1>0 DEF IInv, TypeOK, ResultInv, Resolves, Opens, DestinationStates,
    CheckNames, Return
<1>6. VerdictInv'
  BY <1>0 DEF IInv, TypeOK, NamesInv, ResultInv, VerdictInv, LaterMissing,
    Resolves, Opens, Usable, SourceStates, CheckNames, Return
<1> QED BY <1>1, <1>2, <1>3, <1>4, <1>5, <1>6 DEF IInv

(* The first pair resolves from here on. *)
LEMMA CheckFirstPairKeepsIInv == IInv /\ CheckFirstPair => IInv'
<1> SUFFICES ASSUME IInv, CheckFirstPair PROVE IInv'
  OBVIOUS
<1>0. /\ pc = "first" /\ i = 1 /\ r = "ok" /\ ~reported
      /\ UNCHANGED <<pairs, i, owner, freed, fullPaths, copied>>
      /\ \A k \in Pairs : owner[k] = "caller" /\ freed[k] = 0
  BY DEF IInv, TypeOK, NamesInv, OwnersInv, CheckFirstPair
<1>1. \/ pc' = "done" /\ r' \in {"ENOENT", "EINVAL"} /\ reported' = TRUE
      \/ pc' = "update" /\ r' = r /\ reported' = reported /\ Resolves(pairs[1])
  <2>1. 1 \in Pairs /\ pairs[1].from \in SourceStates /\ pairs[1].from # "null"
    BY <1>0, PairTypes DEF IInv, NamesInv
  <2> QED BY <1>0, <2>1 DEF CheckFirstPair, Return, Resolves, SourceStates
<1>2. TypeOK'
  BY <1>0, <1>1 DEF IInv, TypeOK, Results
<1>3. NamesInv'
  BY <1>0, <1>1 DEF IInv, NamesInv
<1>4. OwnersInv'
  BY <1>0, <1>1 DEF IInv, OwnersInv
<1>5. AllOrNone' /\ ResultInv' /\ VerdictInv'
  BY <1>0, <1>1 DEF AllOrNone, ResultInv, VerdictInv
<1> QED BY <1>2, <1>3, <1>4, <1>5 DEF IInv

(* The result is about the pair that was just tried. *)
LEMMA UpdatePairKeepsIInv == IInv /\ UpdatePair => IInv'
<1> SUFFICES ASSUME IInv, UpdatePair PROVE IInv'
  OBVIOUS
<1>0. /\ i \in Pairs /\ pc = "update" /\ i' = i + 1
      /\ UNCHANGED <<pairs, pc, freed, fullPaths, reported, copied>>
      /\ owner' = [owner EXCEPT ![i] = IF Resolves(pairs[i]) THEN "set" ELSE @]
      /\ r' = IF Resolves(pairs[i]) THEN "ok" ELSE "ENOENT"
  BY DEF IInv, TypeOK, UpdatePair, Resolves
<1>1. TypeOK'
  <2>1. owner' \in [Pairs -> {"caller", "set"}] /\ r' \in Results
    BY <1>0 DEF IInv, TypeOK, Results
  <2>2. i' \in 1..(Count + 1)
    BY <1>0
  <2> QED BY <1>0, <2>1, <2>2 DEF IInv, TypeOK
<1>2. NamesInv'
  BY <1>0 DEF IInv, NamesInv
<1>3. OwnersInv'
  <2>1. \A k \in Pairs : owner'[k] = "set" <=> k < i' /\ Resolves(pairs[k])
    <3> SUFFICES ASSUME NEW k \in Pairs
                 PROVE  owner'[k] = "set" <=> k < i' /\ Resolves(pairs[k])
      OBVIOUS
    <3>1. owner[k] = "set" <=> k < i /\ Resolves(pairs[k])
      BY <1>0 DEF IInv, OwnersInv
    <3>2. CASE k = i
      BY <1>0, <3>1, <3>2 DEF IInv, TypeOK
    <3>3. CASE k # i
      BY <1>0, <3>1, <3>3 DEF IInv, TypeOK
    <3> QED BY <3>2, <3>3
  <2> QED BY <1>0, <2>1 DEF IInv, OwnersInv
<1>4. ResultInv'
  BY <1>0 DEF ResultInv
<1>5. AllOrNone' /\ VerdictInv'
  BY <1>0 DEF AllOrNone, VerdictInv
<1> QED BY <1>1, <1>2, <1>3, <1>4, <1>5 DEF IInv

(* The result is that of the last pair: the set has its names, or a later  *)
(* directory is missing.                                                   *)
LEMMA EndUpdateKeepsIInv == IInv /\ EndUpdate => IInv'
<1> SUFFICES ASSUME IInv, EndUpdate PROVE IInv'
  OBVIOUS
<1>0. /\ pc = "update" /\ i = Count + 1 /\ i' = 1
      /\ UNCHANGED <<pairs, owner, copied>>
      /\ \A k \in Pairs : pairs[k].from \in SourceStates
                           /\ pairs[k].to \in DestinationStates
                           /\ pairs[k].from # "null" /\ freed[k] = 0
                           /\ (owner[k] = "set" <=> Resolves(pairs[k]))
      /\ Resolves(pairs[1]) /\ (r = "ok" <=> Resolves(pairs[Count]))
  BY PairTypes DEF IInv, TypeOK, NamesInv, OwnersInv, ResultInv, EndUpdate
<1>1. NamesInv'
  BY <1>0 DEF IInv, NamesInv, EndUpdate, Return
<1>2. ~LaterMissing => \A k \in Pairs : Resolves(pairs[k])
  BY <1>0 DEF LaterMissing, Resolves, SourceStates
<1>3. CASE r = "ok"
  <2>1. /\ freed' = freed /\ fullPaths' = TRUE /\ pc' = "validate"
        /\ r' = r /\ reported' = reported
    BY <1>3 DEF EndUpdate, handle_realpath_results
  <2>2. TypeOK'
    BY <1>0, <2>1 DEF IInv, TypeOK
  <2>3. OwnersInv' /\ AllOrNone'
    BY <1>0, <1>2, <2>1 DEF OwnersInv, AllOrNone, LaterMissing
  <2>4. ResultInv' /\ VerdictInv'
    BY <1>0, <1>3, <2>1 DEF ResultInv, VerdictInv
  <2> QED BY <1>1, <2>2, <2>3, <2>4 DEF IInv
<1>4. CASE r # "ok"
  <2>1. /\ freed' = FreeAll /\ fullPaths' = FALSE /\ pc' = "destroy"
        /\ r' = "EINVAL" /\ reported' = reported
    BY <1>0, <1>4 DEF IInv, TypeOK, EndUpdate, handle_realpath_results, Return
  <2>2. LaterMissing
    BY <1>0, <1>2, <1>4
  <2>3. freed' \in [Pairs -> 0..1]
    BY <1>0, <2>1 DEF FreeAll
  <2>4. TypeOK'
    <3>1. i' \in 1..(Count + 1)
      BY <1>0
    <3> QED BY <1>0, <2>1, <2>3, <3>1 DEF IInv, TypeOK, Results
  <2>5. OwnersInv' /\ AllOrNone'
    BY <1>0, <2>1, <2>2 DEF OwnersInv, AllOrNone, LaterMissing
  <2>6. ResultInv' /\ VerdictInv'
    BY <1>0, <2>1, <2>2 DEF ResultInv, VerdictInv, LaterMissing
  <2> QED BY <1>1, <2>4, <2>5, <2>6 DEF IInv
<1> QED BY <1>3, <1>4

(* What ends the loop is reported, and what does not end it opens. *)
LEMMA WhatEndsTheLoop ==
  ASSUME NEW p, p.to \in DestinationStates, p.to # "null"
  PROVE  /\ Problem(p)[1] \in Results /\ Problem(p)[2] \in BOOLEAN
         /\ Problem(p)[1] = "ok" <=> Opens(p)
         /\ Problem(p)[1] # "ok" => Problem(p)[2] = TRUE
         /\ verify_destination_is_empty(p) \in Results
         /\ Opens(p) => (verify_destination_is_empty(p) = "ok" <=> p.to = "ok")
<1>1. CASE p.to = "missing"
  BY <1>1 DEF Problem, verify_destination_is_empty, Opens, Results
<1>2. CASE p.to = "file"
  BY <1>2 DEF Problem, verify_destination_is_empty, Opens, Results
<1>3. CASE p.to \in {"locked", "unclosable"}
  BY <1>3 DEF Problem, verify_destination_is_empty, Opens, Results
<1>4. CASE p.to \in {"ok", "full", "unreadable"}
  BY <1>4 DEF Problem, verify_destination_is_empty, Opens, Results
<1> QED BY <1>1, <1>2, <1>3, <1>4 DEF DestinationStates

(* A pair is left behind only if its destination opens. *)
LEMMA ValidatePairKeepsIInv == IInv /\ ValidatePair => IInv'
<1> SUFFICES ASSUME IInv, ValidatePair PROVE IInv'
  OBVIOUS
<1> DEFINE p == pairs[i]
<1>0. /\ i \in Pairs /\ pc = "validate" /\ p.to # "null"
      /\ \A k \in Pairs : pairs[k].from \in SourceStates
                           /\ pairs[k].to \in DestinationStates
  BY PairTypes DEF IInv, TypeOK, NamesInv, ValidatePair
<1>1. UNCHANGED <<pairs, owner, freed, fullPaths, copied>>
  BY DEF ValidatePair
<1>2. /\ Problem(p)[1] \in Results /\ Problem(p)[2] \in BOOLEAN
      /\ Problem(p)[1] = "ok" <=> Opens(p)
      /\ Problem(p)[1] # "ok" => Problem(p)[2] = TRUE
      /\ verify_destination_is_empty(p) \in Results
      /\ Opens(p) => (verify_destination_is_empty(p) = "ok" <=> p.to = "ok")
  BY <1>0, WhatEndsTheLoop
<1>3. CASE ~Opens(p)
  <2>1. /\ r' = Problem(p)[1] /\ reported' = TRUE /\ pc' = "destroy" /\ i' = i
        /\ r' \in Results /\ r' # "ok"
    BY <1>0, <1>2, <1>3 DEF ValidatePair, Return
  <2> HIDE DEF p
  <2>2. TypeOK'
    BY <1>1, <2>1 DEF IInv, TypeOK
  <2>3. NamesInv'
    BY <1>0, <1>1, <2>1 DEF IInv, NamesInv
  <2>4. OwnersInv' /\ AllOrNone'
    BY <1>0, <1>1, <2>1 DEF IInv, OwnersInv, AllOrNone, LaterMissing
  <2>5. ResultInv' /\ VerdictInv'
    BY <2>1 DEF ResultInv, VerdictInv
  <2> QED BY <2>2, <2>3, <2>4, <2>5 DEF IInv
<1>4. CASE Opens(p)
  <2>1. /\ r' = verify_destination_is_empty(p)
        /\ reported' = (reported \/ r' # "ok")
        /\ i' = i + 1 /\ pc' = "validate"
    BY <1>0, <1>2, <1>4 DEF ValidatePair
  <2>2. r' \in Results /\ (r' = "ok" <=> p.to = "ok") /\ (r' # "ok" => reported')
    BY <1>2, <1>4, <2>1
  <2>3. i' \in 1..(Count + 1) /\ i' > 1 /\ i' - 1 = i
    BY <1>0, <2>1
  <2>4. TypeOK'
    BY <1>0, <1>1, <2>1, <2>2, <2>3 DEF IInv, TypeOK
  <2>5. NamesInv'
    BY <1>0, <1>1, <2>1 DEF IInv, NamesInv
  <2>6. OwnersInv' /\ AllOrNone'
    BY <1>0, <1>1, <2>1 DEF IInv, OwnersInv, AllOrNone, LaterMissing
  <2>7. \A k \in Pairs : k < i' => Opens(pairs[k])
    <3>1. \A k \in Pairs : k < i' => k < i \/ k = i
      BY <1>0, <2>1
    <3> QED BY <1>0, <1>4, <3>1 DEF IInv, ResultInv
  <2>8. ResultInv' /\ VerdictInv'
    <3>1. Resolves(pairs[Count])
      BY <1>0 DEF IInv, ResultInv
    <3> QED BY <1>1, <2>1, <2>2, <2>3, <2>7, <3>1 DEF ResultInv, VerdictInv
  <2> QED BY <2>4, <2>5, <2>6, <2>8 DEF IInv
<1> QED BY <1>3, <1>4

(* The last turn of the loop was about the last pair. *)
LEMMA CopyKeepsIInv == IInv /\ Copy => IInv'
<1> SUFFICES ASSUME IInv, Copy PROVE IInv'
  OBVIOUS
<1>0. \A k \in Pairs : pairs[k].from \in SourceStates /\ pairs[k].to \in DestinationStates
  BY PairTypes DEF IInv
<1>1. TypeOK'
  BY DEF IInv, TypeOK, OwnersInv, Results, Copy, Return
<1>2. NamesInv'
  BY <1>0 DEF IInv, TypeOK, NamesInv, Resolves, SourceStates, Copy, Return
<1>3. OwnersInv'
  BY DEF IInv, TypeOK, OwnersInv, Copy, Return
<1>4. AllOrNone'
  BY <1>0 DEF IInv, TypeOK, NamesInv, OwnersInv, AllOrNone, LaterMissing,
    Resolves, SourceStates, Copy, Return
<1>5. ResultInv'
  BY <1>0 DEF IInv, TypeOK, ResultInv, Resolves, Opens, DestinationStates,
    Copy, Return
<1>6. VerdictInv'
  BY <1>0 DEF IInv, TypeOK, NamesInv, ResultInv, VerdictInv, LaterMissing,
    Resolves, Opens, Usable, SourceStates, Copy, Return
<1> QED BY <1>1, <1>2, <1>3, <1>4, <1>5, <1>6 DEF IInv

(* The names are freed here, unless handle_realpath_results did it. *)
LEMMA DestroyKeepsIInv == IInv /\ Destroy => IInv'
<1> SUFFICES ASSUME IInv, Destroy PROVE IInv'
  OBVIOUS
<1>0. \A k \in Pairs : pairs[k].from \in SourceStates /\ pairs[k].to \in DestinationStates
  BY PairTypes DEF IInv
<1>1. TypeOK'
  BY DEF IInv, TypeOK, OwnersInv, Results, Destroy, FreeAll
<1>2. NamesInv'
  BY <1>0 DEF IInv, TypeOK, NamesInv, Resolves, SourceStates, Destroy, FreeAll
<1>3. OwnersInv'
  BY DEF IInv, TypeOK, OwnersInv, Destroy, FreeAll
<1>4. AllOrNone'
  BY <1>0 DEF IInv, TypeOK, NamesInv, OwnersInv, AllOrNone, LaterMissing,
    Resolves, SourceStates, Destroy, FreeAll
<1>5. ResultInv'
  BY <1>0 DEF IInv, TypeOK, ResultInv, Resolves, Opens, DestinationStates,
    Destroy, FreeAll
<1>6. VerdictInv'
  BY <1>0 DEF IInv, TypeOK, NamesInv, ResultInv, VerdictInv, LaterMissing,
    Resolves, Opens, Usable, SourceStates, Destroy, FreeAll
<1> QED BY <1>1, <1>2, <1>3, <1>4, <1>5, <1>6 DEF IInv

----------------------------------------------------------------------------
(*                             The theorems                                *)

LEMMA InvariantHolds == Spec => []IInv
<1>1. IInv /\ [Next]_vars => IInv'
  <2> SUFFICES ASSUME IInv, [Next]_vars PROVE IInv'
    OBVIOUS
  <2>1. CASE UNCHANGED vars
    BY <2>1 DEF vars, IInv, TypeOK, NamesInv, OwnersInv, AllOrNone,
       LaterMissing, ResultInv, VerdictInv
  <2> QED BY <2>1, CheckNamesKeepsIInv, CheckFirstPairKeepsIInv,
             UpdatePairKeepsIInv, EndUpdateKeepsIInv, ValidatePairKeepsIInv,
             CopyKeepsIInv, DestroyKeepsIInv DEF Next
<1> QED BY InitHasIInv, <1>1, PTL DEF Spec

(* Each variable stays in its range; above all, whatever fails in whichever *)
(* pair, handle_realpath_results and ~directory_set together pass no name   *)
(* to free() twice.                                                         *)
THEOREM TypeCorrect == Spec => []TypeOK
<1>1. IInv => TypeOK
  BY DEF IInv
<1> QED BY InvariantHolds, <1>1, PTL

(* When create_backup() returns 0, the last pair was usable, the other      *)
(* destinations could be opened, and a source that was not copied does not  *)
(* exist: for any number of pairs, in any state the caller left them.       *)
THEOREM LastPairIsCheckedHolds == Spec => []LastPairIsChecked
<1>1. IInv => LastPairIsChecked
  BY DEF IInv, VerdictInv, Opens, LastPairIsChecked
<1> QED BY InvariantHolds, <1>1, PTL

(* When create_backup() fails, the caller's error function was called or a  *)
(* directory of a later pair does not exist, which update_to_full_path      *)
(* keeps to itself.                                                         *)
THEOREM FailuresAreReportedHolds == Spec => []FailuresAreReported
<1>1. IInv => FailuresAreReported
  BY DEF IInv, VerdictInv, LaterMissing, FailuresAreReported
<1> QED BY InvariantHolds, <1>1, PTL

(* If no later directory is missing, the strings of realpath() are freed    *)
(* once when the call ends, and the caller's strings never.                 *)
THEOREM OwnStringsAreFreedHolds == Spec => []OwnStringsAreFreed
<1>1. IInv => OwnStringsAreFreed
  <2> SUFFICES ASSUME IInv, ~LaterMissing, NEW k \in Pairs
               PROVE  /\ freed[k] <= (IF owner[k] = "set" THEN 1 ELSE 0)
                      /\ pc = "done" /\ owner[k] = "set" => freed[k] = 1
    BY DEF OwnStringsAreFreed, LaterMissing
  <2>1. pc \in {"names", "first", "update", "validate", "destroy", "done"}
    BY DEF IInv, TypeOK
  <2>2. CASE pc \in {"names", "first", "update", "validate"}
    BY <2>2 DEF IInv, OwnersInv
  <2>3. CASE pc = "destroy"
    BY <2>3 DEF IInv, OwnersInv, AllOrNone
  <2>4. CASE pc = "done"
    BY <2>4 DEF IInv, AllOrNone
  <2> QED BY <2>1, <2>2, <2>3, <2>4
<1> QED BY InvariantHolds, <1>1, PTL

----------------------------------------------------------------------------
(*                      Translation of a captured path                     *)

Paths == Seq(STRING)

(* realpath() ends in a slash for the root only.                            *)
NoDestinationIsRoot == \A p \in DestinationPaths : Last(p) # Slash

(* IsPrefix, character by character. *)
LEMMA PrefixCharacters ==
  ASSUME NEW s \in Paths, NEW t \in Paths
  PROVE  IsPrefix(s, t) <=>
           Len(s) <= Len(t) /\ \A k \in 1..Len(s) : s[k] = t[k]
<1>0. Len(s) \in Nat /\ Len(t) \in Nat
  BY LenProperties DEF Paths
<1>1. CASE Len(s) <= Len(t)
  <2> DEFINE a == SubSeq(s, 1, Len(s))
             b == SubSeq(t, 1, Len(s))
  <2>1. (\A k \in 1..Len(s) : s[k] \in STRING) /\ \A k \in 1..Len(s) : t[k] \in STRING
    BY <1>0, <1>1, ElementOfSeq DEF Paths
  <2>2. /\ a \in Paths /\ Len(a) = Len(s)
        /\ \A k \in 1..Len(s) : a[k] = s[k]
    <3>1. /\ a \in Paths
          /\ Len(a) = IF 1 <= Len(s) THEN Len(s) - 1 + 1 ELSE 0
          /\ \A k \in 1..(Len(s) - 1 + 1) : a[k] = s[1 + k - 1]
      BY <1>0, <2>1, SubSeqProperties DEF Paths
    <3> HIDE DEF a
    <3> QED BY <1>0, <3>1
  <2>3. /\ b \in Paths /\ Len(b) = Len(s)
        /\ \A k \in 1..Len(s) : b[k] = t[k]
    <3>1. /\ b \in Paths
          /\ Len(b) = IF 1 <= Len(s) THEN Len(s) - 1 + 1 ELSE 0
          /\ \A k \in 1..(Len(s) - 1 + 1) : b[k] = t[1 + k - 1]
      BY <1>0, <2>1, SubSeqProperties DEF Paths
    <3> HIDE DEF b
    <3> QED BY <1>0, <3>1
  <2>4. a = b <=> \A k \in 1..Len(s) : s[k] = t[k]
    <3> HIDE DEF a, b
    <3>1. a = b <=> Len(a) = Len(b) /\ \A k \in 1..Len(a) : a[k] = b[k]
      BY <2>2, <2>3, SeqEqual DEF Paths
    <3> QED BY <2>2, <2>3, <3>1
  <2> QED BY <1>1, <2>4 DEF IsPrefix
<1> QED BY <1>0, <1>1 DEF IsPrefix

LEMMA ConcatCharacters ==
  ASSUME NEW s \in Paths, NEW u \in Paths
  PROVE  /\ s \o u \in Paths
         /\ Len(s) \in Nat /\ Len(u) \in Nat
         /\ Len(s \o u) = Len(s) + Len(u)
         /\ \A k \in 1..Len(s) : (s \o u)[k] = s[k]
<1>1. /\ s \o u \in Paths /\ Len(s \o u) = Len(s) + Len(u)
      /\ \A k \in 1..(Len(s) + Len(u)) :
           (s \o u)[k] = IF k <= Len(s) THEN s[k] ELSE u[k - Len(s)]
  BY ConcatProperties DEF Paths
<1>2. Len(s) \in Nat /\ Len(u) \in Nat
  BY LenProperties DEF Paths
<1> QED BY <1>1, <1>2

(* Of two beginnings of one path, one begins the other. *)
LEMMA PrefixesAreNested ==
  ASSUME NEW s \in Paths, NEW t \in Paths, NEW u \in Paths,
         IsPrefix(t, s \o u)
  PROVE  IsPrefix(s, t) \/ IsPrefix(t, s)
<1> DEFINE file == s \o u
<1>0. /\ file \in Paths
      /\ \A k \in 1..Len(s) : file[k] = s[k]
      /\ Len(s) \in Nat /\ Len(t) \in Nat
  BY ConcatCharacters
<1>1. \A k \in 1..Len(t) : file[k] = t[k]
  BY <1>0, PrefixCharacters
<1> HIDE DEF file
<1>2. CASE Len(t) <= Len(s)
  <2>1. \A k \in 1..Len(t) : t[k] = s[k]
    BY <1>0, <1>1, <1>2
  <2> QED BY <1>2, <2>1, PrefixCharacters
<1>3. CASE Len(s) <= Len(t)
  <2>1. \A k \in 1..Len(s) : s[k] = t[k]
    BY <1>0, <1>1, <1>3
  <2> QED BY <1>3, <2>1, PrefixCharacters
<1> QED BY <1>0, <1>2, <1>3

(* The copier's name for what is below a directory that is not the root.    *)
LEMMA PathBelow ==
  ASSUME NEW s \in Paths, NEW rest \in Paths, Last(s) # Slash,
         rest # <<>>, rest[1] = Slash
  PROVE  pathcat(s, rest) = s \o rest
<1>1. Head(rest) = Slash
  BY DEF Paths
<1>2. /\ Slash \in STRING /\ <<Slash>> \in Paths
      /\ Tail(rest) \in Paths
  BY HeadTailProperties DEF Paths, Slash
<1>3. <<Slash>> \o Tail(rest) = rest
  <2>1. Len(rest) \in Nat \ {0} /\ 1 \in 1..Len(rest)
    BY EmptySeq DEF Paths
  <2>2. Len(rest) \in 1..Len(rest)
    BY <2>1
  <2>3. SubSeq(rest, 1, Len(rest)) = <<rest[1]>> \o SubSeq(rest, 1 + 1, Len(rest))
    BY <2>1, <2>2, SubSeqRecursiveFirst DEF Paths
  <2> QED BY <2>3, SubSeqFull, TailIsSubSeq DEF Paths
<1>4. (s \o <<Slash>>) \o Tail(rest) = s \o (<<Slash>> \o Tail(rest))
  BY <1>2, ConcatAssociative DEF Paths
<1> QED BY <1>1, <1>3, <1>4 DEF pathcat

(* What is cut off behind a beginning is what was put there. *)
LEMMA CutOff ==
  ASSUME NEW s \in Paths, NEW u \in Paths, u # <<>>
  PROVE  SubSeq(s \o u, Len(s) + 1, Len(s \o u)) = u
<1>1. /\ Len(s) \in Nat /\ Len(u) \in Nat \ {0}
      /\ Len(s \o u) = Len(s) + Len(u)
  BY ConcatCharacters, EmptySeq DEF Paths
<1>2. /\ Len(s) + 1 \in (Len(s) + 1)..(Len(s) + Len(u))
      /\ Len(s) + Len(u) \in (Len(s) + 1)..(Len(s) + Len(u))
      /\ (Len(s) + 1) - Len(s) = 1 /\ (Len(s) + Len(u)) - Len(s) = Len(u)
  BY <1>1
<1>3. SubSeq(s \o u, Len(s) + 1, Len(s) + Len(u))
        = SubSeq(u, (Len(s) + 1) - Len(s), (Len(s) + Len(u)) - Len(s))
  BY <1>2, SubSeqOfConcat2 DEF Paths
<1> QED BY <1>1, <1>2, <1>3, SubSeqFull DEF Paths

(* The one source that a path begins with is the one that is found. *)
LEMMA TheSourceIsFound ==
  ASSUME NEW n \in Nat, NEW sources \in [1..n -> Paths], NEW file \in Paths,
         NEW k \in 1..n, IsPrefix(sources[k], file),
         \A l \in 1..n : IsPrefix(sources[l], file) => l = k
  PROVE  find_index_matching_prefix(sources, file) = k
<1>1. Len(sources) = n
  OBVIOUS
<1> DEFINE I == {l \in 1..Len(sources) : IsPrefix(sources[l], file)}
<1>2. I = {k}
  BY <1>1
<1>3. Min(I) = k
  BY <1>2 DEF Min
<1>4. find_index_matching_prefix(sources, file)
        = IF I # {} THEN Min(I) ELSE 0
  BY DEF find_index_matching_prefix, SelectInSeq
<1> QED BY <1>2, <1>3, <1>4

(* Capture and copier agree where the copy of a path goes. *)
LEMMA SeparateSourcesAgree ==
  ASSUME NamesInv, NoDestinationIsRoot, SourcesAreSeparate
  PROVE  CaptureAgrees
<1> SUFFICES ASSUME NEW k \in Pairs, NEW rest \in Rests
             PROVE  translate_prefix_of_realpath(SourceNames, DestinationNames,
                                                 pathcat(SourceNames[k], rest))
                      = pathcat(DestinationNames[k], rest)
  BY DEF CaptureAgrees
<1> DEFINE s == SourceNames[k]
           d == DestinationNames[k]
<1>1. /\ \A l \in Pairs : SourceNames[l] \in SourcePaths
                          /\ DestinationNames[l] \in DestinationPaths
  BY DEF NamesInv, PairType, SourceNames, DestinationNames
<1>2. /\ SourceNames \in [Pairs -> Paths] /\ d \in Paths /\ rest \in Paths
      /\ rest # <<>> /\ rest[1] = Slash
  BY <1>1 DEF Paths, SourceNames
<1>3. s \in Paths /\ Last(s) # Slash /\ Last(d) # Slash
  BY <1>1, <1>2 DEF SourcesAreSeparate, NoDestinationIsRoot
<1> HIDE DEF s, d
<1>4. pathcat(s, rest) = s \o rest /\ pathcat(d, rest) = d \o rest
  BY <1>2, <1>3, PathBelow
<1>5. s \o rest \in Paths /\ IsPrefix(s, s \o rest)
  <2>1. /\ s \o rest \in Paths /\ Len(s) <= Len(s \o rest)
        /\ \A j \in 1..Len(s) : (s \o rest)[j] = s[j]
    BY <1>2, <1>3, ConcatCharacters
  <2> QED BY <1>3, <2>1, PrefixCharacters
<1>6. \A l \in Pairs : IsPrefix(SourceNames[l], s \o rest) => l = k
  <2> SUFFICES ASSUME NEW l \in Pairs, IsPrefix(SourceNames[l], s \o rest), l # k
               PROVE  FALSE
    OBVIOUS
  <2>1. SourceNames[l] \in Paths
    BY <1>2
  <2>2. IsPrefix(s, SourceNames[l]) \/ IsPrefix(SourceNames[l], s)
    BY <1>2, <1>3, <2>1, PrefixesAreNested
  <2> QED BY <2>2 DEF SourcesAreSeparate, s
<1>7. find_index_matching_prefix(SourceNames, s \o rest) = k
  BY <1>2, <1>5, <1>6, TheSourceIsFound DEF s
<1>8. SubSeq(s \o rest, Len(s) + 1, Len(s \o rest)) = rest
  BY <1>2, <1>3, CutOff
<1>9. translate_prefix_of_realpath(SourceNames, DestinationNames, s \o rest)
        = DestinationNames[k]
            \o SubSeq(s \o rest, Len(SourceNames[k]) + 1, Len(s \o rest))
  BY <1>7 DEF translate_prefix_of_realpath
<1> QED BY <1>4, <1>8, <1>9 DEF s, d

(* For any number of pairs and any paths: if no source begins another one   *)
(* and no destination is the root, what the application does to a file      *)
(* below a source is captured under the name that the copier gives it.  A   *)
(* destination that is the root makes two names of one file, //x and /x.    *)
THEOREM CaptureAgreesWithCopierHolds ==
  ASSUME NoDestinationIsRoot
  PROVE  Spec => []CaptureAgreesWithCopier
<1>1. IInv => CaptureAgreesWithCopier
  BY SeparateSourcesAgree DEF IInv, CaptureAgreesWithCopier
<1> QED BY InvariantHolds, <1>1, PTL

====
