-------------------------- MODULE DirectCopyProofs --------------------------
(***************************************************************************)
(* While every reopening gets the descriptor that was closed for it, the   *)
(* copy of a file is that of the file: for any number of descriptors,      *)
(* calls and blocks.                                                       *)
(***************************************************************************)
EXTENDS DirectCopy, SequenceTheorems, WellFoundedInduction, TLAPS

----------------------------------------------------------------------------
(*                       The inductive invariant                           *)

Files == {Original, Replacement, Other}

Description == [inode : {Closed} \cup Files, user : {"nobody", "app", "copier"},
                pos : Nat]

Steps == {"start", "loop", "close", "reopen", "read", "end", "done"}

(* The copier's descriptor is open. *)
HasSource == {"loop", "close", "read", "end"}

TypeInv ==
    /\ fds \in [Fds -> Description]
    /\ path \in {Closed, Original, Replacement} /\ direct \in BOOLEAN
    /\ pc \in Steps
    /\ srcFd \in Fds \cup {Closed} /\ fd \in Fds \cup {Closed}
    /\ srcDirect \in BOOLEAN /\ failed \in BOOLEAN
    /\ dest \in Seq(Files \X Nat)
    /\ result \in {"ok", "error"} /\ opening \in {NoOpen, "direct", "plain"}
    /\ callsLeft \in 0..MaxCalls
    /\ moved \in BOOLEAN /\ renamed \in BOOLEAN /\ robbed \in BOOLEAN

(* What is open has a user and a file, and the copier's descriptors are    *)
(* numbers when it uses them.                                              *)
OpenInv ==
    /\ \A d \in Fds : fds[d] # None => fds[d].user # "nobody" /\ fds[d].inode # Closed
    /\ pc \notin {"start", "done"} => srcFd \in Fds
    /\ pc \in {"close", "reopen", "read"} => fd \in Fds

(* The copier has one descriptor, the one that src_info names. *)
SourceInv ==
    /\ pc \in {"close", "reopen", "read"} => fd = srcFd
    /\ \A d \in Fds : fds[d].user = "copier" <=> d = srcFd /\ pc \in HasSource
    /\ ~robbed

(* The copier stands in the file where the destination ends. *)
OffsetInv ==
    /\ pc = "start" => dest = <<>>
    /\ pc \in HasSource => fds[srcFd].pos = Len(dest)
    /\ \A d \in Fds : fds[d].pos <= Blocks
    /\ Len(dest) <= Blocks

(* What is in the destination is the beginning of the file. *)
CopiedInv ==
    /\ \A k \in 1..Len(dest) : dest[k][2] = k - 1
    /\ path # Replacement =>
         /\ pc \in HasSource => fds[srcFd].inode = Original
         /\ \A k \in 1..Len(dest) : dest[k][1] = Original

(* The loop ends at the end of the file. *)
EndInv ==
    /\ ~renamed => path = Original
    /\ pc \in {"end", "done"} /\ result = "ok" /\ ~failed /\ ~renamed =>
         Len(dest) = Blocks

IInv ==
    /\ TypeInv /\ OpenInv
    /\ ~moved => SourceInv /\ OffsetInv /\ CopiedInv /\ EndInv

----------------------------------------------------------------------------

LessThan == OpToRel(<, Nat)

(* A set of numbers has its minimum. *)
LEMMA MinIsInSet == ASSUME NEW S \in SUBSET Nat, S # {} PROVE Min(S) \in S
<1>1. IsWellFoundedOn(LessThan, Nat)
  BY NatLessThanWellFounded DEF LessThan
<1>2. PICK x \in S : \A y \in S : ~(<<y, x>> \in LessThan)
  BY <1>1, WFMin, Zenon
<1>3. \A y \in S : ~(y < x)
  BY <1>2 DEF LessThan, OpToRel
<1>4. \A y \in S : x =< y
  BY <1>3
<1> QED BY <1>4 DEF Min

(* The descriptor that open() returns was free. *)
LEMMA LowestIsFree == LowestFree \in Fds => Free(LowestFree)
<1> DEFINE S == {d \in Fds : Free(d)} \cup {MaxFd + 1}
<1>1. MaxFd + 1 \notin Fds /\ S \in SUBSET Nat /\ S # {}
  BY DirectCopyAssumption DEF DirectCopyAssumption, Fds
<1>2. Min(S) \in S
  BY <1>1, MinIsInSet
<1> QED BY <1>1, <1>2 DEF LowestFree

LEMMA NoneIs ==
  None \in Description /\ None.user = "nobody" /\ None.inode = Closed /\ None.pos = 0
  BY DEF None, Description, Closed

(* open() makes one description. *)
LEMMA OpenFileIs ==
  ASSUME TypeInv, NEW d \in Fds, NEW i \in Files,
         NEW user \in {"app", "copier"}, NEW pos \in Nat,
         fds' = OpenFile(d, i, user, pos)
  PROVE  /\ fds' \in [Fds -> Description] /\ fds'[d] # None
         /\ fds'[d].inode = i /\ fds'[d].user = user /\ fds'[d].pos = pos
         /\ \A e \in Fds \ {d} : fds'[e] = fds[e]
<1> DEFINE e == [inode |-> i, user |-> user, pos |-> pos]
<1>1. e \in Description /\ e.inode = i /\ e.user = user /\ e.pos = pos
  BY DEF Description
<1>2. e # None
  BY <1>1, NoneIs
<1>3. fds' = [fds EXCEPT ![d] = e]
  BY DEF OpenFile
<1> HIDE DEF e
<1> QED BY <1>1, <1>2, <1>3 DEF TypeInv

(* close() *)
LEMMA CloseIs ==
  ASSUME TypeInv, NEW d \in Fds, fds' = [fds EXCEPT ![d] = None]
  PROVE  /\ fds' \in [Fds -> Description] /\ fds'[d] = None
         /\ \A e \in Fds \ {d} : fds'[e] = fds[e]
  BY NoneIs DEF TypeInv

LEMMA FileIsAFile ==
  path \in {Closed, Original, Replacement} /\ path # Closed => path \in Files
  BY DEF Files

LEMMA InitImpliesInv == ASSUME Init PROVE IInv
<1> USE DEF Init
<1>1. TypeInv
  <2>1. fds \in [Fds -> Description]
    BY NoneIs
  <2>2. MaxCalls \in 0..MaxCalls
    BY DirectCopyAssumption DEF DirectCopyAssumption
  <2>3. dest \in Seq(Files \X Nat)
    BY EmptySeq
  <2> QED BY <2>1, <2>2, <2>3 DEF TypeInv, Steps
<1>2. OpenInv
  BY DEF OpenInv
<1>3. SourceInv
  BY NoneIs DEF SourceInv, HasSource
<1>4. OffsetInv
  BY NoneIs, DirectCopyAssumption DEF OffsetInv, HasSource, DirectCopyAssumption
<1>5. CopiedInv /\ EndInv
  BY DEF CopiedInv, EndInv, HasSource
<1> QED BY <1>1, <1>2, <1>3, <1>4, <1>5 DEF IInv

----------------------------------------------------------------------------
(*                             The copier's steps                          *)

LEMMA OpenSourceKeepsInv == ASSUME IInv, OpenSource PROVE IInv'
<1> USE DEF OpenSource, appVars
<1>0. TypeInv /\ OpenInv
  BY DEF IInv
<1>1. CASE path = Closed
  <2>1. TypeInv' /\ OpenInv'
    BY <1>0, <1>1 DEF TypeInv, OpenInv, Steps
  <2>2. ASSUME ~moved PROVE SourceInv' /\ OffsetInv' /\ CopiedInv' /\ EndInv'
    <3>1. SourceInv'
      BY <1>1, <2>2 DEF IInv, SourceInv, HasSource
    <3>2. OffsetInv'
      BY <1>1, <2>2 DEF IInv, OffsetInv, HasSource
    <3>3. CopiedInv'
      BY <1>1, <2>2 DEF IInv, CopiedInv, HasSource
    <3>4. renamed
      BY <1>1, <2>2 DEF IInv, EndInv, Closed, Original
    <3>5. EndInv'
      BY <1>0, <3>4 DEF EndInv, TypeInv
    <3> QED BY <3>1, <3>2, <3>3, <3>5
  <2> QED BY <2>1, <2>2 DEF IInv
<1>2. CASE path # Closed
  <2>1. PICK d \in Fds : d = LowestFree
    OBVIOUS
  <2>2. /\ pc = "start" /\ pc' = "loop" /\ srcFd' = d /\ path \in Files
        /\ fds' = OpenFile(d, path, "copier", 0) /\ fds[d] = None
        /\ srcDirect' \in BOOLEAN
        /\ UNCHANGED <<path, direct, fd, dest, result, failed, opening,
                       callsLeft, moved, renamed, robbed>>
    BY <1>0, <1>2, <2>1, LowestIsFree, FileIsAFile DEF Free, TypeInv
  <2>3. /\ fds' \in [Fds -> Description] /\ fds'[d] # None
        /\ fds'[d].inode = path /\ fds'[d].user = "copier" /\ fds'[d].pos = 0
        /\ \A e \in Fds \ {d} : fds'[e] = fds[e]
    BY <1>0, <2>2, OpenFileIs
  <2>4. TypeInv'
    BY <1>0, <2>2, <2>3 DEF TypeInv, Steps
  <2>5. OpenInv'
    BY <1>0, <1>2, <2>2, <2>3 DEF OpenInv
  <2>6. ASSUME ~moved PROVE SourceInv' /\ OffsetInv' /\ CopiedInv' /\ EndInv'
    <3>1. SourceInv'
      BY <2>2, <2>3, <2>6 DEF IInv, SourceInv, HasSource
    <3>2. dest = <<>> /\ Len(dest) = 0
      BY <2>2, <2>6 DEF IInv, OffsetInv
    <3>3. OffsetInv'
      BY <2>2, <2>3, <2>6, <3>2, DirectCopyAssumption
         DEF IInv, OffsetInv, HasSource, DirectCopyAssumption
    <3>4. CopiedInv'
      BY <1>0, <1>2, <2>2, <2>3, <3>2 DEF CopiedInv, TypeInv
    <3>5. EndInv'
      BY <2>2, <2>6 DEF IInv, EndInv
    <3> QED BY <3>1, <3>3, <3>4, <3>5
  <2> QED BY <2>2, <2>4, <2>5, <2>6 DEF IInv
<1> QED BY <1>1, <1>2

LEMMA NextBufferKeepsInv == ASSUME IInv, NextBuffer PROVE IInv'
<1> USE DEF NextBuffer, appVars
<1>1. TypeInv' /\ OpenInv'
  BY DEF IInv, TypeInv, OpenInv, Steps
<1>2. pc' \in {"end", "close", "read"} /\ pc = "loop" /\ (pc' = "end" => failed)
  OBVIOUS
<1>3. ASSUME ~moved PROVE SourceInv' /\ OffsetInv' /\ CopiedInv' /\ EndInv'
  <2>1. SourceInv'
    BY <1>2, <1>3 DEF IInv, SourceInv, HasSource
  <2>2. OffsetInv'
    BY <1>2, <1>3 DEF IInv, OffsetInv, HasSource
  <2>3. CopiedInv'
    BY <1>2, <1>3 DEF IInv, CopiedInv, HasSource
  <2>4. EndInv'
    BY <1>2, <1>3 DEF IInv, EndInv
  <2> QED BY <2>1, <2>2, <2>3, <2>4
<1> QED BY <1>1, <1>3 DEF IInv

LEMMA CloseOldKeepsInv == ASSUME IInv, CloseOld PROVE IInv'
<1>0. TypeInv /\ OpenInv
  BY DEF IInv
<1>1. PICK d \in Fds : d = fd
  BY <1>0 DEF OpenInv, CloseOld
<1>2. /\ pc = "close" /\ pc' = "reopen" /\ fds' = [fds EXCEPT ![d] = None]
      /\ robbed' = (robbed \/ fds[d].user = "app")
      /\ failed' = (failed \/ Free(d))
      /\ UNCHANGED <<path, direct, srcFd, srcDirect, fd, dest, result, opening,
                     callsLeft, moved, renamed>>
  BY <1>1 DEF CloseOld, Close, appVars
<1>3. /\ fds' \in [Fds -> Description] /\ fds'[d] = None
      /\ \A e \in Fds \ {d} : fds'[e] = fds[e]
  BY <1>0, <1>2, CloseIs
<1>4. TypeInv'
  <2>1. failed' \in BOOLEAN /\ robbed' \in BOOLEAN
    BY <1>2
  <2> QED BY <1>0, <1>2, <1>3, <2>1 DEF TypeInv, Steps
<1>5. OpenInv'
  BY <1>0, <1>2, <1>3 DEF OpenInv
<1>6. ASSUME ~moved PROVE SourceInv' /\ OffsetInv' /\ CopiedInv' /\ EndInv'
  <2>1. SourceInv'
    BY <1>1, <1>2, <1>3, <1>6, NoneIs DEF IInv, SourceInv, HasSource
  <2>2. OffsetInv'
    BY <1>2, <1>3, <1>6, NoneIs, DirectCopyAssumption
       DEF IInv, OffsetInv, HasSource, DirectCopyAssumption
  <2>3. CopiedInv'
    BY <1>2, <1>6 DEF IInv, CopiedInv, HasSource
  <2>4. EndInv'
    BY <1>2, <1>6 DEF IInv, EndInv
  <2> QED BY <2>1, <2>2, <2>3, <2>4
<1> QED BY <1>2, <1>4, <1>5, <1>6 DEF IInv

LEMMA ReopenKeepsInv == ASSUME IInv, Reopen PROVE IInv'
<1>0. TypeInv /\ OpenInv
  BY DEF IInv
<1>1. CASE path = Closed
  <2>1. TypeInv' /\ OpenInv' /\ moved'
    BY <1>0, <1>1 DEF Reopen, appVars, TypeInv, OpenInv, Steps
  <2> QED BY <2>1 DEF IInv
<1>2. CASE path # Closed
  <2>1. PICK d \in Fds : d = LowestFree
    BY DEF Reopen
  <2>2. /\ pc = "reopen" /\ pc' = "read" /\ fd' = d /\ path \in Files
        /\ fds' = OpenFile(d, path, "copier", Len(dest)) /\ fds[d] = None
        /\ moved' = (moved \/ d # srcFd)
        /\ UNCHANGED <<path, direct, srcFd, srcDirect, dest, result, failed,
                       opening, callsLeft, renamed, robbed>>
    BY <1>0, <1>2, <2>1, LowestIsFree, FileIsAFile
       DEF Reopen, StartOfCopy, appVars, Free, TypeInv
  <2>3. Len(dest) \in Nat
    BY <1>0, LenProperties DEF TypeInv
  <2>4. /\ fds' \in [Fds -> Description] /\ fds'[d] # None
        /\ fds'[d].inode = path /\ fds'[d].user = "copier"
        /\ fds'[d].pos = Len(dest)
        /\ \A e \in Fds \ {d} : fds'[e] = fds[e]
    BY <1>0, <2>2, <2>3, OpenFileIs
  <2>5. TypeInv'
    BY <1>0, <2>2, <2>4 DEF TypeInv, Steps
  <2>6. OpenInv'
    BY <1>0, <1>2, <2>2, <2>4 DEF OpenInv
  <2>7. ASSUME ~moved' PROVE SourceInv' /\ OffsetInv' /\ CopiedInv' /\ EndInv'
    <3>0. ~moved /\ d = srcFd
      BY <2>2, <2>7
    <3>1. SourceInv'
      BY <2>2, <2>4, <3>0 DEF IInv, SourceInv, HasSource
    <3>2. OffsetInv'
      BY <2>2, <2>4, <3>0 DEF IInv, OffsetInv, HasSource
    <3>3. CopiedInv'
      BY <1>0, <1>2, <2>2, <2>4, <3>0 DEF IInv, CopiedInv, HasSource, TypeInv
    <3>4. EndInv'
      BY <2>2, <3>0 DEF IInv, EndInv
    <3> QED BY <3>1, <3>2, <3>3, <3>4
  <2> QED BY <2>5, <2>6, <2>7 DEF IInv
<1> QED BY <1>1, <1>2

(* A buffer goes from where the copier stands to the destination's end. *)
LEMMA BufferKeepsInv ==
  ASSUME IInv, Read, fds[fd] # None, ~AtEnd(fd) PROVE IInv'
<1>0. TypeInv /\ OpenInv
  BY DEF IInv
<1>1. PICK d \in Fds : d = fd
  BY <1>0 DEF OpenInv, Read
<1> DEFINE x == <<fds[d].inode, fds[d].pos>>
<1>2. /\ fds[d] \in Description /\ fds[d].pos \in Nat /\ fds[d].inode \in Files
      /\ x \in Files \X Nat /\ Len(dest) \in Nat
  BY <1>0, <1>1, LenProperties DEF TypeInv, OpenInv, Description
<1>3. /\ pc = "read" /\ pc' = "loop" /\ dest' = Append(dest, x)
      /\ fds' = [fds EXCEPT ![d].pos = @ + 1] /\ ~(fds[d].pos >= Blocks)
      /\ UNCHANGED <<path, direct, srcFd, srcDirect, fd, result, failed,
                     opening, callsLeft, moved, renamed, robbed>>
  BY <1>1 DEF Read, AtEnd, Free, appVars
<1>4. /\ dest' \in Seq(Files \X Nat) /\ Len(dest') = Len(dest) + 1
      /\ \A k \in 1..Len(dest) : dest'[k] = dest[k]
      /\ dest'[Len(dest) + 1] = x
  BY <1>0, <1>2, <1>3, AppendProperties DEF TypeInv
<1>5. /\ fds' \in [Fds -> Description]
      /\ fds'[d].inode = fds[d].inode /\ fds'[d].user = fds[d].user
      /\ fds'[d].pos = fds[d].pos + 1
      /\ \A e \in Fds \ {d} : fds'[e] = fds[e]
  <2> DEFINE e == [fds[d] EXCEPT !.pos = @ + 1]
  <2>1. /\ e \in Description /\ e.inode = fds[d].inode
        /\ e.user = fds[d].user /\ e.pos = fds[d].pos + 1
    BY <1>2 DEF Description
  <2>2. fds' = [fds EXCEPT ![d] = e]
    BY <1>0, <1>3 DEF TypeInv
  <2> HIDE DEF e
  <2> QED BY <1>0, <2>1, <2>2 DEF TypeInv
<1>6. TypeInv'
  BY <1>0, <1>3, <1>4, <1>5 DEF TypeInv, Steps
<1>7. OpenInv'
  BY <1>0, <1>1, <1>2, <1>3, <1>5 DEF OpenInv
<1>8. ASSUME ~moved PROVE SourceInv' /\ OffsetInv' /\ CopiedInv' /\ EndInv'
  <2>1. d = srcFd /\ fds[d].pos = Len(dest)
    BY <1>1, <1>3, <1>8 DEF IInv, SourceInv, OffsetInv, HasSource
  <2>2. SourceInv'
    BY <1>1, <1>3, <1>5, <1>8, <2>1 DEF IInv, SourceInv, HasSource
  <2>3. OffsetInv'
    <3>1. fds[d].pos + 1 <= Blocks
      BY <1>2, <1>3, DirectCopyAssumption DEF DirectCopyAssumption
    <3> QED BY <1>3, <1>4, <1>5, <1>8, <2>1, <3>1 DEF IInv, OffsetInv, HasSource
  <2>4. CopiedInv'
    <3>1. \A k \in 1..Len(dest') : k \in 1..Len(dest) \/ k = Len(dest) + 1
      BY <1>2, <1>4
    <3>2. x[1] = fds[d].inode /\ x[2] = (Len(dest) + 1) - 1
      BY <1>2, <2>1
    <3> HIDE DEF x
    <3>3. \A k \in 1..Len(dest') : dest'[k][2] = k - 1
      BY <1>4, <1>8, <3>1, <3>2 DEF IInv, CopiedInv
    <3>4. path # Replacement => fds[d].inode = Original
      BY <1>3, <1>8, <2>1 DEF IInv, CopiedInv, HasSource
    <3>5. path # Replacement => \A k \in 1..Len(dest') : dest'[k][1] = Original
      BY <1>4, <1>8, <3>1, <3>2, <3>4 DEF IInv, CopiedInv
    <3> QED BY <1>3, <1>5, <2>1, <3>3, <3>4, <3>5 DEF CopiedInv
  <2>5. EndInv'
    BY <1>3, <1>8 DEF IInv, EndInv
  <2> QED BY <2>2, <2>3, <2>4, <2>5
<1> QED BY <1>3, <1>6, <1>7, <1>8 DEF IInv

LEMMA ReadKeepsInv == ASSUME IInv, Read PROVE IInv'
<1> SUFFICES ASSUME Free(fd) \/ AtEnd(fd) PROVE IInv'
  BY BufferKeepsInv DEF Free
<1>0. TypeInv /\ OpenInv
  BY DEF IInv
<1>1. /\ pc = "read" /\ pc' = "end" /\ fds' = fds /\ dest' = dest
      /\ result' \in {"ok", "error"} /\ (Free(fd) => result' = "error")
      /\ UNCHANGED <<path, direct, srcFd, srcDirect, fd, failed, opening,
                     callsLeft, moved, renamed, robbed>>
  BY <1>0 DEF Read, AfterReadError, appVars, TypeInv
<1>2. TypeInv' /\ OpenInv'
  BY <1>0, <1>1 DEF TypeInv, OpenInv, Steps
<1>3. ASSUME ~moved PROVE SourceInv' /\ OffsetInv' /\ CopiedInv' /\ EndInv'
  <2>1. SourceInv'
    BY <1>1, <1>3 DEF IInv, SourceInv, HasSource
  <2>2. OffsetInv'
    BY <1>1, <1>3 DEF IInv, OffsetInv, HasSource
  <2>3. CopiedInv'
    BY <1>1, <1>3 DEF IInv, CopiedInv, HasSource
  <2>4. result' = "ok" => Len(dest) = Blocks
    <3> SUFFICES ASSUME AtEnd(fd) PROVE Len(dest) = Blocks
      BY <1>1
    <3>1. fd = srcFd /\ fds[fd].pos = Len(dest) /\ Len(dest) <= Blocks
      BY <1>1, <1>3 DEF IInv, SourceInv, OffsetInv, HasSource
    <3>2. Len(dest) >= Blocks
      BY <3>1 DEF AtEnd
    <3>3. Len(dest) \in Nat /\ Blocks \in Nat
      BY <1>0, LenProperties, DirectCopyAssumption DEF TypeInv, DirectCopyAssumption
    <3> QED BY <3>1, <3>2, <3>3
  <2>5. EndInv'
    BY <1>1, <1>3, <2>4 DEF IInv, EndInv
  <2> QED BY <2>1, <2>2, <2>3, <2>5
<1> QED BY <1>1, <1>2, <1>3 DEF IInv

LEMMA CloseSourceKeepsInv == ASSUME IInv, CloseSource PROVE IInv'
<1>0. TypeInv /\ OpenInv
  BY DEF IInv
<1>1. PICK d \in Fds : d = srcFd
  BY <1>0 DEF OpenInv, CloseSource
<1>2. /\ pc = "end" /\ pc' = "done" /\ fds' = [fds EXCEPT ![d] = None]
      /\ robbed' = (robbed \/ fds[d].user = "app")
      /\ \/ result' = "error" /\ failed' = TRUE
         \/ result' = result /\ failed' = failed
      /\ UNCHANGED <<path, direct, srcFd, srcDirect, fd, dest, opening,
                     callsLeft, moved, renamed>>
  BY <1>1 DEF CloseSource, Close, appVars
<1>3. /\ fds' \in [Fds -> Description] /\ fds'[d] = None
      /\ \A e \in Fds \ {d} : fds'[e] = fds[e]
  BY <1>0, <1>2, CloseIs
<1>4. TypeInv'
  <2>1. robbed' \in BOOLEAN
    BY <1>2
  <2> QED BY ZenonT(60), <1>0, <1>2, <1>3, <2>1 DEF TypeInv, Steps
<1>5. OpenInv'
  BY <1>0, <1>2, <1>3 DEF OpenInv
<1>6. ASSUME ~moved PROVE SourceInv' /\ OffsetInv' /\ CopiedInv' /\ EndInv'
  <2>1. SourceInv'
    BY <1>1, <1>2, <1>3, <1>6, NoneIs DEF IInv, SourceInv, HasSource
  <2>2. OffsetInv'
    BY <1>2, <1>3, <1>6, NoneIs, DirectCopyAssumption
       DEF IInv, OffsetInv, HasSource, DirectCopyAssumption
  <2>3. CopiedInv'
    BY <1>2, <1>6 DEF IInv, CopiedInv, HasSource
  <2>4. EndInv'
    BY <1>2, <1>6 DEF IInv, EndInv
  <2> QED BY <2>1, <2>2, <2>3, <2>4
<1> QED BY <1>2, <1>4, <1>5, <1>6 DEF IInv

----------------------------------------------------------------------------
(*                          The application's steps                        *)

(* Opening a file takes a free descriptor, which is not the copier's. *)
LEMMA AppOpenKeepsInv ==
  ASSUME IInv, NEW i \in Files, LowestFree \in Fds,
         fds' = OpenFile(LowestFree, i, "app", 0),
         opening' \in {NoOpen, "direct", "plain"}, callsLeft' \in 0..MaxCalls,
         UNCHANGED <<path, direct, pc, srcFd, srcDirect, fd, dest, result,
                     failed, moved, renamed, robbed>>
  PROVE  IInv'
<1>0. TypeInv /\ OpenInv
  BY DEF IInv
<1>1. PICK d \in Fds : d = LowestFree
  OBVIOUS
<1>2. fds[d] = None
  BY <1>1, LowestIsFree DEF Free
<1>3. /\ fds' \in [Fds -> Description] /\ fds'[d] # None
      /\ fds'[d].inode = i /\ fds'[d].user = "app" /\ fds'[d].pos = 0
      /\ \A e \in Fds \ {d} : fds'[e] = fds[e]
  BY <1>0, <1>1, OpenFileIs
<1>4. TypeInv'
  BY <1>0, <1>3 DEF TypeInv
<1>5. OpenInv'
  <2>1. i # Closed
    BY DEF Files, Closed, Original, Replacement, Other
  <2> QED BY <1>0, <1>3, <2>1 DEF OpenInv
<1>6. ASSUME ~moved PROVE SourceInv' /\ OffsetInv' /\ CopiedInv' /\ EndInv'
  <2>1. pc \in HasSource => srcFd \in Fds /\ srcFd # d
    BY <1>0, <1>2, <1>6, NoneIs DEF IInv, SourceInv, OpenInv, HasSource
  <2>2. SourceInv'
    BY <1>3, <1>6, <2>1 DEF IInv, SourceInv
  <2>3. OffsetInv'
    BY <1>3, <1>6, <2>1, DirectCopyAssumption
       DEF IInv, OffsetInv, DirectCopyAssumption
  <2>4. CopiedInv'
    BY <1>3, <1>6, <2>1 DEF IInv, CopiedInv
  <2>5. EndInv'
    BY <1>6 DEF IInv, EndInv
  <2> QED BY <2>2, <2>3, <2>4, <2>5
<1> QED BY <1>4, <1>5, <1>6 DEF IInv

LEMMA CallsAreCounted == ASSUME TypeInv, Call PROVE callsLeft' \in 0..MaxCalls
  BY DirectCopyAssumption DEF TypeInv, Call, DirectCopyAssumption

LEMMA SetFlagsKeepsInv == ASSUME IInv, SetFlags PROVE IInv'
<1> USE DEF SetFlags
<1>1. TypeInv' /\ OpenInv'
  BY DEF IInv, TypeInv, OpenInv
<1>2. ASSUME ~moved PROVE SourceInv' /\ OffsetInv' /\ CopiedInv' /\ EndInv'
  BY <1>2 DEF IInv, SourceInv, OffsetInv, CopiedInv, EndInv
<1> QED BY <1>1, <1>2 DEF IInv

LEMMA CloseFdKeepsInv ==
  ASSUME IInv, NEW d \in Fds, CloseFd(d) PROVE IInv'
<1>0. TypeInv /\ OpenInv
  BY DEF IInv
<1>1. /\ fds[d].user = "app" /\ fds' = [fds EXCEPT ![d] = None]
      /\ UNCHANGED <<path, direct, pc, srcFd, srcDirect, fd, dest, result,
                     failed, opening, callsLeft, moved, renamed, robbed>>
  BY DEF CloseFd
<1>2. /\ fds' \in [Fds -> Description] /\ fds'[d] = None
      /\ \A e \in Fds \ {d} : fds'[e] = fds[e]
  BY <1>0, <1>1, CloseIs
<1>3. TypeInv'
  BY <1>0, <1>1, <1>2 DEF TypeInv
<1>4. OpenInv'
  BY <1>0, <1>1, <1>2 DEF OpenInv
<1>5. ASSUME ~moved PROVE SourceInv' /\ OffsetInv' /\ CopiedInv' /\ EndInv'
  <2>1. pc \in HasSource => srcFd \in Fds /\ srcFd # d
    BY <1>0, <1>1, <1>5 DEF IInv, SourceInv, OpenInv, HasSource
  <2>2. SourceInv'
    BY <1>1, <1>2, <1>5, <2>1, NoneIs DEF IInv, SourceInv
  <2>3. OffsetInv'
    BY <1>1, <1>2, <1>5, <2>1, NoneIs, DirectCopyAssumption
       DEF IInv, OffsetInv, DirectCopyAssumption
  <2>4. CopiedInv'
    BY <1>1, <1>2, <1>5, <2>1 DEF IInv, CopiedInv
  <2>5. EndInv'
    BY <1>1, <1>5 DEF IInv, EndInv
  <2> QED BY <2>2, <2>3, <2>4, <2>5
<1> QED BY <1>1, <1>3, <1>4, <1>5 DEF IInv

LEMMA RenameKeepsInv == ASSUME IInv, Rename PROVE IInv'
<1>0. TypeInv /\ OpenInv
  BY DEF IInv
<1>1. /\ path = Original /\ path' \in {Closed, Replacement} /\ renamed' = TRUE
      /\ callsLeft' \in 0..MaxCalls
      /\ UNCHANGED <<fds, direct, pc, srcFd, srcDirect, fd, dest, result,
                     failed, opening, moved, robbed>>
  BY <1>0, CallsAreCounted DEF Rename
<1>2. TypeInv'
  BY <1>0, <1>1 DEF TypeInv
<1>3. OpenInv'
  BY <1>0, <1>1 DEF OpenInv
<1>4. ASSUME ~moved PROVE SourceInv' /\ OffsetInv' /\ CopiedInv' /\ EndInv'
  <2>1. SourceInv' /\ OffsetInv'
    BY <1>1, <1>4 DEF IInv, SourceInv, OffsetInv
  <2>2. path # Replacement
    BY <1>1 DEF Original, Replacement
  <2>3. CopiedInv'
    BY <1>1, <1>4, <2>2 DEF IInv, CopiedInv
  <2>4. EndInv'
    BY <1>1 DEF EndInv
  <2> QED BY <2>1, <2>3, <2>4
<1> QED BY <1>1, <1>2, <1>3, <1>4 DEF IInv

LEMMA CaptureFailsKeepsInv == ASSUME IInv, CaptureFails PROVE IInv'
<1>0. TypeInv /\ OpenInv
  BY DEF IInv
<1>1. /\ failed' = TRUE /\ callsLeft' \in 0..MaxCalls
      /\ UNCHANGED <<fds, path, direct, pc, srcFd, srcDirect, fd, dest,
                     result, opening, moved, renamed, robbed>>
  BY <1>0, CallsAreCounted DEF CaptureFails
<1>2. TypeInv' /\ OpenInv'
  BY <1>0, <1>1 DEF TypeInv, OpenInv
<1>3. ASSUME ~moved PROVE SourceInv' /\ OffsetInv' /\ CopiedInv' /\ EndInv'
  BY <1>1, <1>3 DEF IInv, SourceInv, OffsetInv, CopiedInv, EndInv
<1> QED BY <1>1, <1>2, <1>3 DEF IInv

----------------------------------------------------------------------------

LEMMA NextKeepsInv == ASSUME IInv, [Next]_vars PROVE IInv'
<1>1. CASE UNCHANGED vars
  <2>1. TypeInv' /\ OpenInv'
    BY <1>1 DEF IInv, TypeInv, OpenInv, vars
  <2>2. ASSUME ~moved PROVE SourceInv' /\ OffsetInv' /\ CopiedInv' /\ EndInv'
    BY <1>1, <2>2 DEF IInv, SourceInv, OffsetInv, CopiedInv, EndInv, vars
  <2> QED BY <1>1, <2>1, <2>2 DEF IInv, vars
<1>2. CASE CopierStep
  BY <1>2, OpenSourceKeepsInv, NextBufferKeepsInv, CloseOldKeepsInv,
     ReopenKeepsInv, ReadKeepsInv, CloseSourceKeepsInv DEF CopierStep
<1>3. CASE AppStep
  <2>0. TypeInv
    BY DEF IInv
  <2>1. ASSUME NEW flag \in {"direct", "plain"}, Open(flag) PROVE IInv'
    <3>1. path \in Files /\ callsLeft' \in 0..MaxCalls
      BY <2>0, <2>1, FileIsAFile, CallsAreCounted DEF Open, TypeInv
    <3> QED BY <2>1, <3>1, AppOpenKeepsInv DEF Open
  <2>2. ASSUME OpenOther PROVE IInv'
    <3>1. /\ Other \in Files /\ callsLeft' \in 0..MaxCalls
          /\ opening' \in {NoOpen, "direct", "plain"}
      BY <2>0, <2>2, CallsAreCounted DEF OpenOther, TypeInv, Files
    <3> QED BY <2>2, <3>1, AppOpenKeepsInv DEF OpenOther
  <2> QED BY <1>3, <2>1, <2>2, SetFlagsKeepsInv, RenameKeepsInv,
             CaptureFailsKeepsInv, CloseFdKeepsInv DEF AppStep
<1> QED BY <1>1, <1>2, <1>3 DEF Next

LEMMA Invariance == Spec => []IInv
<1>1. Init => IInv
  BY InitImpliesInv
<1>2. IInv /\ [Next]_vars => IInv'
  BY NextKeepsInv
<1> QED BY <1>1, <1>2, PTL DEF Spec

(* Every variable has values of its type, and an unmoved copy is not       *)
(* longer than the file.                                                   *)
THEOREM TypeCorrect == Spec => []TypeOK
<1>1. IInv => TypeOK
  BY DEF IInv, TypeInv, OffsetInv, TypeOK, Description, Files, Steps
<1> QED BY <1>1, Invariance, PTL

LEMMA BeginningIsPrefix ==
  ASSUME TypeInv, Len(dest) <= Blocks,
         \A k \in 1..Len(dest) : dest[k][1] = Original /\ dest[k][2] = k - 1
  PROVE  /\ IsPrefix(dest, Whole)
         /\ Len(dest) = Blocks => dest = Whole
<1> DEFINE T == Files \X Nat
           n == Len(dest)
           s == SubSeq(Whole, 1, n)
<1>1. n \in Nat /\ dest \in Seq(T) /\ Blocks \in Nat
  BY LenProperties, DirectCopyAssumption DEF TypeInv, DirectCopyAssumption
<1>2. \A k \in 1..Blocks : Whole[k] = <<Original, k - 1>> /\ Whole[k] \in T
  <2>1. \A k \in 1..Blocks : k - 1 \in Nat
    BY <1>1
  <2> QED BY <2>1 DEF Whole, Files
<1>3. Whole \in Seq(T) /\ Len(Whole) = Blocks
  BY <1>1, <1>2, IsASeq DEF Whole
<1>4. \A k \in 1..n : dest[k] = Whole[k]
  <2> SUFFICES ASSUME NEW k \in 1..n PROVE dest[k] = Whole[k]
    OBVIOUS
  <2>1. dest[k] \in T /\ k \in 1..Blocks
    BY <1>1, ElementOfSeq
  <2> QED BY <1>2, <2>1
<1>5. s = dest /\ SubSeq(dest, 1, n) = dest
  <2>1. \A k \in 1..n : Whole[k] \in T
    BY <1>1, <1>2
  <2>2. /\ s \in Seq(T) /\ Len(s) = IF 1 <= n THEN n - 1 + 1 ELSE 0
        /\ \A k \in 1..(n - 1 + 1) : s[k] = Whole[1 + k - 1]
    BY <1>1, <2>1, SubSeqProperties
  <2> HIDE DEF s, n
  <2>3. Len(s) = n /\ \A k \in 1..n : s[k] = Whole[k]
    BY <1>1, <2>2
  <2>4. s = dest
    BY <1>1, <1>4, <2>2, <2>3, SeqEqual DEF n
  <2> QED BY <1>1, <2>4, SubSeqFull DEF n
<1>6. n = Blocks => dest = Whole
  BY <1>1, <1>3, <1>4, SeqEqual
<1> QED BY <1>3, <1>5, <1>6 DEF IsPrefix

(* While every reopening gets the descriptor that was closed for it, the   *)
(* destination is a beginning of the file, and all of it at the end.       *)
THEOREM CopyIsFaithfulHolds == Spec => []CopyIsFaithful
<1>1. IInv => CopyIsFaithful
  <2> SUFFICES ASSUME IInv, ~moved
               PROVE  /\ \A k \in DOMAIN dest : dest[k][2] = k - 1
                      /\ path # Replacement => IsPrefix(dest, Whole)
                      /\ pc = "done" /\ result = "ok" /\ ~failed /\ ~renamed =>
                           dest = Whole
    BY DEF CopyIsFaithful
  <2>1. /\ TypeInv /\ Len(dest) <= Blocks
        /\ \A k \in 1..Len(dest) : dest[k][2] = k - 1
        /\ path # Replacement => \A k \in 1..Len(dest) : dest[k][1] = Original
    BY DEF IInv, OffsetInv, CopiedInv
  <2>2. DOMAIN dest = 1..Len(dest)
    BY <2>1, LenProperties DEF TypeInv
  <2>3. path # Replacement =>
          IsPrefix(dest, Whole) /\ (Len(dest) = Blocks => dest = Whole)
    BY <2>1, BeginningIsPrefix
  <2>4. pc = "done" /\ result = "ok" /\ ~failed /\ ~renamed =>
          Len(dest) = Blocks /\ path # Replacement
    BY DEF IInv, EndInv, Original, Replacement
  <2> QED BY <2>1, <2>2, <2>3, <2>4
<1> QED BY <1>1, Invariance, PTL

(* ... and the copier closes what it has opened, and nothing else. *)
THEOREM DescriptorsAreKeptHolds == Spec => []DescriptorsAreKept
<1>1. IInv => DescriptorsAreKept
  BY DEF IInv, OpenInv, SourceInv, HasSource, DescriptorsAreKept
<1> QED BY <1>1, Invariance, PTL

====
