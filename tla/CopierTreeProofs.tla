------------------------- MODULE CopierTreeProofs -------------------------
(***************************************************************************)
(* What the backup has of the source directories when the copier has gone  *)
(* through them, for any names, numbers of sources, threads and calls.     *)
(* BaseInv is about each component by itself, WalkInv about where the      *)
(* copier is, BackupInv about what the backup has of each name meanwhile;  *)
(* ProgressInv counts the files of the first directory.                    *)
(***************************************************************************)
EXTENDS CopierTree, SequenceTheorems, FiniteSetTheorems,
        WellFoundedInduction, TLAPS

----------------------------------------------------------------------------
(*                                 Names                                   *)

Strings == Seq(Components)

LEMMA NamesAreStrings ==
  /\ All \subseteq Strings /\ Root \in All /\ Names \subseteq All
  /\ \A p \in All : Len(p) \in Nat
  /\ \A p \in All : p \in Names <=> p # Root
  /\ \A p \in All : p \in Names <=> Len(p) # 0
  /\ \A p \in Names : Len(p) \in Nat \ {0} /\ p # Root /\ Parent(p) \in All
  /\ Null \notin All /\ Foreign \notin All /\ Null # Foreign
<1>1. All \subseteq Strings
  BY EmptySeq, CopierTreeAssumption DEF All, Strings, Root
<1>2. \A p \in All : Len(p) \in Nat
  BY <1>1, LenProperties DEF Strings
<1>3. \A p \in Strings : Len(p) = 0 => p = Root
  <2> SUFFICES ASSUME NEW p \in Strings, Len(p) = 0 PROVE p = Root
    OBVIOUS
  <2> QED BY EmptySeq, SeqEqual DEF Strings, Root
<1>4. Len(Root) = 0
  BY EmptySeq DEF Root
<1>5. Null # Foreign /\ Null # Root /\ Foreign # Root
  BY DEF Null, Foreign, Root
<1> QED BY <1>1, <1>2, <1>3, <1>4, <1>5, CopierTreeAssumption DEF All

(* A beginning of a name, component by component. *)
LEMMA BeginningIs ==
  ASSUME NEW t \in Strings, NEW n \in Nat, n <= Len(t)
  PROVE  /\ SubSeq(t, 1, n) \in Strings /\ Len(SubSeq(t, 1, n)) = n
         /\ \A k \in 1..n : SubSeq(t, 1, n)[k] = t[k]
<1>0. Len(t) \in Nat
  BY LenProperties DEF Strings
<1>1. \A k \in 1..n : t[k] \in Components
  BY <1>0, ElementOfSeq DEF Strings
<1> DEFINE b == SubSeq(t, 1, n)
<1>2. /\ b \in Strings /\ Len(b) = IF 1 <= n THEN n - 1 + 1 ELSE 0
      /\ \A k \in 1..(n - 1 + 1) : b[k] = t[1 + k - 1]
  BY <1>1, SubSeqProperties DEF Strings
<1> HIDE DEF b
<1>3. Len(b) = n /\ \A k \in 1..n : b[k] = t[k]
  BY <1>2
<1> QED BY <1>2, <1>3 DEF b

LEMMA PrefixIs ==
  ASSUME NEW s \in Strings, NEW t \in Strings
  PROVE  /\ IsPrefix(s, t) <=>
              Len(s) <= Len(t) /\ \A k \in 1..Len(s) : s[k] = t[k]
         /\ IsPrefix(s, t) <=> Len(s) <= Len(t) /\ s = SubSeq(t, 1, Len(s))
<1>0. Len(s) \in Nat /\ Len(t) \in Nat
  BY LenProperties DEF Strings
<1>1. CASE Len(s) <= Len(t)
  <2> DEFINE a == SubSeq(s, 1, Len(s))
             b == SubSeq(t, 1, Len(s))
  <2>1. a \in Strings /\ Len(a) = Len(s) /\ \A k \in 1..Len(s) : a[k] = s[k]
    BY <1>0, BeginningIs
  <2>2. b \in Strings /\ Len(b) = Len(s) /\ \A k \in 1..Len(s) : b[k] = t[k]
    BY <1>0, <1>1, BeginningIs
  <2> HIDE DEF a, b
  <2>3. a = s
    BY <2>1, SeqEqual DEF Strings
  <2>4. s = b <=> \A k \in 1..Len(s) : s[k] = t[k]
    BY <2>2, SeqEqual DEF Strings
  <2>5. IsPrefix(s, t) <=> a = b
    BY <1>1 DEF IsPrefix, a, b
  <2> QED BY <1>1, <2>3, <2>4, <2>5 DEF b
<1> QED BY <1>0, <1>1 DEF IsPrefix

LEMMA PrefixIsReflexive == ASSUME NEW s \in Strings PROVE IsPrefix(s, s)
  BY LenProperties, PrefixIs DEF Strings

LEMMA PrefixIsTransitive ==
  ASSUME NEW s \in Strings, NEW t \in Strings, NEW u \in Strings,
         IsPrefix(s, t), IsPrefix(t, u)
  PROVE  IsPrefix(s, u)
<1>0. Len(s) \in Nat /\ Len(t) \in Nat /\ Len(u) \in Nat
  BY LenProperties DEF Strings
<1>1. Len(s) <= Len(t) /\ \A k \in 1..Len(s) : s[k] = t[k]
  BY PrefixIs
<1>2. Len(t) <= Len(u) /\ \A k \in 1..Len(t) : t[k] = u[k]
  BY PrefixIs
<1>3. Len(s) <= Len(u) /\ \A k \in 1..Len(s) : s[k] = u[k]
  BY <1>0, <1>1, <1>2
<1> QED BY <1>3, PrefixIs

LEMMA PrefixIsAntisymmetric ==
  ASSUME NEW s \in Strings, NEW t \in Strings, IsPrefix(s, t),
         IsPrefix(t, s) \/ Len(t) <= Len(s)
  PROVE  s = t
<1>0. Len(s) \in Nat /\ Len(t) \in Nat
  BY LenProperties DEF Strings
<1>1. Len(s) <= Len(t) /\ \A k \in 1..Len(s) : s[k] = t[k]
  BY PrefixIs
<1>2. Len(t) <= Len(s)
  BY PrefixIs
<1>3. Len(s) = Len(t)
  BY <1>0, <1>1, <1>2
<1> QED BY <1>1, <1>3, SeqEqual DEF Strings

LEMMA PrefixesAreNested ==
  ASSUME NEW s \in Strings, NEW t \in Strings, NEW u \in Strings,
         IsPrefix(s, u), IsPrefix(t, u), Len(s) <= Len(t)
  PROVE  IsPrefix(s, t)
<1>0. Len(s) \in Nat /\ Len(t) \in Nat /\ Len(u) \in Nat
  BY LenProperties DEF Strings
<1>1. \A k \in 1..Len(s) : s[k] = u[k]
  BY PrefixIs
<1>2. \A k \in 1..Len(t) : t[k] = u[k]
  BY PrefixIs
<1>3. \A k \in 1..Len(s) : s[k] = t[k]
  BY <1>0, <1>1, <1>2
<1> QED BY <1>3, PrefixIs

(* What a name is in. *)
LEMMA ParentIs ==
  ASSUME NEW p \in Names
  PROVE  /\ Parent(p) \in All /\ Len(Parent(p)) = Len(p) - 1
         /\ IsPrefix(Parent(p), p) /\ Parent(p) # p /\ p \notin Children(p)
         /\ \A a \in Strings : IsPrefix(a, p) <=> a = p \/ IsPrefix(a, Parent(p))
<1>0. p \in Strings /\ Len(p) \in Nat \ {0} /\ Parent(p) \in All
  BY NamesAreStrings
<1>1. /\ Parent(p) \in Strings /\ Len(Parent(p)) = Len(p) - 1
      /\ \A k \in 1..(Len(p) - 1) : Parent(p)[k] = p[k]
  <2>1. Len(p) - 1 \in Nat /\ Len(p) - 1 <= Len(p)
    BY <1>0
  <2>2. /\ SubSeq(p, 1, Len(p) - 1) \in Strings
        /\ Len(SubSeq(p, 1, Len(p) - 1)) = Len(p) - 1
        /\ \A k \in 1..(Len(p) - 1) : SubSeq(p, 1, Len(p) - 1)[k] = p[k]
    BY <1>0, <2>1, BeginningIs
  <2> QED BY <2>2 DEF Parent, Front
<1>2. IsPrefix(Parent(p), p)
  BY <1>0, <1>1, PrefixIs
<1>3. Parent(p) # p
  BY <1>0, <1>1
<1>4. ASSUME NEW a \in Strings, IsPrefix(a, p), a # p
      PROVE  IsPrefix(a, Parent(p))
  <2>1. Len(a) \in Nat /\ Len(a) <= Len(p)
    BY <1>0, <1>4, PrefixIs, LenProperties DEF Strings
  <2>2. Len(a) # Len(p)
    BY <1>0, <1>4, <2>1, PrefixIsAntisymmetric
  <2>3. Len(a) <= Len(Parent(p))
    BY <1>0, <1>1, <2>1, <2>2
  <2> QED BY <1>0, <1>1, <1>2, <1>4, <2>3, PrefixesAreNested
<1>5. ASSUME NEW a \in Strings, IsPrefix(a, Parent(p)) PROVE IsPrefix(a, p)
  BY <1>0, <1>1, <1>2, <1>5, PrefixIsTransitive
<1> QED BY <1>0, <1>1, <1>2, <1>3, <1>4, <1>5, PrefixIsReflexive DEF Children

(* A set of names that has the parents of all it has, has all that they    *)
(* are in.                                                                 *)
LEMMA ClosedUpwards ==
  ASSUME NEW D \in SUBSET All, \A n \in D : n = Root \/ Parent(n) \in D,
         NEW p \in D, NEW a \in Strings, IsPrefix(a, p)
  PROVE  a \in D
<1>0. D \subseteq Strings /\ \A n \in D : Len(n) \in Nat
  BY NamesAreStrings
<1> DEFINE L == {n \in D : IsPrefix(a, n)}
           lengths == {Len(n) : n \in L}
           R == OpToRel(<, Nat)
<1>1. p \in L /\ lengths \in SUBSET Nat /\ lengths # {}
  BY <1>0
<1>2. PICK m \in lengths : \A k \in lengths : ~(k < m)
  <2>1. PICK m \in lengths : \A k \in lengths : ~(<<k, m>> \in R)
    <3> HIDE DEF lengths, R
    <3>1. IsWellFoundedOn(R, Nat)
      BY NatLessThanWellFounded DEF R
    <3> QED BY <1>1, <3>1, WFMin
  <2> HIDE DEF lengths
  <2> QED BY <1>1, <2>1 DEF OpToRel
<1>3. PICK n \in L : m = Len(n)
  BY <1>2
<1>4. CASE n = a
  BY <1>4
<1>5. CASE n # a
  <2>1. n # Root
    <3>1. Len(a) \in Nat /\ (n = Root => Len(n) = 0)
      BY LenProperties, EmptySeq DEF Strings, Root
    <3>2. n = Root => Len(n) <= Len(a)
      BY <3>1
    <3> QED BY <1>0, <1>5, <3>2, PrefixIsAntisymmetric
  <2>2. n \in Names /\ Parent(n) \in D
    BY <2>1, NamesAreStrings
  <2>3. IsPrefix(a, Parent(n)) /\ Len(Parent(n)) = Len(n) - 1
    BY <1>5, <2>2, ParentIs
  <2>4. Len(Parent(n)) \in lengths
    BY <2>2, <2>3
  <2>5. Len(Parent(n)) < m
    BY <1>0, <1>3, <2>3
  <2> QED BY <1>2, <2>4, <2>5
<1> QED BY <1>4, <1>5

(* A name and what it is in. *)
UpTo(p) == Ancestors(p) \cup {p}

LEMMA UpToIs ==
  ASSUME NEW p \in All
  PROVE  /\ UpTo(p) = {a \in All : IsPrefix(a, p)}
         /\ Ancestors(p) = {a \in All : IsPrefix(a, p) /\ a # p}
         /\ Root \in UpTo(p) /\ p \in UpTo(p)
         /\ Null \notin UpTo(p) /\ Foreign \notin UpTo(p)
<1>0. p \in Strings /\ Len(p) \in Nat
  BY NamesAreStrings
<1>1. ASSUME NEW a \in Strings, IsPrefix(a, p) PROVE a \in All
  BY <1>1, ClosedUpwards, NamesAreStrings
<1>2. ASSUME NEW a \in Ancestors(p) PROVE a \in Strings /\ IsPrefix(a, p) /\ a # p
  <2>1. PICK n \in 0..(Len(p) - 1) : a = SubSeq(p, 1, n)
    BY DEF Ancestors
  <2>2. n \in Nat /\ n <= Len(p)
    BY <1>0, <2>1
  <2>3. a \in Strings /\ Len(a) = n
    BY <1>0, <2>1, <2>2, BeginningIs
  <2>4. IsPrefix(a, p)
    BY <1>0, <2>1, <2>2, <2>3, PrefixIs
  <2> QED BY <1>0, <2>1, <2>3, <2>4
<1>3. ASSUME NEW a \in Strings, IsPrefix(a, p), a # p PROVE a \in Ancestors(p)
  <2>1. Len(a) \in Nat /\ Len(a) <= Len(p) /\ a = SubSeq(p, 1, Len(a))
    BY <1>0, <1>3, PrefixIs, LenProperties DEF Strings
  <2>2. Len(a) # Len(p)
    BY <1>0, <1>3, <2>1, PrefixIsAntisymmetric
  <2>3. Len(a) \in 0..(Len(p) - 1)
    BY <1>0, <2>1, <2>2
  <2> QED BY <2>1, <2>3 DEF Ancestors
<1>4. IsPrefix(Root, p) /\ IsPrefix(p, p)
  <2>1. Root \in Strings /\ Len(Root) = 0
    BY EmptySeq DEF Root, Strings
  <2>2. Len(Root) <= Len(p) /\ \A k \in 1..Len(Root) : Root[k] = p[k]
    BY <1>0, <2>1
  <2> QED BY <1>0, <2>1, <2>2, PrefixIs, PrefixIsReflexive
<1> QED BY <1>1, <1>2, <1>3, <1>4, NamesAreStrings DEF UpTo

(* On the way from a directory to what is below it is one of its entries. *)
LEMMA EntryTowards ==
  ASSUME NEW a \in All, NEW p \in Names, a \in UpTo(p), a # p
  PROVE  \E b \in Children(a) : b \in UpTo(p)
<1>0. /\ a \in Strings /\ p \in Strings /\ Len(a) \in Nat /\ Len(p) \in Nat
      /\ IsPrefix(a, p)
  BY NamesAreStrings, UpToIs
<1>1. Len(a) < Len(p)
  <2>1. Len(a) <= Len(p)
    BY <1>0, PrefixIs
  <2>2. Len(a) # Len(p)
    BY <1>0, PrefixIsAntisymmetric
  <2> QED BY <1>0, <2>1, <2>2
<1> DEFINE b == SubSeq(p, 1, Len(a) + 1)
<1>2. b \in Strings /\ Len(b) = Len(a) + 1
  BY <1>0, <1>1, BeginningIs
<1>3. IsPrefix(b, p)
  <2>1. b = SubSeq(p, 1, Len(b)) /\ Len(b) <= Len(p)
    BY <1>0, <1>1, <1>2
  <2> HIDE DEF b
  <2> QED BY <1>0, <1>2, <2>1, PrefixIs
<1> HIDE DEF b
<1>4. b \in All /\ b \in UpTo(p)
  BY <1>2, <1>3, ClosedUpwards, NamesAreStrings, UpToIs
<1>5. b \in Names
  BY <1>0, <1>2, <1>4, NamesAreStrings
<1>6. Parent(b) \in Strings /\ Len(Parent(b)) = Len(a)
  BY <1>0, <1>2, <1>5, ParentIs, NamesAreStrings
<1>7. IsPrefix(Parent(b), p)
  BY <1>0, <1>2, <1>3, <1>5, <1>6, ParentIs, PrefixIsTransitive
<1>8. IsPrefix(a, Parent(b))
  BY <1>0, <1>6, <1>7, PrefixesAreNested
<1>9. a = Parent(b)
  BY <1>0, <1>6, <1>8, PrefixIsAntisymmetric
<1> QED BY <1>4, <1>5, <1>9 DEF Children

(* What is said of names below in terms of these. *)
LEMMA UpToFacts ==
  /\ \A p \in Names : UpTo(p) = {p} \cup UpTo(Parent(p)) /\ Parent(p) \in UpTo(p)
  /\ \A p \in Names : Ancestors(p) = UpTo(Parent(p)) /\ p \notin Ancestors(p)
  /\ UpTo(Root) = {Root} /\ Ancestors(Root) = {}
  /\ \A p, a, b \in All : a \in UpTo(p) /\ b \in UpTo(a) => b \in UpTo(p)
  /\ \A p, a \in All : a \in UpTo(p) /\ p \in UpTo(a) => a = p
  /\ \A p, a \in All : a \in UpTo(p) <=> IsPrefix(a, p)
  /\ \A p \in All : UpTo(p) \subseteq All /\ Ancestors(p) \subseteq All
  /\ \A p \in Names : Below(p) = {n \in Names : p \in UpTo(n)}
<1>1. \A p, a \in All : a \in UpTo(p) <=> IsPrefix(a, p)
  BY UpToIs
<1>2. \A p \in Names : Parent(p) \in All /\ \A a \in All : a \in UpTo(p) <=> a = p \/ a \in UpTo(Parent(p))
  BY <1>1, ParentIs, NamesAreStrings
<1>3. \A p \in All : UpTo(p) \subseteq All /\ Ancestors(p) = UpTo(p) \ {p} /\ p \in UpTo(p)
  BY UpToIs
<1>4. \A p \in Names : UpTo(p) = {p} \cup UpTo(Parent(p)) /\ Parent(p) \in UpTo(p)
  BY <1>2, <1>3, NamesAreStrings
<1>5. \A p, a \in All : a \in UpTo(p) /\ p \in UpTo(a) => a = p
  BY <1>1, PrefixIsAntisymmetric, NamesAreStrings
<1>6. \A p, a, b \in All : a \in UpTo(p) /\ b \in UpTo(a) => b \in UpTo(p)
  BY <1>1, PrefixIsTransitive, NamesAreStrings
<1>7. \A p \in Names : p \notin UpTo(Parent(p))
  BY <1>4, <1>5, ParentIs, NamesAreStrings
<1>8. UpTo(Root) = {Root}
  <2>1. ASSUME NEW a \in UpTo(Root) PROVE a = Root
    BY <2>1, <1>3, <1>5, UpToIs, NamesAreStrings
  <2> QED BY <2>1, UpToIs, NamesAreStrings
<1>9. \A p \in Names : Below(p) = {n \in Names : p \in UpTo(n)}
  BY <1>1, NamesAreStrings DEF Below
<1>10. Ancestors(Root) = {}
  BY <1>3, <1>8, NamesAreStrings
<1>11. \A p \in Names : Ancestors(p) = UpTo(Parent(p)) /\ p \notin Ancestors(p)
  <2> SUFFICES ASSUME NEW p \in Names
               PROVE  Ancestors(p) = UpTo(Parent(p)) /\ p \notin Ancestors(p)
    OBVIOUS
  <2>1. UpTo(p) = {p} \cup UpTo(Parent(p)) /\ p \notin UpTo(Parent(p))
    BY <1>4, <1>7
  <2>2. Ancestors(p) = UpTo(p) \ {p}
    BY <1>3, NamesAreStrings
  <2> QED BY <2>1, <2>2
<1> QED BY <1>1, <1>3, <1>4, <1>5, <1>6, <1>8, <1>9, <1>10, <1>11

----------------------------------------------------------------------------
(*                           The file systems                              *)

Kinds == {"none", "part", "file", "dir"}

(* Everything is in a directory. *)
FileSystem(fs) ==
    /\ fs \in [All -> Kinds]
    /\ fs[Root] = "dir"
    /\ \A n \in Names : fs[n] # "none" => HasDir(fs, n)

LEMMA InDirectories ==
  ASSUME NEW fs, FileSystem(fs), NEW p \in All, fs[p] # "none",
         NEW a \in UpTo(p), a # p
  PROVE  fs[a] = "dir"
<1> DEFINE D == {n \in UpTo(p) : n = p \/ fs[n] = "dir"}
<1>1. D \subseteq All /\ a \in Strings /\ IsPrefix(a, p) /\ p \in D
  BY UpToIs, NamesAreStrings
<1>2. ASSUME NEW n \in D PROVE n = Root \/ Parent(n) \in D
  <2>1. CASE n \in Names
    <3>1. fs[n] # "none"
      BY <1>2
    <3>2. fs[Parent(n)] = "dir" /\ Parent(n) \in UpTo(n) /\ Parent(n) \in All
      BY <2>1, <3>1, UpToFacts, ParentIs DEF FileSystem, HasDir
    <3>3. Parent(n) \in UpTo(p)
      BY <1>1, <3>2, UpToFacts
    <3> QED BY <3>2, <3>3
  <2>2. CASE n = Root
    BY <2>2
  <2> QED BY <1>1, <2>1, <2>2, NamesAreStrings
<1> HIDE DEF D
<1>3. a \in D
  BY <1>1, <1>2, ClosedUpwards
<1> QED BY <1>3 DEF D

LEMMA NothingBelow ==
  ASSUME NEW fs, FileSystem(fs), NEW p \in All, fs[p] # "dir",
         NEW n \in All, p \in UpTo(n), n # p
  PROVE  fs[n] = "none"
  BY InDirectories

LEMMA EntriesAreBelow ==
  ASSUME NEW p \in All, NEW n \in Children(p)
  PROVE  n \in Names /\ n # p /\ p \in UpTo(n) /\ Parent(n) = p
  BY UpToFacts, ParentIs DEF Children

(* A name gets another kind. *)
LEMMA PutIs ==
  ASSUME NEW fs, FileSystem(fs), NEW p \in Names, NEW kind \in Kinds,
         kind # "none" => HasDir(fs, p),
         kind # "dir" => \A n \in Children(p) : fs[n] = "none"
  PROVE  /\ FileSystem([fs EXCEPT ![p] = kind])
         /\ [fs EXCEPT ![p] = kind][p] = kind
         /\ \A n \in All : n # p => [fs EXCEPT ![p] = kind][n] = fs[n]
<1> DEFINE gs == [fs EXCEPT ![p] = kind]
<1>0. p \in All /\ p # Root /\ Root \in All
  BY NamesAreStrings
<1>1. gs \in [All -> Kinds] /\ gs[p] = kind /\ \A n \in All : n # p => gs[n] = fs[n]
  BY <1>0 DEF FileSystem
<1> HIDE DEF gs
<1>2. ASSUME NEW n \in Names, gs[n] # "none" PROVE gs[Parent(n)] = "dir"
  <2>1. Parent(n) \in All /\ Parent(n) # n /\ n \in All
    BY ParentIs, NamesAreStrings
  <2>2. CASE n = p
    BY <1>1, <1>2, <2>1, <2>2 DEF HasDir
  <2>3. CASE n # p /\ Parent(n) = p
    BY <1>1, <1>2, <2>1, <2>3 DEF Children
  <2>4. CASE n # p /\ Parent(n) # p
    BY <1>1, <1>2, <2>1, <2>4 DEF FileSystem, HasDir
  <2> QED BY <2>2, <2>3, <2>4
<1>3. FileSystem(gs)
  BY <1>0, <1>1, <1>2 DEF FileSystem, HasDir
<1> QED BY <1>1, <1>3 DEF gs

LEMMA NoEntries ==
  ASSUME NEW fs, FileSystem(fs), NEW p \in Names, fs[p] # "dir"
  PROVE  \A n \in Children(p) : fs[n] = "none"
  BY NothingBelow, EntriesAreBelow, NamesAreStrings

LEMMA ClearIs ==
  ASSUME NEW fs, FileSystem(fs), NEW p \in Names, fs[p] # "dir"
  PROVE  /\ FileSystem([fs EXCEPT ![p] = "none"])
         /\ [fs EXCEPT ![p] = "none"][p] = "none"
         /\ \A n \in All : n # p => [fs EXCEPT ![p] = "none"][n] = fs[n]
<1>1. \A n \in Children(p) : fs[n] = "none"
  BY NoEntries
<1>2. "none" \in Kinds
  BY DEF Kinds
<1> QED BY <1>1, <1>2, PutIs

LEMMA CreateIs ==
  ASSUME NEW fs, FileSystem(fs), NEW p \in Names, HasDir(fs, p),
         NEW kind \in Kinds \ {"none"}
  PROVE  /\ FileSystem(Create(fs, p, kind))
         /\ Create(fs, p, kind)[p] = IF fs[p] = "none" THEN kind ELSE fs[p]
         /\ \A n \in All : n # p => Create(fs, p, kind)[n] = fs[n]
<1>1. CASE fs[p] = "none"
  <2>1. \A n \in Children(p) : fs[n] = "none"
    BY <1>1, NoEntries
  <2> QED BY <1>1, <2>1, PutIs DEF Create
<1>2. CASE fs[p] # "none"
  BY <1>2 DEF Create
<1> QED BY <1>1, <1>2

(* The directories above a name are made, unless a file is in the way.     *)
LEMMA OpenPathIs ==
  ASSUME NEW fs, FileSystem(fs), NEW p \in Names, ~PathIsBlocked(fs, p)
  PROVE  /\ FileSystem(open_path(fs, p))
         /\ HasDir(open_path(fs, p), p)
         /\ \A n \in All : open_path(fs, p)[n] = fs[n] \/
               (n \in Ancestors(p) /\ fs[n] = "none" /\ open_path(fs, p)[n] = "dir")
<1>1. CASE fs[p] = "none"
  <2> DEFINE gs == create_subdirectories(fs, p)
  <2>1. /\ gs \in [All -> Kinds]
        /\ \A n \in All : gs[n] = IF n \in Ancestors(p) /\ fs[n] = "none"
                                  THEN "dir" ELSE fs[n]
    BY DEF create_subdirectories, FileSystem, Kinds
  <2> HIDE DEF gs
  <2>2. \A a \in Ancestors(p) : a \in All /\ gs[a] = "dir"
    <3> SUFFICES ASSUME NEW a \in Ancestors(p) PROVE a \in All /\ gs[a] = "dir"
      OBVIOUS
    <3>1. a \in All
      BY UpToFacts, NamesAreStrings
    <3>2. fs[a] \notin {"file", "part"} /\ fs[a] \in Kinds
      BY <3>1 DEF PathIsBlocked, FileSystem
    <3> QED BY <2>1, <3>1, <3>2 DEF Kinds
  <2>3. Parent(p) \in Ancestors(p)
    BY UpToFacts, UpToIs, ParentIs
  <2>4. ASSUME NEW n \in Names, gs[n] # "none" PROVE gs[Parent(n)] = "dir"
    <3>1. Parent(n) \in All /\ n \in All
      BY ParentIs, NamesAreStrings
    <3>2. CASE n \in Ancestors(p)
      <4>1. n \in UpTo(Parent(p)) /\ Parent(n) \in UpTo(n) /\ Parent(p) \in All
        BY <3>2, UpToFacts, ParentIs
      <4>2. Parent(n) \in Ancestors(p)
        BY <3>1, <4>1, UpToFacts
      <4> QED BY <2>2, <4>2
    <3>3. CASE n \notin Ancestors(p)
      <4>1. fs[Parent(n)] = "dir"
        BY <2>1, <2>4, <3>1, <3>3 DEF FileSystem, HasDir
      <4> QED BY <2>1, <3>1, <4>1
    <3> QED BY <3>2, <3>3
  <2>5. FileSystem(gs)
    BY <2>1, <2>4, NamesAreStrings DEF FileSystem, HasDir
  <2>6. HasDir(gs, p)
    BY <2>2, <2>3 DEF HasDir
  <2>7. open_path(fs, p) = gs
    BY <1>1 DEF open_path, gs
  <2> QED BY <2>1, <2>5, <2>6, <2>7
<1>2. CASE fs[p] # "none"
  BY <1>2 DEF open_path, FileSystem
<1> QED BY <1>1, <1>2

(* The name below p that goes to n, below q. *)
LEMMA MovedNameIs ==
  ASSUME NEW p \in Strings, NEW q \in Strings, NEW n \in Strings, IsPrefix(q, n)
  PROVE  LET from == p \o SubSeq(n, Len(q) + 1, Len(n))
         IN  /\ from \in Strings /\ Len(from) = Len(p) + Len(n) - Len(q)
             /\ \A k \in 1..Len(from) :
                  from[k] = IF k <= Len(p) THEN p[k] ELSE n[k - Len(p) + Len(q)]
<1>0. Len(p) \in Nat /\ Len(q) \in Nat /\ Len(n) \in Nat /\ Len(q) <= Len(n)
  BY PrefixIs, LenProperties DEF Strings
<1> DEFINE rest == SubSeq(n, Len(q) + 1, Len(n))
           from == p \o rest
<1>1. \A k \in (Len(q) + 1)..Len(n) : n[k] \in Components
  BY <1>0, ElementOfSeq DEF Strings
<1>2. /\ rest \in Strings
      /\ Len(rest) = IF Len(q) + 1 <= Len(n) THEN Len(n) - (Len(q) + 1) + 1 ELSE 0
      /\ \A k \in 1..(Len(n) - (Len(q) + 1) + 1) : rest[k] = n[(Len(q) + 1) + k - 1]
  BY <1>0, <1>1, SubSeqProperties DEF Strings
<1> HIDE DEF rest
<1>3. Len(rest) = Len(n) - Len(q) /\ \A k \in 1..Len(rest) : rest[k] = n[Len(q) + k]
  BY <1>0, <1>2
<1>4. /\ from \in Strings /\ Len(from) = Len(p) + Len(rest)
      /\ \A k \in 1..(Len(p) + Len(rest)) :
           from[k] = IF k <= Len(p) THEN p[k] ELSE rest[k - Len(p)]
  BY <1>2, ConcatProperties DEF Strings
<1> HIDE DEF from
<1>5. ASSUME NEW k \in 1..Len(from), ~(k <= Len(p))
      PROVE  from[k] = n[k - Len(p) + Len(q)]
  <2>1. k - Len(p) \in 1..Len(rest)
    BY <1>0, <1>3, <1>4, <1>5
  <2>2. rest[k - Len(p)] = n[Len(q) + (k - Len(p))]
    BY <1>3, <2>1
  <2>3. Len(q) + (k - Len(p)) = k - Len(p) + Len(q)
    BY <1>0, <2>1
  <2> QED BY <1>4, <1>5, <2>2, <2>3
<1>6. Len(from) = Len(p) + Len(n) - Len(q)
  BY <1>0, <1>3, <1>4
<1>7. \A k \in 1..Len(from) :
        from[k] = IF k <= Len(p) THEN p[k] ELSE n[k - Len(p) + Len(q)]
  BY <1>4, <1>5
<1>8. from \in Strings
  BY <1>4
<1> QED BY <1>6, <1>7, <1>8 DEF from, rest

(* What Move takes to the directory of n is the directory of what it takes *)
(* to n.                                                                   *)
LEMMA MovedParentIs ==
  ASSUME NEW p \in Names, NEW q \in Names, NEW n \in Names,
         IsPrefix(q, n), n # q,
         p \o SubSeq(n, Len(q) + 1, Len(n)) \in Names
  PROVE  /\ Parent(p \o SubSeq(n, Len(q) + 1, Len(n)))
              = p \o SubSeq(Parent(n), Len(q) + 1, Len(Parent(n)))
         /\ p \o SubSeq(Parent(n), Len(q) + 1, Len(Parent(n))) \in Names
<1> DEFINE from == p \o SubSeq(n, Len(q) + 1, Len(n))
           dir == p \o SubSeq(Parent(n), Len(q) + 1, Len(Parent(n)))
<1>0. /\ p \in Strings /\ q \in Strings /\ n \in Strings /\ Parent(n) \in Strings
      /\ Len(p) \in Nat \ {0} /\ Len(q) \in Nat /\ Len(n) \in Nat \ {0}
  BY NamesAreStrings
<1>1. IsPrefix(q, Parent(n)) /\ Len(Parent(n)) = Len(n) - 1
  BY <1>0, ParentIs
<1>2. /\ from \in Strings /\ Len(from) = Len(p) + Len(n) - Len(q)
      /\ \A k \in 1..Len(from) :
           from[k] = IF k <= Len(p) THEN p[k] ELSE n[k - Len(p) + Len(q)]
  BY <1>0, MovedNameIs
<1>3. /\ dir \in Strings /\ Len(dir) = Len(p) + (Len(n) - 1) - Len(q)
      /\ \A k \in 1..Len(dir) :
           dir[k] = IF k <= Len(p) THEN p[k] ELSE Parent(n)[k - Len(p) + Len(q)]
  <2> DEFINE m == Parent(n)
             d == p \o SubSeq(m, Len(q) + 1, Len(m))
  <2>0. m \in Strings /\ IsPrefix(q, m) /\ Len(m) = Len(n) - 1 /\ d = dir
    BY <1>0, <1>1
  <2> HIDE DEF m
  <2>1. /\ d \in Strings /\ Len(d) = Len(p) + Len(m) - Len(q)
        /\ \A k \in 1..Len(d) :
             d[k] = IF k <= Len(p) THEN p[k] ELSE m[k - Len(p) + Len(q)]
    BY <1>0, <2>0, MovedNameIs
  <2> HIDE DEF d, dir
  <2>2. Len(d) = Len(p) + (Len(n) - 1) - Len(q)
    BY <2>0, <2>1
  <2> QED BY <2>0, <2>1, <2>2 DEF m
<1>4. from \in Names
  OBVIOUS
<1> HIDE DEF from, dir
<1>5. Parent(from) \in Strings /\ Len(Parent(from)) = Len(from) - 1 /\ Parent(from) \in All
  BY <1>4, ParentIs, NamesAreStrings
<1>6. IsPrefix(Parent(from), from) /\ IsPrefix(Parent(n), n)
  BY <1>4, ParentIs
<1>7. \A k \in 1..Len(Parent(from)) : Parent(from)[k] = from[k]
  BY <1>2, <1>5, <1>6, PrefixIs
<1>8. \A k \in 1..Len(Parent(n)) : Parent(n)[k] = n[k]
  BY <1>0, <1>6, PrefixIs
<1>9. Len(q) <= Len(Parent(n))
  BY <1>0, <1>1, PrefixIs
<1>10. Len(Parent(from)) = Len(dir)
  BY <1>0, <1>2, <1>3, <1>5
<1>11. ASSUME NEW k \in 1..Len(dir) PROVE Parent(from)[k] = dir[k]
  <2>1. k \in 1..Len(from) /\ k \in 1..Len(Parent(from))
    BY <1>0, <1>1, <1>2, <1>3, <1>9, <1>10
  <2>2. CASE k <= Len(p)
    BY <1>2, <1>3, <1>7, <2>1, <2>2
  <2>3. CASE ~(k <= Len(p))
    <3>1. k - Len(p) + Len(q) \in 1..Len(Parent(n))
      BY <1>0, <1>1, <1>3, <1>9, <2>3
    <3> QED BY <1>2, <1>3, <1>7, <1>8, <2>1, <2>3, <3>1
  <2> QED BY <2>2, <2>3
<1>12. Parent(from) = dir
  BY <1>3, <1>5, <1>10, <1>11, SeqEqual DEF Strings
<1>13. Len(dir) # 0
  BY <1>0, <1>1, <1>3, <1>9
<1>14. dir \in Names
  BY <1>5, <1>12, <1>13, NamesAreStrings
<1> QED BY <1>12, <1>14 DEF from, dir

(* rename() leaves everything in a directory and what is not below one of  *)
(* the names as it was.                                                    *)
LEMMA MoveIs ==
  ASSUME NEW fs, FileSystem(fs), NEW p \in Names, NEW q \in Names,
         ~IsPrefix(p, q), ~IsPrefix(q, p), HasDir(fs, q)
  PROVE  /\ FileSystem(Move(fs, p, q))
         /\ \A n \in All : n \notin Below(p) \cup Below(q) => Move(fs, p, q)[n] = fs[n]
         /\ \A n \in Below(p) : Move(fs, p, q)[n] = "none"
         /\ Move(fs, p, q)[q] = fs[p]
<1> DEFINE gs == Move(fs, p, q)
           From(n) == p \o SubSeq(n, Len(q) + 1, Len(n))
           kind(n) == IF IsPrefix(p, n) THEN "none"
                      ELSE IF IsPrefix(q, n)
                        THEN IF From(n) \in Names THEN fs[From(n)] ELSE "none"
                        ELSE fs[n]
<1>0. p \in All /\ q \in All /\ p # Root /\ q # Root /\ Names \subseteq All
  BY NamesAreStrings
<1>1. gs = [n \in All |-> kind(n)]
  BY DEF Move
<1>2. ASSUME NEW n \in All PROVE kind(n) \in Kinds
  BY <1>0 DEF FileSystem, Kinds
<1> HIDE DEF gs, kind
<1>3. gs \in [All -> Kinds] /\ \A n \in All : gs[n] = kind(n)
  BY <1>1, <1>2
<1>4. ~IsPrefix(p, Root) /\ ~IsPrefix(q, Root) /\ Root \in All
  BY <1>0, UpToFacts, NamesAreStrings
<1>5. \A n \in All : n \notin Names => n = Root
  BY NamesAreStrings
<1>6. ASSUME NEW n \in All, n \notin Below(p) \cup Below(q) PROVE gs[n] = fs[n]
  <2>1. ~IsPrefix(p, n) /\ ~IsPrefix(q, n)
    BY <1>4, <1>5, <1>6 DEF Below
  <2> QED BY <1>3, <2>1 DEF kind
<1>7. ASSUME NEW n \in Below(p) PROVE gs[n] = "none"
  BY <1>0, <1>3, <1>7 DEF Below, kind
<1>8. gs[Root] = "dir"
  BY <1>3, <1>4 DEF kind, FileSystem
<1>9. ASSUME NEW n \in Names, gs[n] # "none" PROVE gs[Parent(n)] = "dir"
  <2>0. /\ n \in Strings /\ p \in Strings /\ q \in Strings /\ n \in All
        /\ Parent(n) \in All /\ Parent(n) \in Strings
    BY NamesAreStrings
  <2>1. ~IsPrefix(p, n)
    BY <1>3, <1>9, <2>0 DEF kind
  <2>2. \A a \in Strings : IsPrefix(a, n) <=> a = n \/ IsPrefix(a, Parent(n))
    BY ParentIs
  <2>3. ~IsPrefix(p, Parent(n))
    BY <2>0, <2>1, <2>2
  <2>4. CASE n = q
    <3>1. ~IsPrefix(q, Parent(n))
      <4>1. IsPrefix(Parent(q), q) /\ Parent(q) # q
        BY ParentIs
      <4> QED BY <2>0, <2>4, <4>1, PrefixIsAntisymmetric
    <3> QED BY <1>3, <2>0, <2>3, <2>4, <3>1 DEF kind, HasDir
  <2>5. CASE n # q /\ IsPrefix(q, n)
    <3>1. IsPrefix(q, Parent(n))
      BY <2>0, <2>2, <2>5
    <3>2. From(n) \in Names /\ fs[From(n)] # "none"
      BY <1>3, <1>9, <2>0, <2>1, <2>5 DEF kind
    <3>3. Parent(From(n)) = From(Parent(n)) /\ From(Parent(n)) \in Names
      BY <2>5, <3>2, MovedParentIs
    <3>4. fs[Parent(From(n))] = "dir"
      <4> DEFINE f == From(n)
      <4>1. f \in Names /\ fs[f] # "none"
        BY <3>2
      <4> HIDE DEF f
      <4>2. fs[Parent(f)] = "dir"
        BY <4>1 DEF FileSystem, HasDir
      <4> QED BY <4>2 DEF f
    <3>5. kind(Parent(n)) = fs[From(Parent(n))]
      BY <2>3, <3>1, <3>3 DEF kind
    <3> QED BY <1>3, <2>0, <3>3, <3>4, <3>5
  <2>6. CASE ~IsPrefix(q, n)
    <3>1. ~IsPrefix(q, Parent(n))
      BY <2>0, <2>2, <2>6
    <3>2. fs[n] # "none"
      BY <1>3, <1>9, <2>0, <2>1, <2>6 DEF kind
    <3>3. fs[Parent(n)] = "dir"
      BY <3>2 DEF FileSystem, HasDir
    <3> QED BY <1>3, <2>0, <2>3, <3>1, <3>3 DEF kind
  <2> QED BY <2>4, <2>5, <2>6
<1>10. gs[q] = fs[p]
  <2>0. p \in Strings /\ q \in Strings /\ Len(q) \in Nat /\ Len(p) \in Nat
    BY NamesAreStrings
  <2>1. IsPrefix(q, q)
    BY <2>0, PrefixIsReflexive
  <2> DEFINE f == From(q)
  <2>2. /\ f \in Strings /\ Len(f) = Len(p) + Len(q) - Len(q)
        /\ \A k \in 1..Len(f) : f[k] = IF k <= Len(p) THEN p[k] ELSE q[k - Len(p) + Len(q)]
    BY <2>0, <2>1, MovedNameIs
  <2> HIDE DEF f
  <2>3. Len(f) = Len(p) /\ \A k \in 1..Len(f) : f[k] = p[k]
    BY <2>0, <2>2
  <2>4. f = p
    BY <2>0, <2>2, <2>3, SeqEqual DEF Strings
  <2>5. kind(q) = fs[p]
    BY <2>1, <2>4 DEF kind, f
  <2> QED BY <1>0, <1>3, <2>5
<1>11. FileSystem(gs)
  BY <1>3, <1>8, <1>9 DEF FileSystem, HasDir
<1> QED BY <1>6, <1>7, <1>10, <1>11 DEF gs

----------------------------------------------------------------------------
(*                            The copier's list                            *)

Entries(list) == {list[k] : k \in 1..Len(list)}

LEMMA AppendedEntries ==
  ASSUME NEW list \in Seq(Items), NEW x \in Items
  PROVE  /\ Append(list, x) \in Seq(Items)
         /\ Len(list) \in Nat /\ Len(Append(list, x)) = Len(list) + 1
         /\ Entries(Append(list, x)) = Entries(list) \cup {x}
         /\ \A k \in 1..Len(list) : Append(list, x)[k] = list[k]
         /\ Append(list, x)[Len(list) + 1] = x
<1> DEFINE new == Append(list, x)
<1>1. /\ new \in Seq(Items) /\ Len(new) = Len(list) + 1
      /\ \A k \in 1..Len(list) : new[k] = list[k]
      /\ new[Len(list) + 1] = x
  BY AppendProperties
<1>2. Len(list) \in Nat
  BY LenProperties
<1> HIDE DEF new
<1>3. Entries(new) = Entries(list) \cup {x}
  BY <1>1, <1>2 DEF Entries
<1> QED BY <1>1, <1>2, <1>3 DEF new

LEMMA FirstEntry ==
  ASSUME NEW list \in Seq(Items), Len(list) # 0
  PROVE  /\ Len(list) \in Nat \ {0} /\ list # <<>>
         /\ Head(list) = list[1] /\ Head(list) \in Items
         /\ Tail(list) \in Seq(Items) /\ Len(Tail(list)) = Len(list) - 1
         /\ \A k \in 1..Len(Tail(list)) : Tail(list)[k] = list[k + 1]
         /\ Entries(list) = {Head(list)} \cup Entries(Tail(list))
<1>0. Len(list) \in Nat \ {0} /\ list # <<>> /\ list \in [1..Len(list) -> Items]
  BY LenProperties, EmptySeq
<1>1. /\ Tail(list) \in Seq(Items) /\ Len(Tail(list)) = Len(list) - 1
      /\ \A k \in 1..Len(Tail(list)) : Tail(list)[k] = list[k + 1]
  BY <1>0, HeadTailProperties
<1>2. Head(list) = list[1] /\ list[1] \in Items
  BY <1>0
<1> DEFINE rest == Tail(list)
<1> HIDE DEF rest
<1>3. Len(rest) = Len(list) - 1 /\ \A k \in 1..Len(rest) : rest[k] = list[k + 1]
  BY <1>1 DEF rest
<1>4. Entries(list) \subseteq {list[1]} \cup Entries(rest)
  <2> SUFFICES ASSUME NEW k \in 1..Len(list), k # 1 PROVE list[k] \in Entries(rest)
    BY DEF Entries
  <2>1. k - 1 \in 1..Len(rest) /\ rest[k - 1] = list[(k - 1) + 1] /\ (k - 1) + 1 = k
    BY <1>0, <1>3
  <2> QED BY <2>1 DEF Entries
<1>5. {list[1]} \cup Entries(rest) \subseteq Entries(list)
  <2> SUFFICES ASSUME NEW k \in 1..Len(rest) PROVE list[k + 1] \in Entries(list)
    BY <1>0, <1>3 DEF Entries
  <2>1. k + 1 \in 1..Len(list)
    BY <1>0, <1>3
  <2> QED BY <2>1 DEF Entries
<1> QED BY <1>0, <1>1, <1>2, <1>4, <1>5 DEF rest

LEMMA JoinedEntries ==
  ASSUME NEW list \in Seq(Items), NEW more \in Seq(Items)
  PROVE  /\ list \o more \in Seq(Items)
         /\ Len(list) \in Nat /\ Len(more) \in Nat
         /\ Len(list \o more) = Len(list) + Len(more)
         /\ \A k \in 1..Len(list \o more) : (list \o more)[k] =
              IF k <= Len(list) THEN list[k] ELSE more[k - Len(list)]
         /\ Entries(list \o more) = Entries(list) \cup Entries(more)
<1> DEFINE both == list \o more
<1>1. /\ both \in Seq(Items) /\ Len(both) = Len(list) + Len(more)
      /\ \A k \in 1..(Len(list) + Len(more)) :
           both[k] = IF k <= Len(list) THEN list[k] ELSE more[k - Len(list)]
  BY ConcatProperties
<1>2. Len(list) \in Nat /\ Len(more) \in Nat
  BY LenProperties
<1> HIDE DEF both
<1>3. Entries(both) \subseteq Entries(list) \cup Entries(more)
  <2> SUFFICES ASSUME NEW k \in 1..Len(both)
               PROVE  both[k] \in Entries(list) \cup Entries(more)
    BY DEF Entries
  <2>1. CASE k <= Len(list)
    BY <1>1, <1>2, <2>1 DEF Entries
  <2>2. CASE ~(k <= Len(list))
    <3>1. k - Len(list) \in 1..Len(more) /\ both[k] = more[k - Len(list)]
      BY <1>1, <1>2, <2>2
    <3> QED BY <3>1 DEF Entries
  <2> QED BY <2>1, <2>2
<1>4. Entries(list) \subseteq Entries(both)
  <2> SUFFICES ASSUME NEW k \in 1..Len(list) PROVE list[k] \in Entries(both)
    BY DEF Entries
  <2>1. k \in 1..Len(both) /\ both[k] = list[k]
    BY <1>1, <1>2
  <2> QED BY <2>1 DEF Entries
<1>5. Entries(more) \subseteq Entries(both)
  <2> SUFFICES ASSUME NEW k \in 1..Len(more) PROVE more[k] \in Entries(both)
    BY DEF Entries
  <2>1. Len(list) + k \in 1..Len(both) /\ (Len(list) + k) - Len(list) = k
        /\ ~(Len(list) + k <= Len(list))
    BY <1>1, <1>2
  <2>2. both[Len(list) + k] = more[k]
    BY <1>1, <2>1
  <2> QED BY <2>1, <2>2 DEF Entries
<1> QED BY <1>1, <1>2, <1>3, <1>4, <1>5 DEF both

(* The entries of a directory, in any order, are each of them once. *)
LEMMA OrdersOf ==
  ASSUME NEW S \in SUBSET Names, NEW s \in SetToSeqs(S)
  PROVE  /\ s \in Seq(Items) /\ Entries(s) = S
         /\ \A j, k \in 1..Len(s) : j # k => s[j] # s[k]
<1>0. IsFiniteSet(S) /\ Cardinality(S) \in Nat
  BY FS_Subset, FS_CardinalityType, CopierTreeAssumption
<1> DEFINE D == 1..Cardinality(S)
<1>1. s \in [D -> S] /\ \A j, k \in D : j # k => s[j] # s[k]
  BY DEF SetToSeqs
<1>2. s \in Seq(S) /\ Len(s) = Cardinality(S)
  BY <1>0, <1>1
<1>3. S \subseteq Items
  BY NamesAreStrings DEF Items
<1>4. s \in Seq(Items)
  BY <1>2, <1>3
<1>5. IsFiniteSet(D) /\ Cardinality(D) = Cardinality(S)
  BY <1>0, FS_Interval
<1>6. s \in Injection(D, S)
  <2> HIDE DEF D
  <2> QED BY <1>1 DEF Injection, IsInjective
<1>7. s \in Surjection(D, S)
  <2> HIDE DEF D
  <2> QED BY <1>0, <1>5, <1>6, FS_Injection
<1>8. \A x \in S : \E k \in D : s[k] = x
  <2> HIDE DEF D
  <2> QED BY <1>7 DEF Surjection
<1>9. Entries(s) = S
  BY <1>1, <1>2, <1>8 DEF Entries
<1> QED BY <1>1, <1>2, <1>4, <1>9

----------------------------------------------------------------------------
(*                      The two trees of each pair                         *)

(* In both trees everything is in a directory; only the backup has         *)
(* unfinished files.                                                       *)
SourcesInv ==
    /\ tree \in [Pairs -> [All -> {"none", "file", "dir"}]]
    /\ \A i \in Pairs : FileSystem(tree[i])

BackupsInv ==
    /\ backup \in [Pairs -> [All -> Kinds]]
    /\ \A i \in Pairs : FileSystem(backup[i])

(* Only these names of one source, or of its backup, change. *)
TreeChangesAt(i, S) ==
    \A j \in Pairs, n \in All : (j = i /\ n \in S) \/ tree'[j][n] = tree[j][n]

BackupChangesAt(i, S) ==
    \A j \in Pairs, n \in All :
      (j = i /\ n \in S) \/ backup'[j][n] = backup[j][n]

LEMMA OneSourceChanges ==
  ASSUME SourcesInv, NEW i \in Pairs, NEW fs, FileSystem(fs),
         \A n \in All : fs[n] # "part",
         tree' = [tree EXCEPT ![i] = fs]
  PROVE  SourcesInv' /\ tree'[i] = fs /\ \A j \in Pairs : j # i => tree'[j] = tree[j]
<1>1. fs \in [All -> {"none", "file", "dir"}]
  BY DEF FileSystem, Kinds
<1>2. tree'[i] = fs /\ \A j \in Pairs : j # i => tree'[j] = tree[j]
  BY DEF SourcesInv
<1>3. tree' \in [Pairs -> [All -> {"none", "file", "dir"}]]
  BY <1>1 DEF SourcesInv
<1>4. \A j \in Pairs : FileSystem(tree'[j])
  BY <1>2 DEF SourcesInv
<1>5. (\A j \in Pairs : FileSystem(tree[j]))' <=> \A j \in Pairs : FileSystem(tree'[j])
  BY DEF FileSystem, HasDir
<1> QED BY <1>2, <1>3, <1>4, <1>5 DEF SourcesInv

LEMMA OneBackupChanges ==
  ASSUME BackupsInv, NEW i \in Pairs, NEW fs, FileSystem(fs),
         backup' = [backup EXCEPT ![i] = fs]
  PROVE  BackupsInv' /\ backup'[i] = fs /\ \A j \in Pairs : j # i => backup'[j] = backup[j]
<1>1. fs \in [All -> Kinds]
  BY DEF FileSystem
<1>2. backup'[i] = fs /\ \A j \in Pairs : j # i => backup'[j] = backup[j]
  BY DEF BackupsInv
<1>3. backup' \in [Pairs -> [All -> Kinds]]
  BY <1>1 DEF BackupsInv
<1>4. \A j \in Pairs : FileSystem(backup'[j])
  BY <1>2 DEF BackupsInv
<1>5. (\A j \in Pairs : FileSystem(backup[j]))' <=> \A j \in Pairs : FileSystem(backup'[j])
  BY DEF FileSystem, HasDir
<1> QED BY <1>2, <1>3, <1>4, <1>5 DEF BackupsInv

LEMMA SourcesStay == ASSUME SourcesInv, UNCHANGED tree PROVE SourcesInv'
  BY DEF SourcesInv, FileSystem, HasDir

LEMMA BackupsStay == ASSUME BackupsInv, UNCHANGED backup PROVE BackupsInv'
  BY DEF BackupsInv, FileSystem, HasDir

LEMMA OpenIs ==
  ASSUME SourcesInv, NEW t \in Threads, NEW i \in Pairs, NEW p \in Names,
         Open(t, i, p)
  PROVE  /\ SourcesInv' /\ TreeChangesAt(i, {p})
         /\ tree[i][p] \in {"none", "file"} /\ tree'[i][p] = "file"
<1> DEFINE fs == Create(tree[i], p, "file")
<1>1. /\ FileSystem(tree[i]) /\ HasDir(tree[i], p) /\ p \in All
      /\ tree[i][p] \in {"none", "file"} /\ \A n \in All : tree[i][n] # "part"
  BY NamesAreStrings DEF Open, SourcesInv
<1>2. /\ FileSystem(fs) /\ fs[p] = "file"
      /\ \A n \in All : n # p => fs[n] = tree[i][n]
  BY <1>1, CreateIs DEF Kinds
<1>3. tree' = [tree EXCEPT ![i] = fs]
  BY DEF Open, SourcesInv
<1> HIDE DEF fs
<1>4. \A n \in All : fs[n] # "part"
  BY <1>1, <1>2
<1>5. SourcesInv' /\ tree'[i] = fs /\ \A j \in Pairs : j # i => tree'[j] = tree[j]
  BY <1>2, <1>3, <1>4, OneSourceChanges
<1> QED BY <1>1, <1>2, <1>5 DEF TreeChangesAt

LEMMA MkdirIs ==
  ASSUME SourcesInv, NEW t \in Threads, NEW i \in Pairs, NEW p \in Names,
         Mkdir(t, i, p)
  PROVE  /\ SourcesInv' /\ TreeChangesAt(i, {p})
         /\ tree[i][p] = "none" /\ tree'[i][p] = "dir"
<1> DEFINE now == tree[i]
           fs == [now EXCEPT ![p] = "dir"]
<1>1. /\ FileSystem(tree[i]) /\ HasDir(tree[i], p) /\ p \in All
      /\ tree[i][p] = "none" /\ \A n \in All : tree[i][n] # "part"
  BY NamesAreStrings DEF Mkdir, SourcesInv
<1>2. /\ FileSystem(fs) /\ fs[p] = "dir"
      /\ \A n \in All : n # p => fs[n] = now[n]
  <2>1. FileSystem(now) /\ HasDir(now, p)
    BY <1>1
  <2> HIDE DEF now
  <2> QED BY <2>1, PutIs DEF Kinds
<1>3. tree' = [tree EXCEPT ![i] = fs]
  BY DEF Mkdir, SourcesInv
<1> HIDE DEF fs
<1>4. \A n \in All : fs[n] # "part"
  BY <1>1, <1>2
<1>5. SourcesInv' /\ tree'[i] = fs /\ \A j \in Pairs : j # i => tree'[j] = tree[j]
  BY <1>2, <1>3, <1>4, OneSourceChanges
<1> QED BY <1>1, <1>2, <1>5 DEF TreeChangesAt

LEMMA RmdirIs ==
  ASSUME SourcesInv, NEW t \in Threads, NEW i \in Pairs, NEW p \in Names,
         Rmdir(t, i, p)
  PROVE  /\ SourcesInv' /\ TreeChangesAt(i, {p})
         /\ tree[i][p] = "dir" /\ tree'[i][p] = "none"
<1> DEFINE now == tree[i]
           fs == [now EXCEPT ![p] = "none"]
<1>1. /\ FileSystem(tree[i]) /\ p \in All
      /\ tree[i][p] = "dir" /\ \A n \in All : tree[i][n] # "part"
      /\ \A n \in Children(p) : tree[i][n] = "none"
  BY NamesAreStrings DEF Rmdir, SourcesInv
<1>2. /\ FileSystem(fs) /\ fs[p] = "none"
      /\ \A n \in All : n # p => fs[n] = now[n]
  <2>1. FileSystem(now) /\ \A n \in Children(p) : now[n] = "none"
    BY <1>1
  <2> HIDE DEF now
  <2> QED BY <2>1, PutIs DEF Kinds
<1>3. tree' = [tree EXCEPT ![i] = fs]
  BY DEF Rmdir, SourcesInv
<1> HIDE DEF fs
<1>4. \A n \in All : fs[n] # "part"
  BY <1>1, <1>2
<1>5. SourcesInv' /\ tree'[i] = fs /\ \A j \in Pairs : j # i => tree'[j] = tree[j]
  BY <1>2, <1>3, <1>4, OneSourceChanges
<1> QED BY <1>1, <1>2, <1>5 DEF TreeChangesAt

LEMMA UnlinkIs ==
  ASSUME SourcesInv, NEW t \in Threads, NEW i \in Pairs, NEW p \in Names,
         Unlink(t, i, p)
  PROVE  /\ SourcesInv' /\ TreeChangesAt(i, {p})
         /\ tree[i][p] = "file" /\ tree'[i][p] = "none"
<1> DEFINE now == tree[i]
           fs == [now EXCEPT ![p] = "none"]
<1>1. /\ FileSystem(tree[i]) /\ p \in All
      /\ tree[i][p] = "file" /\ \A n \in All : tree[i][n] # "part"
  BY NamesAreStrings DEF Unlink, SourcesInv
<1>3. /\ FileSystem(fs) /\ fs[p] = "none"
      /\ \A n \in All : n # p => fs[n] = now[n]
  <2>1. FileSystem(now) /\ now[p] # "dir"
    BY <1>1
  <2> HIDE DEF now
  <2> QED BY <2>1, ClearIs
<1>4. tree' = [tree EXCEPT ![i] = fs]
  BY DEF Unlink, SourcesInv
<1> HIDE DEF fs
<1>5. \A n \in All : fs[n] # "part"
  BY <1>1, <1>3
<1>6. SourcesInv' /\ tree'[i] = fs /\ \A j \in Pairs : j # i => tree'[j] = tree[j]
  BY <1>3, <1>4, <1>5, OneSourceChanges
<1> QED BY <1>1, <1>3, <1>6 DEF TreeChangesAt

LEMMA RenameIs ==
  ASSUME SourcesInv, NEW t \in Threads, NEW i \in Pairs,
         NEW p \in Names, NEW q \in Names, Rename(t, i, p, q)
  PROVE  /\ SourcesInv' /\ TreeChangesAt(i, Below(p) \cup Below(q))
         /\ ~IsPrefix(p, q) /\ ~IsPrefix(q, p)
<1> DEFINE fs == Move(tree[i], p, q)
<1>1. /\ FileSystem(tree[i]) /\ HasDir(tree[i], q)
      /\ ~IsPrefix(p, q) /\ ~IsPrefix(q, p)
      /\ \A n \in All : tree[i][n] # "part"
  BY DEF Rename, SourcesInv
<1>2. /\ FileSystem(fs)
      /\ \A n \in All : n \notin Below(p) \cup Below(q) => fs[n] = tree[i][n]
  BY <1>1, MoveIs
<1>3. \A n \in All : fs[n] # "part"
  <2>1. \A n \in Names : tree[i][n] # "part"
    BY <1>1, NamesAreStrings
  <2> QED BY <1>1, <2>1 DEF Move
<1>4. tree' = [tree EXCEPT ![i] = fs]
  BY DEF Rename, SourcesInv
<1> HIDE DEF fs
<1>5. SourcesInv' /\ tree'[i] = fs /\ \A j \in Pairs : j # i => tree'[j] = tree[j]
  BY <1>2, <1>3, <1>4, OneSourceChanges
<1> QED BY <1>1, <1>2, <1>5 DEF TreeChangesAt

(* What a pending call is about. *)
CallsAreTyped == call \in [Threads -> CallRecords]

LEMMA PendingCalls ==
  ASSUME CallsAreTyped, NEW t \in Threads
  PROVE  /\ call[t] = Idle \/ call[t].op \in {"open", "mkdir", "unlink", "rename"}
         /\ call[t] = Idle => call[t].op \notin {"open", "mkdir", "unlink", "rename"}
         /\ InCall(t, "open") => /\ call[t].at \in Pairs /\ call[t].name \in Names
                                 /\ call[t].fresh \in BOOLEAN
         /\ InCall(t, "mkdir") => call[t].at \in Pairs /\ call[t].name \in Names
         /\ InCall(t, "unlink") => call[t].at \in Pairs /\ call[t].name \in Names
         /\ InCall(t, "rename") => /\ call[t].at \in Pairs /\ call[t].name \in Names
                                   /\ call[t].new \in Names
<1>1. call[t] \in CallRecords
  BY DEF CallsAreTyped
<1>2. Idle.op = "none"
  BY DEF Idle
<1>3. CASE call[t] = Idle
  BY <1>2, <1>3 DEF InCall
<1>4. CASE call[t] \in [op : {"open"}, at : Pairs, name : Names, fresh : BOOLEAN]
  <2>1. call[t].op = "open"
    BY <1>4
  <2> QED BY <1>2, <1>4, <2>1 DEF InCall
<1>5. CASE call[t] \in [op : {"mkdir", "unlink"}, at : Pairs, name : Names]
  <2>1. call[t].op \in {"mkdir", "unlink"} /\ call[t].at \in Pairs /\ call[t].name \in Names
    BY <1>5
  <2> QED BY <1>2, <2>1 DEF InCall
<1>6. CASE call[t] \in [op : {"rename"}, at : Pairs, name : Names, new : Names]
  <2>1. call[t].op = "rename"
    BY <1>6
  <2> QED BY <1>2, <1>6, <2>1 DEF InCall
<1> QED BY <1>1, <1>3, <1>4, <1>5, <1>6 DEF CallRecords

LEMMA OpenCaptureIs ==
  ASSUME BackupsInv, CallsAreTyped, NEW t \in Threads, OpenCapture(t),
         NEW i, i = call[t].at, NEW p, p = call[t].name,
         NEW kind, kind = IF call[t].fresh THEN "file" ELSE "part"
  PROVE  /\ BackupsInv'
         /\ ~InSession => UNCHANGED backup
         /\ \A j \in Pairs, n \in All :
              \/ backup'[j][n] = backup[j][n]
              \/ /\ j = i /\ n = p /\ p \notin ExcludedInBackup
                 /\ backup[i][p] = "none" /\ backup'[i][p] = kind
              \/ /\ j = i /\ n \in Ancestors(p) /\ p \notin ExcludedInBackup
                 /\ backup[i][n] = "none" /\ backup'[i][n] = "dir"
         /\ InSession /\ p \notin ExcludedInBackup /\ ~failed'
              /\ ~PathIsBlocked(backup[i], p)
              => /\ backup'[i][p] \in {"file", "part"}
                 /\ backup[i][p] = "none" => backup'[i][p] = kind
<1>0. /\ i \in Pairs /\ p \in Names /\ p \in All /\ p \notin Ancestors(p)
      /\ kind \in Kinds \ {"none"} /\ FileSystem(backup[i])
  <2>1. InCall(t, "open")
    BY DEF OpenCapture
  <2> QED BY <2>1, PendingCalls, NamesAreStrings, UpToFacts DEF BackupsInv, Kinds
<1>1. CASE ~InSession \/ p \in ExcludedInBackup \/ PathIsBlocked(backup[i], p)
  <2>1. UNCHANGED backup
    BY <1>1 DEF OpenCapture, file_is_excluded
  <2> QED BY <1>1, <2>1, BackupsStay
<1>2. CASE InSession /\ p \notin ExcludedInBackup /\ ~PathIsBlocked(backup[i], p)
  <2> DEFINE old == backup[i]
             made == open_path(old, p)
             new == IF CanCreate(made, p) THEN Create(made, p, kind) ELSE made
  <2>1. /\ backup' = [backup EXCEPT ![i] = new]
        /\ failed' = (failed \/ ~CanCreate(made, p))
    BY <1>2 DEF OpenCapture, file_is_excluded
  <2>2. FileSystem(old) /\ ~PathIsBlocked(old, p)
    BY <1>0, <1>2
  <2> HIDE DEF old
  <2>3. /\ FileSystem(made) /\ HasDir(made, p)
        /\ \A n \in All : made[n] = old[n] \/
             (n \in Ancestors(p) /\ old[n] = "none" /\ made[n] = "dir")
    BY <1>0, <2>2, OpenPathIs
  <2> HIDE DEF made
  <2>4. CASE CanCreate(made, p)
    <3>1. /\ FileSystem(new)
          /\ new[p] = IF made[p] = "none" THEN kind ELSE made[p]
          /\ \A n \in All : n # p => new[n] = made[n]
      BY <1>0, <2>3, <2>4, CreateIs
    <3> HIDE DEF new
    <3>2. BackupsInv' /\ backup'[i] = new /\ \A j \in Pairs : j # i => backup'[j] = backup[j]
      BY <1>0, <2>1, <3>1, OneBackupChanges
    <3>3. made[p] = old[p]
      BY <1>0, <2>3
    <3>4. \A n \in All :
              \/ new[n] = old[n]
              \/ n = p /\ old[p] = "none" /\ new[p] = kind
              \/ n \in Ancestors(p) /\ old[n] = "none" /\ new[n] = "dir"
      BY <2>3, <3>1, <3>3
    <3>5. new[p] \in {"file", "part"} /\ (old[p] = "none" => new[p] = kind)
      <4>1. made[p] \in Kinds /\ made[p] # "dir"
        BY <1>0, <2>3, <2>4 DEF CanCreate, FileSystem
      <4>2. kind \in {"file", "part"}
        OBVIOUS
      <4> QED BY <3>1, <3>3, <4>1, <4>2 DEF Kinds
    <3> QED BY <1>2, <3>2, <3>4, <3>5 DEF old
  <2>5. CASE ~CanCreate(made, p)
    <3>1. new = made /\ FileSystem(new) /\ backup' = [backup EXCEPT ![i] = new]
      BY <2>1, <2>3, <2>5
    <3> HIDE DEF new
    <3>2. BackupsInv' /\ backup'[i] = new /\ \A j \in Pairs : j # i => backup'[j] = backup[j]
      BY <1>0, <3>1, OneBackupChanges
    <3>3. \A n \in All : new[n] = old[n] \/
             (n \in Ancestors(p) /\ old[n] = "none" /\ new[n] = "dir")
      BY <2>3, <3>1
    <3>4. failed' = TRUE
      BY <2>1, <2>5
    <3> QED BY <1>2, <3>2, <3>3, <3>4 DEF old
  <2> QED BY <2>4, <2>5
<1> QED BY <1>1, <1>2

LEMMA MkdirCaptureIs ==
  ASSUME BackupsInv, CallsAreTyped, NEW t \in Threads, MkdirCapture(t),
         NEW i, i = call[t].at, NEW p, p = call[t].name
  PROVE  /\ BackupsInv'
         /\ ~InSession => UNCHANGED backup
         /\ \A j \in Pairs, n \in All :
              \/ backup'[j][n] = backup[j][n]
              \/ /\ j = i /\ n \in Ancestors(p)
                 /\ backup[i][n] = "none" /\ backup'[i][n] = "dir"
<1>0. /\ i \in Pairs /\ p \in Names /\ FileSystem(backup[i])
  <2>1. InCall(t, "mkdir")
    BY DEF MkdirCapture
  <2> QED BY <2>1, PendingCalls DEF BackupsInv
<1>1. CASE UNCHANGED backup
  BY <1>1, BackupsStay
<1>2. CASE ~UNCHANGED backup
  <2> DEFINE old == backup[i]
             made == open_path(old, p)
  <2>1. InSession /\ backup' = [backup EXCEPT ![i] = made] /\ ~PathIsBlocked(old, p)
    BY <1>2 DEF MkdirCapture
  <2>2. FileSystem(old)
    BY <1>0
  <2> HIDE DEF old
  <2>3. /\ FileSystem(made)
        /\ \A n \in All : made[n] = old[n] \/
             (n \in Ancestors(p) /\ old[n] = "none" /\ made[n] = "dir")
    BY <1>0, <2>1, <2>2, OpenPathIs
  <2> HIDE DEF made
  <2>4. BackupsInv' /\ backup'[i] = made /\ \A j \in Pairs : j # i => backup'[j] = backup[j]
    BY <1>0, <2>1, <2>3, OneBackupChanges
  <2> QED BY <2>1, <2>3, <2>4 DEF old
<1> QED BY <1>1, <1>2

LEMMA UnlinkCaptureIs ==
  ASSUME BackupsInv, CallsAreTyped, NEW t \in Threads, UnlinkCapture(t),
         NEW i, i = call[t].at, NEW p, p = call[t].name
  PROVE  /\ BackupsInv'
         /\ ~InSession => UNCHANGED backup
         /\ \A j \in Pairs, n \in All :
              \/ backup'[j][n] = backup[j][n]
              \/ j = i /\ n = p /\ backup[i][p] # "dir" /\ backup'[i][p] = "none"
         /\ InSession /\ ~failed /\ p \notin Excluded
              => backup'[i][p] \notin {"file", "part"}
<1>0. /\ i \in Pairs /\ p \in Names /\ p \in All /\ FileSystem(backup[i])
  <2>1. InCall(t, "unlink")
    BY DEF UnlinkCapture
  <2> QED BY <2>1, PendingCalls, NamesAreStrings DEF BackupsInv
<1>1. CASE ~(InSession /\ ~failed /\ p \notin Excluded /\ CanCreate(backup[i], p))
  <2>1. UNCHANGED backup
    BY <1>1 DEF UnlinkCapture
  <2>2. InSession /\ ~failed /\ p \notin Excluded => backup[i][p] \in {"none", "dir"}
    BY <1>0, <1>1 DEF CanCreate, FileSystem
  <2>3. InSession /\ ~failed /\ p \notin Excluded => backup'[i][p] \notin {"file", "part"}
    BY <2>1, <2>2
  <2> QED BY <1>1, <2>1, <2>3, BackupsStay
<1>2. CASE InSession /\ ~failed /\ p \notin Excluded /\ CanCreate(backup[i], p)
  <2> DEFINE old == backup[i]
             new == [old EXCEPT ![p] = "none"]
  <2>1. backup' = [backup EXCEPT ![i] = new] /\ old[p] # "dir"
    BY <1>0, <1>2 DEF UnlinkCapture, CanCreate, BackupsInv
  <2>2. FileSystem(old)
    BY <1>0
  <2> HIDE DEF old
  <2>4. /\ FileSystem(new) /\ new[p] = "none"
        /\ \A n \in All : n # p => new[n] = old[n]
    BY <1>0, <2>1, <2>2, ClearIs
  <2> HIDE DEF new
  <2>5. BackupsInv' /\ backup'[i] = new /\ \A j \in Pairs : j # i => backup'[j] = backup[j]
    BY <1>0, <2>1, <2>4, OneBackupChanges
  <2> QED BY <1>2, <2>1, <2>4, <2>5 DEF old
<1> QED BY <1>1, <1>2

LEMMA RenameCaptureIs ==
  ASSUME BackupsInv, CallsAreTyped, NEW t \in Threads, RenameCapture(t),
         NEW i, i = call[t].at, NEW p, p = call[t].name,
         NEW q, q = call[t].new, ~IsPrefix(p, q), ~IsPrefix(q, p)
  PROVE  /\ BackupsInv'
         /\ ~InSession => UNCHANGED <<backup, todo>>
         /\ BackupChangesAt(i, Below(p) \cup Below(q))
<1>0. /\ i \in Pairs /\ p \in Names /\ q \in Names /\ p \in All
      /\ FileSystem(backup[i]) /\ p \in Below(p)
  <2>1. InCall(t, "rename")
    BY DEF RenameCapture
  <2>2. i \in Pairs /\ p \in Names /\ q \in Names
    BY <2>1, PendingCalls
  <2>3. p \in Strings
    BY <2>2, NamesAreStrings
  <2> QED BY <2>2, <2>3, NamesAreStrings, PrefixIsReflexive DEF BackupsInv, Below
<1> DEFINE old == backup[i]
           made == Create(old, p, "part")
<1>1. CASE ~InSession \/ tree[i][q] = "none" \/ ~CanCreate(old, p)
  <2>1. UNCHANGED <<backup, todo>>
    BY <1>1 DEF RenameCapture
  <2> QED BY <1>1, <2>1, BackupsStay DEF BackupChangesAt
<1>2. CASE InSession /\ CanCreate(old, p)
  <2>1. \/ UNCHANGED backup
        \/ CanCreate(made, q) /\ backup' = [backup EXCEPT ![i] = Move(made, p, q)]
        \/ backup' = [backup EXCEPT ![i] = made]
    BY DEF RenameCapture
  <2>2. FileSystem(old) /\ CanCreate(old, p)
    BY <1>0, <1>2
  <2> HIDE DEF old
  <2>3. /\ FileSystem(made)
        /\ \A n \in All : n # p => made[n] = old[n]
    BY <1>0, <2>2, CreateIs DEF CanCreate, Kinds
  <2> HIDE DEF made
  <2>4. CASE UNCHANGED backup
    BY <1>2, <2>4, BackupsStay DEF BackupChangesAt
  <2>5. CASE backup' = [backup EXCEPT ![i] = made]
    <3>1. BackupsInv' /\ backup'[i] = made /\ \A j \in Pairs : j # i => backup'[j] = backup[j]
      BY <1>0, <2>3, <2>5, OneBackupChanges
    <3> QED BY <1>0, <1>2, <2>3, <3>1 DEF BackupChangesAt, old
  <2>6. CASE CanCreate(made, q) /\ backup' = [backup EXCEPT ![i] = Move(made, p, q)]
    <3> DEFINE new == Move(made, p, q)
    <3>1. HasDir(made, q)
      BY <2>6 DEF CanCreate
    <3>2. /\ FileSystem(new)
          /\ \A n \in All : n \notin Below(p) \cup Below(q) => new[n] = made[n]
      BY <1>0, <2>3, <3>1, MoveIs
    <3>3. backup' = [backup EXCEPT ![i] = new]
      BY <2>6
    <3> HIDE DEF new
    <3>4. BackupsInv' /\ backup'[i] = new /\ \A j \in Pairs : j # i => backup'[j] = backup[j]
      BY <1>0, <3>2, <3>3, OneBackupChanges
    <3> QED BY <1>0, <1>2, <2>3, <3>2, <3>4 DEF BackupChangesAt, old
  <2> QED BY <2>1, <2>4, <2>5, <2>6
<1> QED BY <1>1, <1>2

LEMMA CopyFileIs ==
  ASSUME SourcesInv, BackupsInv, index \in Pairs, entry \in All, CopyFile
  PROVE  /\ BackupsInv'
         /\ \A j \in Pairs, n \in All :
              \/ backup'[j][n] = backup[j][n]
              \/ /\ j = index /\ n = entry /\ n \in Names
                 /\ HasDir(backup[j], n)
                 /\ tree[j][n] # "none" /\ backup[j][n] # "dir"
                 /\ backup'[j][n] \in {"file", "part"}
         /\ tree[index][entry] = "dir" => rc' = "error"
         /\ tree[index][entry] = "file" =>
              rc' = "error" \/ backup'[index][entry] = "file"
<1> DEFINE now == tree[index][entry]
           old == backup[index]
           able == CanCreate(old, entry)
           kind == IF now = "file" THEN "file"
                   ELSE IF old[entry] = "none" THEN "part" ELSE old[entry]
           new == [old EXCEPT ![entry] = kind]
<1>0. /\ FileSystem(old) /\ now \in {"none", "file", "dir"}
      /\ now = "dir" => rc' = "error"
      /\ now = "file" => rc' = "error" \/ able
  BY DEF SourcesInv, BackupsInv, CopyFile
<1>1. CASE ~(now # "none" /\ able)
  <2>1. UNCHANGED backup
    BY <1>1 DEF CopyFile
  <2> QED BY <1>0, <1>1, <2>1, BackupsStay
<1>2. CASE now # "none" /\ able
  <2>1. backup' = [backup EXCEPT ![index] = new]
    BY <1>2 DEF CopyFile, BackupsInv
  <2>2. now # "none" /\ HasDir(old, entry) /\ old[entry] # "dir" /\ old[entry] \in Kinds
    BY <1>0, <1>2 DEF CanCreate, FileSystem
  <2>3. entry \in Names
    BY <1>0, <2>2, NamesAreStrings DEF FileSystem
  <2>4. kind \in {"file", "part"} /\ kind \in Kinds /\ (now = "file" => kind = "file")
    BY <2>2 DEF Kinds
  <2>5. \A n \in Children(entry) : old[n] = "none"
    BY <1>0, <2>2, <2>3, NoEntries
  <2>6. FileSystem(old)
    BY <1>0
  <2> HIDE DEF now, able, kind
  <2>7. new[entry] = kind /\ \A n \in All : n # entry => new[n] = old[n]
    BY <2>3, <2>6, NamesAreStrings DEF FileSystem
  <2>8. FileSystem(new)
    <3> HIDE DEF old
    <3> QED BY <2>2, <2>3, <2>4, <2>5, <2>6, PutIs
  <2> HIDE DEF new
  <2>9. BackupsInv' /\ backup'[index] = new /\ \A j \in Pairs : j # index => backup'[j] = backup[j]
    BY <2>1, <2>8, OneBackupChanges
  <2>10. /\ HasDir(backup[index], entry) /\ backup[index][entry] # "dir"
         /\ tree[index][entry] # "none"
    BY <2>2 DEF now
  <2>11. backup'[index][entry] = kind
    BY <2>7, <2>9
  <2>12. \A n \in All : n # entry => backup'[index][n] = backup[index][n]
    BY <2>7, <2>9
  <2>13. tree[index][entry] = "file" => backup'[index][entry] = "file"
    BY <2>4, <2>11 DEF now
  <2>14. tree[index][entry] = "dir" => rc' = "error"
    BY <1>0 DEF now
  <2> QED BY <2>3, <2>4, <2>9, <2>10, <2>11, <2>12, <2>13, <2>14
<1> QED BY <1>1, <1>2

LEMMA MakeDirIs ==
  ASSUME BackupsInv, index \in Pairs, entry \in All, MakeDir
  PROVE  /\ BackupsInv'
         /\ \A j \in Pairs, n \in All :
              \/ backup'[j][n] = backup[j][n]
              \/ /\ j = index /\ n = entry /\ n \in Names
                 /\ backup[j][n] = "none" /\ backup'[j][n] = "dir"
         /\ rc' = "error" \/ (rc' = rc /\ backup'[index][entry] # "none")
<1> DEFINE old == backup[index]
           new == Create(old, entry, "dir")
           able == entry = Root \/ HasDir(old, entry)
<1>0. /\ FileSystem(old) /\ old[Root] = "dir"
      /\ rc' = IF able THEN rc ELSE "error"
  BY DEF BackupsInv, FileSystem, MakeDir
<1>1. CASE entry = Root \/ ~HasDir(old, entry)
  <2>1. backup' = backup
    <3>1. entry = Root => backup' = backup
      BY DEF MakeDir
    <3>2. entry # Root => backup' = [backup EXCEPT ![index] = old]
      BY <1>1 DEF MakeDir, mkdir
    <3> QED BY <3>1, <3>2 DEF BackupsInv
  <2> QED BY <1>0, <1>1, <2>1, BackupsStay
<1>2. CASE entry # Root /\ HasDir(old, entry)
  <2>1. backup' = [backup EXCEPT ![index] = new]
    BY <1>2 DEF MakeDir, mkdir
  <2>2. FileSystem(old) /\ HasDir(old, entry) /\ entry \in Names
    BY <1>0, <1>2, NamesAreStrings
  <2>3. rc' = rc
    BY <1>0, <1>2
  <2>4. "dir" \in Kinds \ {"none"}
    BY DEF Kinds
  <2> HIDE DEF old
  <2>5. /\ FileSystem(new)
        /\ new[entry] = IF old[entry] = "none" THEN "dir" ELSE old[entry]
        /\ \A n \in All : n # entry => new[n] = old[n]
    BY <2>2, <2>4, CreateIs
  <2> HIDE DEF new
  <2>6. BackupsInv' /\ backup'[index] = new /\ \A j \in Pairs : j # index => backup'[j] = backup[j]
    BY <2>1, <2>5, OneBackupChanges
  <2>7. new[entry] # "none"
    BY <2>5
  <2> QED BY <2>2, <2>3, <2>5, <2>6, <2>7 DEF old
<1> QED BY <1>1, <1>2

----------------------------------------------------------------------------
(*                 Types, the copier's place, pending calls                *)

Stages == {"none", "start", "loop", "entry", "file", "opendir", "mkdir",
           "list", "next", "cleanup", "stop", "closed", "crashed"}

CopierTypes ==
    /\ pc \in Stages /\ index \in Pairs
    /\ todo \in Seq(Items) /\ entry \in Items
    /\ listed = NoDir \/ listed \subseteq Names
    /\ known \in Nat /\ total \in Nat /\ done \in Nat
    /\ rc \in {"ok", "aborted", "error"} /\ failed \in BOOLEAN

OtherTypes ==
    /\ CallsAreTyped /\ callsLeft \in 0..MaxCalls
    /\ touched \subseteq Pairs \X Names
    /\ removed \in BOOLEAN /\ grown \in BOOLEAN

(* What the copier looks at, and what an open DIR has. *)
VisitInv ==
    /\ pc = "entry" => entry # Null
    /\ pc \in {"file", "opendir", "mkdir", "list"} => entry \in All \ Excluded
    /\ pc \in {"mkdir", "list"} => \/ listed \subseteq Children(entry)
                                   \/ pc = "mkdir" /\ listed = NoDir

(* What the copier does not know of its list is what renames have added.   *)
ListInv ==
    /\ pc \in {"loop", "entry"} => known <= Len(todo) + 1
    /\ pc = "loop" => /\ known <= Len(todo)
                      /\ \A k \in 1..Len(todo) : k > known => todo[k] = Foreign

(* One file operation at a time; what a pending call has done already.     *)
CallInv ==
    /\ \A t, u \in Threads :
         call[t].op \in FileOps /\ call[u].op \in FileOps => t = u
    /\ \A t \in Threads :
         /\ InCall(t, "open") => tree[call[t].at][call[t].name] = "file"
         /\ InCall(t, "unlink") => tree[call[t].at][call[t].name] # "file"
         /\ InCall(t, "rename") =>
              /\ \A n \in Below(call[t].name) \cup Below(call[t].new) :
                   <<call[t].at, n>> \in touched
              /\ ~IsPrefix(call[t].name, call[t].new)
              /\ ~IsPrefix(call[t].new, call[t].name)
              /\ grown

BaseInv ==
    /\ SourcesInv /\ BackupsInv /\ CopierTypes /\ OtherTypes
    /\ VisitInv /\ ListInv /\ CallInv

LEMMA CallInvNow ==
  ASSUME CallInv, NEW t \in Threads
  PROVE  /\ InCall(t, "open") => tree[call[t].at][call[t].name] = "file"
         /\ InCall(t, "unlink") => tree[call[t].at][call[t].name] # "file"
         /\ InCall(t, "rename") =>
              /\ \A n \in Below(call[t].name) \cup Below(call[t].new) :
                   <<call[t].at, n>> \in touched
              /\ ~IsPrefix(call[t].name, call[t].new)
              /\ ~IsPrefix(call[t].new, call[t].name)
              /\ grown
         /\ \A u \in Threads :
              call[t].op \in FileOps /\ call[u].op \in FileOps => t = u
  BY DEF CallInv

(* The trees in each step. *)
LEMMA TreesAreKept ==
  ASSUME BaseInv, Next
  PROVE  SourcesInv' /\ BackupsInv'
<1>1. SourcesInv /\ BackupsInv /\ CallsAreTyped /\ index \in Pairs
  BY DEF BaseInv, CopierTypes, OtherTypes
<1>2. CASE CopierStep
  <2>1. UNCHANGED tree
    BY <1>2 DEF CopierStep, OpenSession, StartDirectory, Quit, Take, PollAborts, Stat,
         CopyFile, OpenDir, MakeDir, List, CountRest, Cleanup, CloseSession
  <2>2. CASE CopyFile
    <3>1. entry \in All
      BY <2>2 DEF BaseInv, VisitInv, CopyFile
    <3> QED BY <1>1, <2>1, <2>2, <3>1, SourcesStay, CopyFileIs
  <2>3. CASE MakeDir
    <3>1. entry \in All
      BY <2>3 DEF BaseInv, VisitInv, MakeDir
    <3> QED BY <1>1, <2>1, <2>3, <3>1, SourcesStay, MakeDirIs
  <2>4. CASE ~CopyFile /\ ~MakeDir
    <3>1. UNCHANGED backup
      BY <1>2, <2>4 DEF CopierStep, OpenSession, StartDirectory, Quit, Take, PollAborts,
           Stat, OpenDir, List, CountRest, Cleanup, CloseSession
    <3> QED BY <1>1, <2>1, <3>1, SourcesStay, BackupsStay
  <2> QED BY <2>2, <2>3, <2>4
<1>3. ASSUME NEW t \in Threads, AppStep(t) PROVE SourcesInv' /\ BackupsInv'
  <2>1. ASSUME NEW i \in Pairs, NEW p \in Names, Open(t, i, p)
        PROVE  SourcesInv' /\ BackupsInv'
    BY <1>1, <2>1, OpenIs, BackupsStay DEF Open
  <2>2. ASSUME NEW i \in Pairs, NEW p \in Names, Mkdir(t, i, p)
        PROVE  SourcesInv' /\ BackupsInv'
    BY <1>1, <2>2, MkdirIs, BackupsStay DEF Mkdir
  <2>3. ASSUME NEW i \in Pairs, NEW p \in Names, Rmdir(t, i, p)
        PROVE  SourcesInv' /\ BackupsInv'
    BY <1>1, <2>3, RmdirIs, BackupsStay DEF Rmdir
  <2>4. ASSUME NEW i \in Pairs, NEW p \in Names, Unlink(t, i, p)
        PROVE  SourcesInv' /\ BackupsInv'
    BY <1>1, <2>4, UnlinkIs, BackupsStay DEF Unlink
  <2>5. ASSUME NEW i \in Pairs, NEW p \in Names, NEW q \in Names, Rename(t, i, p, q)
        PROVE  SourcesInv' /\ BackupsInv'
    BY <1>1, <2>5, RenameIs, BackupsStay DEF Rename
  <2>6. CASE OpenCapture(t)
    <3>1. UNCHANGED tree
      BY <2>6 DEF OpenCapture, End
    <3> QED BY <1>1, <2>6, <3>1, SourcesStay, OpenCaptureIs
  <2>7. CASE MkdirCapture(t)
    <3>1. UNCHANGED tree
      BY <2>7 DEF MkdirCapture, End
    <3> QED BY <1>1, <2>7, <3>1, SourcesStay, MkdirCaptureIs
  <2>8. CASE UnlinkCapture(t)
    <3>1. UNCHANGED tree
      BY <2>8 DEF UnlinkCapture, End
    <3> QED BY <1>1, <2>8, <3>1, SourcesStay, UnlinkCaptureIs
  <2>9. CASE RenameCapture(t)
    <3>1. UNCHANGED tree
      BY <2>9 DEF RenameCapture, End
    <3>2. /\ ~IsPrefix(call[t].name, call[t].new)
          /\ ~IsPrefix(call[t].new, call[t].name)
      BY <2>9, CallInvNow DEF RenameCapture, BaseInv
    <3> QED BY <1>1, <2>9, <3>1, <3>2, SourcesStay, RenameCaptureIs
  <2> QED BY <1>3, <2>1, <2>2, <2>3, <2>4, <2>5, <2>6, <2>7, <2>8, <2>9 DEF AppStep
<1> QED BY <1>2, <1>3 DEF Next

(* What the application leaves alone. *)
LEMMA AppStepIs ==
  ASSUME BaseInv, NEW t \in Threads, AppStep(t)
  PROVE  /\ UNCHANGED copierVars
         /\ \/ UNCHANGED todo
            \/ /\ todo' = Append(todo, Foreign) /\ InSession
               /\ InCall(t, "rename") /\ UNCHANGED historyVars
         /\ failed' \in BOOLEAN /\ (failed => failed')
         /\ ~InSession => UNCHANGED <<backup, todo>>
<1>1. failed \in BOOLEAN
  BY DEF BaseInv, CopierTypes
<1>2. CASE \/ \E i \in Pairs, p \in Names :
                Open(t, i, p) \/ Mkdir(t, i, p) \/ Rmdir(t, i, p) \/ Unlink(t, i, p)
           \/ \E i \in Pairs, p, q \in Names : Rename(t, i, p, q)
  BY <1>1, <1>2 DEF Open, Mkdir, Rmdir, Unlink, Rename
<1>3. CASE OpenCapture(t)
  BY <1>1, <1>3 DEF OpenCapture
<1>4. CASE MkdirCapture(t)
  BY <1>1, <1>4 DEF MkdirCapture
<1>5. CASE UnlinkCapture(t)
  BY <1>1, <1>5 DEF UnlinkCapture
<1>6. CASE RenameCapture(t)
  BY <1>1, <1>6 DEF RenameCapture
<1> QED BY <1>2, <1>3, <1>4, <1>5, <1>6 DEF AppStep

(* A call that begins, and one that ends. *)
LEMMA BeginIs ==
  ASSUME CallsAreTyped, CallInv, callsLeft \in 0..MaxCalls,
         NEW t \in Threads, NEW r \in CallRecords, Begin(t, r.op),
         call' = [call EXCEPT ![t] = r]
  PROVE  /\ CallsAreTyped' /\ callsLeft' \in 0..MaxCalls
         /\ call'[t] = r /\ \A u \in Threads : u # t => call'[u] = call[u]
         /\ r.op \in FileOps => \A u \in Threads : u # t => call'[u].op \notin FileOps
         /\ \A u, v \in Threads :
              call'[u].op \in FileOps /\ call'[v].op \in FileOps => u = v
<1>1. CallsAreTyped'
  BY DEF CallsAreTyped, CallRecords
<1>2. callsLeft' \in 0..MaxCalls
  BY CopierTreeAssumption DEF Begin
<1>3. call'[t] = r /\ \A u \in Threads : u # t => call'[u] = call[u]
  BY DEF CallsAreTyped
<1>4. r.op \in FileOps => \A u \in Threads : u # t => call'[u].op \notin FileOps
  BY <1>3 DEF Begin
<1>5. \A u, v \in Threads :
        call'[u].op \in FileOps /\ call'[v].op \in FileOps => u = v
  BY <1>3, <1>4 DEF CallInv
<1> QED BY <1>1, <1>2, <1>3, <1>4, <1>5

LEMMA EndIs ==
  ASSUME CallsAreTyped, CallInv, NEW t \in Threads, End(t)
  PROVE  /\ CallsAreTyped' /\ call'[t] = Idle
         /\ \A u \in Threads : u # t => call'[u] = call[u]
         /\ \A u, v \in Threads :
              call'[u].op \in FileOps /\ call'[v].op \in FileOps => u = v
<1>1. CallsAreTyped'
  BY DEF CallsAreTyped, CallRecords, End
<1>2. call'[t] = Idle /\ \A u \in Threads : u # t => call'[u] = call[u]
  BY DEF CallsAreTyped, End
<1>3. Idle.op \notin FileOps
  BY DEF Idle, FileOps
<1> QED BY <1>1, <1>2, <1>3 DEF CallInv

(* A call that nothing has been done to. *)
LEMMA CallInvIfOthersStay ==
  ASSUME \A u, v \in Threads :
           call'[u].op \in FileOps /\ call'[v].op \in FileOps => u = v,
         touched \subseteq touched', grown => grown',
         \A u \in Threads : call'[u].op \in FileOps =>
            \/ /\ call'[u] = call[u]
               /\ \/ UNCHANGED tree
                  \/ InCall(u, "open") /\ tree'[call[u].at][call[u].name] = "file"
                  \/ InCall(u, "unlink") /\ tree'[call[u].at][call[u].name] # "file"
                  \/ InCall(u, "rename")
            \/ /\ call'[u].op = "open"
               /\ tree'[call'[u].at][call'[u].name] = "file"
            \/ /\ call'[u].op = "unlink"
               /\ tree'[call'[u].at][call'[u].name] # "file"
            \/ /\ call'[u].op = "rename"
               /\ \A n \in Below(call'[u].name) \cup Below(call'[u].new) :
                    <<call'[u].at, n>> \in touched'
               /\ ~IsPrefix(call'[u].name, call'[u].new)
               /\ ~IsPrefix(call'[u].new, call'[u].name)
               /\ grown',
         CallInv
  PROVE  CallInv'
<1> SUFFICES ASSUME NEW u \in Threads
             PROVE  /\ call'[u].op = "open" => tree'[call'[u].at][call'[u].name] = "file"
                    /\ call'[u].op = "unlink" => tree'[call'[u].at][call'[u].name] # "file"
                    /\ call'[u].op = "rename" =>
                         /\ \A n \in Below(call'[u].name) \cup Below(call'[u].new) :
                              <<call'[u].at, n>> \in touched'
                         /\ ~IsPrefix(call'[u].name, call'[u].new)
                         /\ ~IsPrefix(call'[u].new, call'[u].name)
                         /\ grown'
  BY DEF CallInv, InCall
<1>1. CASE call'[u].op \notin FileOps
  BY <1>1 DEF FileOps
<1>2. CASE call'[u] = call[u]
  <2>1. /\ InCall(u, "open") => tree[call[u].at][call[u].name] = "file"
        /\ InCall(u, "unlink") => tree[call[u].at][call[u].name] # "file"
        /\ InCall(u, "rename") =>
             /\ \A n \in Below(call[u].name) \cup Below(call[u].new) :
                  <<call[u].at, n>> \in touched
             /\ ~IsPrefix(call[u].name, call[u].new)
             /\ ~IsPrefix(call[u].new, call[u].name)
             /\ grown
    BY CallInvNow
  <2> QED BY <1>1, <1>2, <2>1 DEF InCall
<1>3. CASE call'[u] # call[u] /\ call'[u].op \in FileOps
  BY <1>3
<1> QED BY <1>1, <1>2, <1>3

LEMMA CallsAreKept ==
  ASSUME BaseInv, Next
  PROVE  OtherTypes' /\ CallInv'
<1>1. /\ CallsAreTyped /\ callsLeft \in 0..MaxCalls /\ touched \subseteq Pairs \X Names
      /\ removed \in BOOLEAN /\ grown \in BOOLEAN /\ CallInv /\ SourcesInv
  BY DEF BaseInv, OtherTypes
<1>2. CASE CopierStep
  <2>1. UNCHANGED <<tree, call, callsLeft, touched, removed, grown>>
    BY <1>2 DEF CopierStep, OpenSession, StartDirectory, Quit, Take, PollAborts, Stat,
         CopyFile, OpenDir, MakeDir, List, CountRest, Cleanup, CloseSession, historyVars
  <2>2. OtherTypes'
    BY <1>1, <2>1 DEF OtherTypes, CallsAreTyped
  <2>3. CallInv'
    BY <1>1, <2>1 DEF CallInv, InCall
  <2> QED BY <2>2, <2>3
<1>3. ASSUME NEW t \in Threads, NEW i \in Pairs, NEW p \in Names, Open(t, i, p)
      PROVE  OtherTypes' /\ CallInv'
  <2> DEFINE r == [op |-> "open", at |-> i, name |-> p, fresh |-> tree[i][p] = "none"]
  <2>1. /\ Begin(t, "open") /\ call' = [call EXCEPT ![t] = r]
        /\ UNCHANGED <<touched, removed>> /\ grown' \in BOOLEAN /\ (grown => grown')
    BY <1>1, <1>3 DEF Open
  <2>2. /\ r \in CallRecords /\ r.op = "open" /\ r.at = i /\ r.name = p
        /\ tree'[i][p] = "file"
    BY <1>1, <1>3, OpenIs DEF CallRecords
  <2> HIDE DEF r
  <2>3. /\ CallsAreTyped' /\ callsLeft' \in 0..MaxCalls
        /\ call'[t] = r /\ \A u \in Threads : u # t => call'[u].op \notin FileOps
        /\ \A u, v \in Threads :
             call'[u].op \in FileOps /\ call'[v].op \in FileOps => u = v
    <3>1. Begin(t, r.op) /\ r.op \in FileOps
      BY <2>1, <2>2 DEF FileOps
    <3> QED BY <1>1, <2>1, <2>2, <3>1, BeginIs
  <2>4. CallInv'
    BY <1>1, <2>1, <2>2, <2>3, CallInvIfOthersStay
  <2>5. OtherTypes'
    BY <1>1, <2>1, <2>3 DEF OtherTypes
  <2> QED BY <2>4, <2>5
<1>4. ASSUME NEW t \in Threads, NEW i \in Pairs, NEW p \in Names, Mkdir(t, i, p)
      PROVE  OtherTypes' /\ CallInv'
  <2> DEFINE r == [op |-> "mkdir", at |-> i, name |-> p]
  <2>1. /\ Begin(t, "mkdir") /\ call' = [call EXCEPT ![t] = r]
        /\ touched \subseteq touched' /\ touched' \subseteq touched \cup {<<i, p>>}
        /\ UNCHANGED <<removed, grown>>
    BY <1>1, <1>4 DEF Mkdir
  <2>2. /\ r \in CallRecords /\ r.op = "mkdir" /\ r.op \notin FileOps
        /\ TreeChangesAt(i, {p}) /\ tree[i][p] = "none" /\ tree'[i][p] = "dir"
    BY <1>1, <1>4, MkdirIs DEF CallRecords, FileOps
  <2> HIDE DEF r
  <2>3. /\ CallsAreTyped' /\ callsLeft' \in 0..MaxCalls
        /\ call'[t] = r /\ \A u \in Threads : u # t => call'[u] = call[u]
        /\ \A u, v \in Threads :
             call'[u].op \in FileOps /\ call'[v].op \in FileOps => u = v
    <3>1. Begin(t, r.op)
      BY <2>1, <2>2
    <3> QED BY <1>1, <2>1, <2>2, <3>1, BeginIs
  <2>4. ASSUME NEW u \in Threads, call'[u].op \in FileOps
        PROVE  /\ call'[u] = call[u]
               /\ \/ InCall(u, "open") /\ tree'[call[u].at][call[u].name] = "file"
                  \/ InCall(u, "unlink") /\ tree'[call[u].at][call[u].name] # "file"
                  \/ InCall(u, "rename")
    <3>1. call'[u] = call[u] /\ (InCall(u, "open") \/ InCall(u, "unlink") \/ InCall(u, "rename"))
      BY <2>2, <2>3, <2>4 DEF FileOps, InCall
    <3>2. InCall(u, "open") =>
             /\ tree[call[u].at][call[u].name] = "file"
             /\ call[u].at \in Pairs /\ call[u].name \in All
      BY <1>1, CallInvNow, PendingCalls, NamesAreStrings
    <3>3. InCall(u, "unlink") =>
             /\ tree[call[u].at][call[u].name] # "file"
             /\ call[u].at \in Pairs /\ call[u].name \in All
      BY <1>1, CallInvNow, PendingCalls, NamesAreStrings
    <3> QED BY <2>2, <3>1, <3>2, <3>3 DEF TreeChangesAt
  <2>5. CallInv'
    BY <1>1, <2>1, <2>3, <2>4, CallInvIfOthersStay
  <2>6. OtherTypes'
    BY <1>1, <2>1, <2>3 DEF OtherTypes
  <2> QED BY <2>5, <2>6
<1>5. ASSUME NEW t \in Threads, NEW i \in Pairs, NEW p \in Names, Rmdir(t, i, p)
      PROVE  OtherTypes' /\ CallInv'
  <2>1. /\ callsLeft' = callsLeft - 1 /\ callsLeft > 0 /\ removed' \in BOOLEAN
        /\ UNCHANGED <<call, touched, grown>>
    BY <1>1, <1>5 DEF Rmdir, Begin
  <2>2. TreeChangesAt(i, {p}) /\ tree[i][p] = "dir" /\ tree'[i][p] = "none"
    BY <1>1, <1>5, RmdirIs
  <2>3. ASSUME NEW u \in Threads, call'[u].op \in FileOps
        PROVE  /\ call'[u] = call[u]
               /\ \/ InCall(u, "open") /\ tree'[call[u].at][call[u].name] = "file"
                  \/ InCall(u, "unlink") /\ tree'[call[u].at][call[u].name] # "file"
                  \/ InCall(u, "rename")
    <3>1. call'[u] = call[u] /\ (InCall(u, "open") \/ InCall(u, "unlink") \/ InCall(u, "rename"))
      BY <2>1, <2>3 DEF FileOps, InCall
    <3>2. InCall(u, "open") =>
             /\ tree[call[u].at][call[u].name] = "file"
             /\ call[u].at \in Pairs /\ call[u].name \in All
      BY <1>1, CallInvNow, PendingCalls, NamesAreStrings
    <3>3. InCall(u, "unlink") =>
             /\ tree[call[u].at][call[u].name] # "file"
             /\ call[u].at \in Pairs /\ call[u].name \in All
      BY <1>1, CallInvNow, PendingCalls, NamesAreStrings
    <3> QED BY <2>2, <3>1, <3>2, <3>3 DEF TreeChangesAt
  <2>4. \A u, v \in Threads :
             call'[u].op \in FileOps /\ call'[v].op \in FileOps => u = v
    BY <1>1, <2>1 DEF CallInv
  <2>5. CallInv'
    BY <1>1, <2>1, <2>3, <2>4, CallInvIfOthersStay
  <2>6. callsLeft' \in 0..MaxCalls
    BY <1>1, <2>1, CopierTreeAssumption
  <2>7. OtherTypes'
    BY <1>1, <2>1, <2>6 DEF OtherTypes, CallsAreTyped
  <2> QED BY <2>5, <2>7
<1>6. ASSUME NEW t \in Threads, NEW i \in Pairs, NEW p \in Names, Unlink(t, i, p)
      PROVE  OtherTypes' /\ CallInv'
  <2> DEFINE r == [op |-> "unlink", at |-> i, name |-> p]
  <2>1. /\ Begin(t, "unlink") /\ call' = [call EXCEPT ![t] = r]
        /\ UNCHANGED <<touched, removed, grown>>
    BY <1>1, <1>6 DEF Unlink, historyVars
  <2>2. /\ r \in CallRecords /\ r.op = "unlink" /\ r.at = i /\ r.name = p
        /\ tree'[i][p] = "none"
    BY <1>1, <1>6, UnlinkIs DEF CallRecords
  <2> HIDE DEF r
  <2>3. /\ CallsAreTyped' /\ callsLeft' \in 0..MaxCalls
        /\ call'[t] = r /\ \A u \in Threads : u # t => call'[u].op \notin FileOps
        /\ \A u, v \in Threads :
             call'[u].op \in FileOps /\ call'[v].op \in FileOps => u = v
    <3>1. Begin(t, r.op) /\ r.op \in FileOps
      BY <2>1, <2>2 DEF FileOps
    <3> QED BY <1>1, <2>1, <2>2, <3>1, BeginIs
  <2>4. CallInv'
    BY <1>1, <2>1, <2>2, <2>3, CallInvIfOthersStay
  <2>5. OtherTypes'
    BY <1>1, <2>1, <2>3 DEF OtherTypes
  <2> QED BY <2>4, <2>5
<1>7. ASSUME NEW t \in Threads, NEW i \in Pairs, NEW p \in Names, NEW q \in Names,
             Rename(t, i, p, q)
      PROVE  OtherTypes' /\ CallInv'
  <2> DEFINE r == [op |-> "rename", at |-> i, name |-> p, new |-> q]
  <2>1. /\ Begin(t, "rename") /\ call' = [call EXCEPT ![t] = r]
        /\ touched' = touched \cup {<<i, n>> : n \in Below(p) \cup Below(q)}
        /\ removed' \in BOOLEAN /\ grown' = TRUE
        /\ ~IsPrefix(p, q) /\ ~IsPrefix(q, p)
    BY <1>1, <1>7 DEF Rename
  <2>2. /\ r \in CallRecords /\ r.op = "rename" /\ r.at = i /\ r.name = p /\ r.new = q
    BY DEF CallRecords
  <2> HIDE DEF r
  <2>3. /\ CallsAreTyped' /\ callsLeft' \in 0..MaxCalls
        /\ call'[t] = r /\ \A u \in Threads : u # t => call'[u].op \notin FileOps
        /\ \A u, v \in Threads :
             call'[u].op \in FileOps /\ call'[v].op \in FileOps => u = v
    <3>1. Begin(t, r.op) /\ r.op \in FileOps
      BY <2>1, <2>2 DEF FileOps
    <3> QED BY <1>1, <2>1, <2>2, <3>1, BeginIs
  <2>4. \A n \in Below(p) \cup Below(q) : <<i, n>> \in touched'
    BY <2>1
  <2>5. CallInv'
    BY <1>1, <2>1, <2>2, <2>3, <2>4, CallInvIfOthersStay
  <2>6. touched' \subseteq Pairs \X Names
    BY <1>1, <2>1 DEF Below
  <2>7. OtherTypes'
    BY <1>1, <2>1, <2>3, <2>6 DEF OtherTypes
  <2> QED BY <2>5, <2>7
<1>8. ASSUME NEW t \in Threads,
             OpenCapture(t) \/ MkdirCapture(t) \/ UnlinkCapture(t) \/ RenameCapture(t)
      PROVE  OtherTypes' /\ CallInv'
  <2>1. End(t) /\ UNCHANGED <<tree, callsLeft, touched, removed, grown>>
    BY <1>8 DEF OpenCapture, MkdirCapture, UnlinkCapture, RenameCapture, End, historyVars
  <2>2. /\ CallsAreTyped' /\ call'[t] = Idle
        /\ \A u \in Threads : u # t => call'[u] = call[u]
        /\ \A u, v \in Threads :
             call'[u].op \in FileOps /\ call'[v].op \in FileOps => u = v
    BY <1>1, <2>1, EndIs
  <2>3. Idle.op \notin FileOps
    BY DEF Idle, FileOps
  <2>4. CallInv'
    BY <1>1, <2>1, <2>2, <2>3, CallInvIfOthersStay
  <2>5. OtherTypes'
    BY <1>1, <2>1, <2>2 DEF OtherTypes
  <2> QED BY <2>4, <2>5
<1> QED BY <1>2, <1>3, <1>4, <1>5, <1>6, <1>7, <1>8 DEF Next, AppStep

LEMMA ListFacts ==
  ASSUME todo \in Seq(Items)
  PROVE  /\ Len(todo) \in Nat
         /\ \A x \in Items : Append(todo, x) \in Seq(Items)
                             /\ Len(Append(todo, x)) = Len(todo) + 1
         /\ Root \in Items /\ Null \in Items /\ Foreign \in Items
  BY LenProperties, AppendedEntries, NamesAreStrings DEF Items

(* The copier itself. *)
LEMMA CopierIsKeptByTheApplication ==
  ASSUME BaseInv, NEW t \in Threads, AppStep(t)
  PROVE  CopierTypes' /\ VisitInv' /\ ListInv'
<1>0. CopierTypes /\ VisitInv /\ ListInv /\ todo \in Seq(Items) /\ known \in Nat
  BY DEF BaseInv, CopierTypes
<1>1. /\ UNCHANGED copierVars /\ failed' \in BOOLEAN
      /\ UNCHANGED todo \/ todo' = Append(todo, Foreign)
  BY AppStepIs
<1>2. Len(todo) \in Nat /\ Foreign \in Items
  BY <1>0, ListFacts
<1>3. todo' \in Seq(Items) /\ Len(todo') \in Nat /\ Len(todo) <= Len(todo')
  BY <1>0, <1>1, <1>2, AppendedEntries
<1>4. CopierTypes'
  BY <1>0, <1>1, <1>3 DEF CopierTypes, copierVars
<1>5. VisitInv'
  BY <1>0, <1>1 DEF VisitInv, copierVars
<1>6. ListInv'
  <2>1. CASE UNCHANGED todo
    BY <1>0, <1>1, <2>1 DEF ListInv, copierVars
  <2>2. CASE todo' = Append(todo, Foreign)
    <3>1. /\ Len(todo') = Len(todo) + 1 /\ todo'[Len(todo) + 1] = Foreign
          /\ \A k \in 1..Len(todo) : todo'[k] = todo[k]
      BY <1>0, <1>2, <2>2, AppendedEntries
    <3>2. \A k \in 1..Len(todo') : k \in 1..Len(todo) \/ k = Len(todo) + 1
      BY <1>2, <3>1
    <3>3. pc' = "loop" => \A k \in 1..Len(todo') : k > known' => todo'[k] = Foreign
      BY <1>0, <1>1, <3>1, <3>2 DEF ListInv, copierVars
    <3>4. /\ pc' \in {"loop", "entry"} => known' <= Len(todo') + 1
          /\ pc' = "loop" => known' <= Len(todo')
      BY <1>0, <1>1, <1>2, <3>1 DEF ListInv, copierVars
    <3> QED BY <3>3, <3>4 DEF ListInv
  <2> QED BY <1>1, <2>1, <2>2
<1> QED BY <1>4, <1>5, <1>6

LEMMA CopierIsKept ==
  ASSUME BaseInv, Next
  PROVE  CopierTypes' /\ VisitInv' /\ ListInv'
<1>0. /\ CopierTypes /\ VisitInv /\ ListInv /\ SourcesInv
      /\ todo \in Seq(Items) /\ Len(todo) \in Nat
      /\ Root \in Items /\ Null \in Items /\ Foreign \in Items
      /\ known \in Nat
  BY ListFacts DEF BaseInv, CopierTypes
<1>1. CASE OpenSession
  BY <1>0, <1>1 DEF OpenSession, CopierTypes, VisitInv, ListInv, Stages
<1>2. CASE StartDirectory
  <2>1. /\ todo' \in Seq(Items) /\ Len(todo') = Len(todo) + 1 /\ known' = Len(todo')
    BY <1>0, <1>2, AppendedEntries DEF StartDirectory, KnownFiles
  <2>2. total' \in Nat
    <3> DEFINE S == {p \in Names : tree[index][p] = "file"}
    <3>1. IsFiniteSet(S)
      BY FS_Subset, CopierTreeAssumption
    <3>2. total' = Cardinality(S)
      BY <1>2 DEF StartDirectory, dirsum
    <3> HIDE DEF S
    <3> QED BY <3>1, <3>2, FS_CardinalityType
  <2>3. CopierTypes'
    BY <1>0, <1>2, <2>1, <2>2 DEF StartDirectory, CopierTypes, Stages
  <2>4. ListInv'
    BY <1>0, <1>2, <2>1 DEF StartDirectory, ListInv
  <2> QED BY <1>2, <2>3, <2>4 DEF StartDirectory, VisitInv
<1>3. CASE Quit
  BY <1>0, <1>3 DEF Quit, CopierTypes, VisitInv, ListInv, Stages
<1>4. CASE Take
  <2>1. known # 0 /\ known <= Len(todo) /\ Len(todo) # 0 /\ pc = "loop"
    BY <1>0, <1>4 DEF Take, ListInv
  <2>2. /\ Head(todo) \in Items /\ Tail(todo) \in Seq(Items)
        /\ Len(Tail(todo)) = Len(todo) - 1
    BY <1>0, <2>1, FirstEntry
  <2>3. CASE Head(todo) = Null
    BY <1>0, <1>4, <2>3 DEF Take, CopierTypes, VisitInv, ListInv, Stages
  <2>4. CASE Head(todo) # Null
    <3>1. /\ pc' = "entry" /\ entry' = Head(todo) /\ todo' = Tail(todo)
          /\ UNCHANGED <<index, known, listed, total, done, rc, failed>>
      BY <1>4, <2>4 DEF Take
    <3>2. ListInv'
      BY <1>0, <2>1, <2>2, <3>1 DEF ListInv
    <3>3. CopierTypes'
      BY <1>0, <2>2, <3>1 DEF CopierTypes, Stages
    <3> QED BY <2>4, <3>1, <3>2, <3>3 DEF VisitInv
  <2> QED BY <2>3, <2>4
<1>5. CASE PollAborts
  BY <1>0, <1>5 DEF PollAborts, CopierTypes, VisitInv, ListInv, Stages
<1>6. CASE Stat
  <2>1. entry # Null /\ entry \in Items /\ index \in Pairs
    BY <1>0, <1>6 DEF Stat, CopierTypes, VisitInv
  <2>2. CASE entry = Foreign \/ entry \in Excluded
    BY <1>0, <1>6, <2>2 DEF Stat, CopierTypes, VisitInv, ListInv, Stages
  <2>3. CASE entry # Foreign /\ entry \notin Excluded
    <3>1. entry \in All \ Excluded
      BY <2>1, <2>3 DEF Items
    <3>2. tree[index][entry] \in {"none", "file", "dir"}
      BY <1>0, <2>1, <3>1 DEF SourcesInv
    <3>3. pc' \in {"next", "file", "opendir"}
      BY <1>6, <2>3, <3>2 DEF Stat
    <3> QED BY <1>0, <1>6, <3>1, <3>3 DEF Stat, CopierTypes, VisitInv, ListInv, Stages
  <2> QED BY <2>2, <2>3
<1>7. CASE CopyFile
  <2>1. pc' \in {"next", "cleanup"} /\ rc' \in {"ok", "aborted", "error"} /\ done' \in Nat
    BY <1>0, <1>7 DEF CopyFile, CopierTypes
  <2> QED BY <1>0, <1>7, <2>1 DEF CopyFile, CopierTypes, VisitInv, ListInv, Stages
<1>8. CASE OpenDir
  <2>1. entry \in All \ Excluded
    BY <1>0, <1>8 DEF OpenDir, VisitInv
  <2>2. \/ pc' = "cleanup" /\ rc' = "error" /\ UNCHANGED listed
        \/ /\ pc' = "mkdir" /\ rc' = rc
           /\ listed' = NoDir \/ listed' \subseteq Children(entry)
    BY <1>8 DEF OpenDir
  <2>3. Children(entry) \subseteq Names
    BY DEF Children
  <2>4. UNCHANGED <<index, todo, known, entry, total, done, failed>>
    BY <1>8 DEF OpenDir
  <2>5. CopierTypes'
    BY <1>0, <2>2, <2>3, <2>4 DEF CopierTypes, Stages
  <2> QED BY <2>1, <2>2, <2>4, <2>5 DEF VisitInv, ListInv
<1>9. CASE MakeDir
  <2>1. pc' \in {"cleanup", "crashed", "list"} /\ (pc' = "list" => listed # NoDir)
    BY <1>9 DEF MakeDir, AfterMkdir
  <2>2. rc' \in {"ok", "aborted", "error"}
    BY <1>0, <1>9 DEF MakeDir, CopierTypes
  <2>3. pc = "mkdir" /\ UNCHANGED <<index, todo, known, entry, listed, total, done, failed>>
    BY <1>9 DEF MakeDir
  <2>4. CopierTypes'
    BY <1>0, <2>1, <2>2, <2>3 DEF CopierTypes, Stages
  <2> QED BY <1>0, <2>1, <2>3, <2>4 DEF VisitInv, ListInv
<1>10. CASE List
  <2>1. PICK names \in SUBSET (listed \cup {n \in Children(entry) : tree[index][n] # "none"}) :
          \E s \in SetToSeqs(IF failed THEN {} ELSE names) : todo' = todo \o s
    BY <1>10 DEF List
  <2>2. listed \subseteq Names
    BY <1>0, <1>10 DEF List, VisitInv, Children
  <2>3. (IF failed THEN {} ELSE names) \in SUBSET Names
    BY <2>1, <2>2 DEF Children
  <2>4. todo' \in Seq(Items)
    BY <1>0, <2>1, <2>3, OrdersOf, JoinedEntries
  <2>5. /\ pc' = "next" /\ listed' = {}
        /\ UNCHANGED <<index, known, entry, total, done, rc, failed>>
    BY <1>10 DEF List
  <2>6. CopierTypes'
    BY <1>0, <2>4, <2>5 DEF CopierTypes, Stages
  <2> QED BY <2>5, <2>6 DEF VisitInv, ListInv
<1>11. CASE CountRest
  <2>1. /\ pc' = "loop" /\ entry' = Root /\ known' = Len(todo)
        /\ UNCHANGED <<index, todo, listed, total, done, rc, failed>>
    BY <1>11 DEF CountRest, KnownFiles
  <2>2. CopierTypes'
    BY <1>0, <2>1 DEF CopierTypes, Stages
  <2>3. ListInv'
    BY <1>0, <2>1 DEF ListInv
  <2> QED BY <2>1, <2>2, <2>3 DEF VisitInv
<1>12. CASE Cleanup
  <2>1. /\ todo' = [k \in DOMAIN todo |-> Null] /\ entry' = Root /\ listed' = {}
        /\ UNCHANGED <<known, total, done, rc, failed>>
        /\ pc' \in {"start", "stop"}
    BY <1>12 DEF Cleanup
  <2>2. todo' \in Seq(Items)
    <3>1. DOMAIN todo = 1..Len(todo)
      BY <1>0, LenProperties
    <3> DEFINE f == [k \in 1..Len(todo) |-> Null]
    <3>2. f \in [1..Len(todo) -> Items]
      BY <1>0
    <3>3. f \in Seq(Items)
      <4> HIDE DEF f
      <4> QED BY <1>0, <3>2, IsASeq
    <3> QED BY <2>1, <3>1, <3>3
  <2>3. index' \in Pairs
    <3>1. Sources \in Nat /\ index \in 1..Sources
      BY <1>0, CopierTreeAssumption DEF CopierTypes, Pairs
    <3>2. index' = index \/ (index' = index + 1 /\ index < Sources)
      BY <1>12 DEF Cleanup, GoesOn
    <3> QED BY <3>1, <3>2 DEF Pairs
  <2>4. CopierTypes'
    BY <1>0, <2>1, <2>2, <2>3 DEF CopierTypes, Stages
  <2> QED BY <2>1, <2>4 DEF VisitInv, ListInv
<1>13. CASE CloseSession
  BY <1>0, <1>13 DEF CloseSession, CopierTypes, VisitInv, ListInv, Stages
<1>14. CASE CopierStep
  BY <1>14, <1>1, <1>2, <1>3, <1>4, <1>5, <1>6, <1>7, <1>8, <1>9, <1>10, <1>11, <1>12, <1>13
  DEF CopierStep
<1> QED BY <1>14, CopierIsKeptByTheApplication DEF Next

LEMMA NothingHappens ==
  ASSUME BaseInv, UNCHANGED vars
  PROVE  BaseInv'
<1>1. SourcesInv' /\ BackupsInv'
  BY SourcesStay, BackupsStay DEF BaseInv, vars
<1>2. CopierTypes' /\ OtherTypes' /\ VisitInv' /\ ListInv'
  BY DEF BaseInv, vars, CopierTypes, OtherTypes, VisitInv, ListInv, CallsAreTyped
<1>3. CallInv'
  BY DEF BaseInv, vars, CallInv, InCall
<1> QED BY <1>1, <1>2, <1>3 DEF BaseInv

LEMMA BaseInvHolds == Spec => []BaseInv
<1>1. Init => BaseInv
  <2> SUFFICES ASSUME Init PROVE BaseInv
    OBVIOUS
  <2>1. SourcesInv
    <3>1. ASSUME NEW i \in Pairs
          PROVE  FileSystem(tree[i]) /\ \A n \in All : tree[i][n] \in {"none", "file", "dir"}
      <4>1. tree[i] \in Trees
        BY DEF Init
      <4>2. PICK c \in Contents : tree[i] =
              [p \in All |-> IF p = Root \/ p \in c \cap Directories THEN "dir"
                             ELSE IF p \in c THEN "file" ELSE "none"]
        BY <4>1 DEF Trees
      <4>3. \A p \in c : p \in Names /\
              (Parent(p) = Root \/ Parent(p) \in c \cap Directories)
        BY CopierTreeAssumption
      <4> DEFINE fs == tree[i]
      <4>4. \A n \in All : fs[n] = IF n = Root \/ n \in c \cap Directories THEN "dir"
                             ELSE IF n \in c THEN "file" ELSE "none"
        BY <4>2
      <4>5. fs \in [All -> {"none", "file", "dir"}]
        BY <4>2
      <4> HIDE DEF fs
      <4>6. fs \in [All -> Kinds] /\ fs[Root] = "dir"
        BY <4>4, <4>5, NamesAreStrings DEF Kinds
      <4>7. \A n \in Names : fs[n] # "none" => fs[Parent(n)] = "dir"
        BY <4>3, <4>4, NamesAreStrings
      <4>8. FileSystem(fs)
        BY <4>6, <4>7 DEF FileSystem, HasDir
      <4> QED BY <4>5, <4>8 DEF fs
    <3>2. tree \in [Pairs -> [All -> {"none", "file", "dir"}]]
      <4>1. \A i \in Pairs : tree[i] \in [All -> {"none", "file", "dir"}]
        BY <3>1 DEF FileSystem
      <4> QED BY <4>1 DEF Init
    <3> QED BY <3>1, <3>2 DEF SourcesInv
  <2>2. BackupsInv
    <3> DEFINE fs == [p \in All |-> IF p = Root THEN "dir" ELSE "none"]
    <3>1. backup = [i \in Pairs |-> fs]
      BY DEF Init
    <3>2. fs \in [All -> Kinds] /\ fs[Root] = "dir" /\ \A n \in Names : fs[n] = "none"
      BY NamesAreStrings DEF Kinds
    <3> HIDE DEF fs
    <3>3. FileSystem(fs)
      BY <3>2 DEF FileSystem
    <3> QED BY <3>1, <3>2, <3>3 DEF BackupsInv
  <2>3. CopierTypes /\ VisitInv /\ ListInv
    <3>1. 1 \in Pairs /\ <<>> \in Seq(Items) /\ Root \in Items
      BY CopierTreeAssumption, EmptySeq, NamesAreStrings DEF Pairs, Items
    <3> QED BY <3>1 DEF Init, CopierTypes, VisitInv, ListInv, Stages
  <2>4. OtherTypes /\ CallInv
    <3>1. Idle.op = "none" /\ Idle \in CallRecords
      BY DEF Idle, CallRecords
    <3>2. call = [t \in Threads |-> Idle]
      BY DEF Init
    <3>3. CallInv
      BY <3>1, <3>2 DEF CallInv, InCall, FileOps
    <3>4. CallsAreTyped
      BY <3>1, <3>2 DEF CallsAreTyped
    <3>5. callsLeft \in 0..MaxCalls
      BY CopierTreeAssumption DEF Init
    <3>6. OtherTypes
      BY <3>4, <3>5 DEF Init, OtherTypes
    <3> QED BY <3>3, <3>6
  <2> QED BY <2>1, <2>2, <2>3, <2>4 DEF BaseInv
<1>2. BaseInv /\ [Next]_vars => BaseInv'
  BY TreesAreKept, CallsAreKept, CopierIsKept, NothingHappens DEF BaseInv
<1> QED BY <1>1, <1>2, PTL DEF Spec

(* Each variable has what it should have, in both trees everything is in a *)
(* directory, and the copier, which takes the front of its list when what  *)
(* it last saw of its length was not zero, does not find the list empty:   *)
(* it may grow meanwhile, and no more.                                     *)
THEOREM TypeOKHolds == Spec => []TypeOK
<1>1. BaseInv => TypeOK
  <2> SUFFICES ASSUME BaseInv PROVE TypeOK
    OBVIOUS
  <2>1. \A i \in Pairs, p \in Names :
         /\ tree[i][p] \in {"none", "file", "dir"}
         /\ backup[i][p] \in {"none", "part", "file", "dir"}
         /\ tree[i][p] # "none" => HasDir(tree[i], p)
         /\ backup[i][p] # "none" => HasDir(backup[i], p)
    BY NamesAreStrings DEF BaseInv, SourcesInv, BackupsInv, FileSystem, Kinds
  <2> QED BY <2>1 DEF BaseInv, CopierTypes, OtherTypes, ListInv, Stages,
              TypeOK, CallsAreTyped
<1> QED BY <1>1, BaseInvHolds, PTL

----------------------------------------------------------------------------
(*               The end of the walk, and of the copier                    *)

(* When the copier leaves a pair without an error there is nothing in its  *)
(* list but what renames have added, which is no name of a source.         *)
SessionInv ==
    /\ pc = "none" => /\ index = 1
                      /\ \A i \in Pairs, p \in Names : backup[i][p] = "none"
    /\ pc \notin {"cleanup", "stop", "closed", "crashed"} => rc = "ok"
    /\ pc = "cleanup" /\ rc = "ok" /\ ~failed => Entries(todo) \subseteq {Foreign}
    /\ pc \in {"stop", "closed"} => /\ Entries(todo) \cap All = {}
                                    /\ rc # "ok" \/ index = Sources

(* A rename that has added to the list of another pair than the last.      *)
RenamedBefore == touched # {} /\ index > 1

CrashInv ==
    /\ pc = "opendir" => tree[index][entry] = "dir" \/ removed
    /\ pc = "mkdir" /\ listed = NoDir => removed
    /\ Foreign \in Entries(todo) => touched # {} /\ grown
    /\ pc \notin {"stop", "closed", "crashed"} /\ Null \in Entries(todo) =>
         failed \/ RenamedBefore
    /\ pc = "crashed" => removed \/ RenamedBefore

(* The steps that change the list. *)
LEMMA StartDirectoryIs ==
  ASSUME BaseInv, StartDirectory
  PROVE  Entries(todo') = Entries(todo) \cup {Root} /\ Len(todo') = Len(todo) + 1
  BY ListFacts, AppendedEntries DEF StartDirectory, BaseInv, CopierTypes

LEMMA TakeIs ==
  ASSUME BaseInv, Take
  PROVE  /\ todo # <<>> /\ Len(todo) \in Nat \ {0}
         /\ Head(todo) = todo[1] /\ todo[1] \in Entries(todo)
         /\ \/ pc' = "crashed" /\ todo[1] = Null /\ UNCHANGED <<todo, entry>>
            \/ /\ pc' = "entry" /\ entry' = todo[1] /\ entry' # Null
               /\ todo' = Tail(todo) /\ Len(todo') = Len(todo) - 1
               /\ \A k \in 1..Len(todo') : todo'[k] = todo[k + 1]
               /\ Entries(todo) = {entry'} \cup Entries(todo')
<1>1. todo \in Seq(Items) /\ Len(todo) \in Nat /\ known # 0 /\ known \in Nat /\ known <= Len(todo)
  BY ListFacts DEF BaseInv, CopierTypes, ListInv, Take
<1>2. Len(todo) # 0
  BY <1>1
<1>3. /\ todo # <<>> /\ Head(todo) = todo[1]
      /\ Len(Tail(todo)) = Len(todo) - 1
      /\ \A k \in 1..Len(Tail(todo)) : Tail(todo)[k] = todo[k + 1]
      /\ Entries(todo) = {Head(todo)} \cup Entries(Tail(todo))
  BY <1>1, <1>2, FirstEntry
<1>4. 1 \in 1..Len(todo)
  BY <1>1, <1>2
<1> QED BY <1>1, <1>2, <1>3, <1>4 DEF Take, Entries

LEMMA ListIs ==
  ASSUME BaseInv, List
  PROVE  /\ listed \subseteq Children(entry) /\ entry \in All /\ index \in Pairs
         /\ \E s \in Seq(Items) :
              /\ todo' = todo \o s
              /\ Entries(s) \subseteq Children(entry)
              /\ \A j, k \in 1..Len(s) : j # k => s[j] # s[k]
              /\ ~failed => \A n \in listed : tree[index][n] # "none" => n \in Entries(s)
              /\ Entries(todo') = Entries(todo) \cup Entries(s)
<1>0. /\ listed \subseteq Children(entry) /\ entry \in All /\ index \in Pairs
      /\ todo \in Seq(Items)
  BY DEF BaseInv, VisitInv, CopierTypes, List
<1> DEFINE now == {n \in Children(entry) : tree[index][n] # "none"}
<1>1. PICK names \in SUBSET (listed \cup now) :
        /\ listed \cap now \subseteq names
        /\ \E s \in SetToSeqs(IF failed THEN {} ELSE names) : todo' = todo \o s
  BY DEF List
<1> DEFINE S == IF failed THEN {} ELSE names
<1>2. PICK s \in SetToSeqs(S) : todo' = todo \o s
  BY <1>1
<1>3. names \subseteq Children(entry) /\ Children(entry) \subseteq Names
  BY <1>0, <1>1 DEF Children
<1>4. S \in SUBSET Names /\ S \subseteq Children(entry)
  BY <1>3
<1>5. ~failed => \A n \in listed : tree[index][n] # "none" => n \in S
  BY <1>0, <1>1
<1> HIDE DEF S
<1>6. s \in Seq(Items) /\ Entries(s) = S /\ \A j, k \in 1..Len(s) : j # k => s[j] # s[k]
  BY <1>4, <1>2, OrdersOf
<1>7. Entries(todo') = Entries(todo) \cup Entries(s)
  BY <1>0, <1>2, <1>6, JoinedEntries
<1> QED BY <1>0, <1>2, <1>4, <1>5, <1>6, <1>7

LEMMA CleanupIs ==
  ASSUME BaseInv, Cleanup
  PROVE  /\ Entries(todo') \subseteq {Null}
         /\ Entries(todo') # {} => Entries(todo) # {}
         /\ \/ pc' = "start" /\ rc = "ok" /\ index' = index + 1
            \/ pc' = "stop" /\ UNCHANGED index /\ (rc # "ok" \/ index = Sources)
<1>1. todo \in Seq(Items) /\ Len(todo) \in Nat /\ DOMAIN todo = 1..Len(todo)
  BY ListFacts, LenProperties DEF BaseInv, CopierTypes
<1>2. todo' = [k \in 1..Len(todo) |-> Null]
  BY <1>1 DEF Cleanup
<1>3. todo' \in Seq(Items) /\ Len(todo') = Len(todo)
  <2> DEFINE f == [k \in 1..Len(todo) |-> Null]
  <2>1. f \in [1..Len(todo) -> Items]
    BY <1>1, ListFacts
  <2>2. f \in Seq(Items) /\ Len(f) = Len(todo)
    <3> HIDE DEF f
    <3> QED BY <1>1, <2>1
  <2> QED BY <1>2, <2>2 DEF f
<1>4. Entries(todo') \subseteq {Null} /\ (Entries(todo') # {} => Entries(todo) # {})
  BY <1>1, <1>2, <1>3 DEF Entries
<1>5. Sources \in Nat /\ index \in 1..Sources
  BY CopierTreeAssumption DEF BaseInv, CopierTypes, Pairs
<1>6. \/ pc' = "start" /\ rc = "ok" /\ index' = index + 1
      \/ pc' = "stop" /\ UNCHANGED index /\ (rc # "ok" \/ ~(index < Sources))
  BY DEF Cleanup, GoesOn
<1> QED BY <1>4, <1>5, <1>6

(* What the application does is remembered. *)
LEMMA HistoryIs ==
  ASSUME BaseInv, NEW t \in Threads, AppStep(t)
  PROVE  touched \subseteq touched' /\ (removed => removed') /\ (grown => grown')
<1>1. removed \in BOOLEAN /\ grown \in BOOLEAN
  BY DEF BaseInv, OtherTypes
<1>2. CASE \/ \E i \in Pairs, p \in Names :
                Open(t, i, p) \/ Mkdir(t, i, p) \/ Rmdir(t, i, p) \/ Unlink(t, i, p)
           \/ \E i \in Pairs, p, q \in Names : Rename(t, i, p, q)
  BY <1>1, <1>2 DEF Open, Mkdir, Rmdir, Unlink, Rename, historyVars
<1>3. CASE OpenCapture(t) \/ MkdirCapture(t) \/ UnlinkCapture(t) \/ RenameCapture(t)
  BY <1>1, <1>3 DEF OpenCapture, MkdirCapture, UnlinkCapture, RenameCapture, historyVars
<1> QED BY <1>2, <1>3 DEF AppStep

LEMMA DirectoriesStay ==
  ASSUME BaseInv, NEW t \in Threads, AppStep(t), pc # "none", ~removed',
         NEW j \in Pairs, NEW d \in All, tree[j][d] = "dir"
  PROVE  tree'[j][d] = "dir"
<1>0. SourcesInv
  BY DEF BaseInv
<1>1. ASSUME NEW i \in Pairs, NEW p \in Names, Open(t, i, p)
      PROVE  tree'[j][d] = "dir"
  BY <1>0, <1>1, OpenIs DEF TreeChangesAt
<1>2. ASSUME NEW i \in Pairs, NEW p \in Names, Mkdir(t, i, p)
      PROVE  tree'[j][d] = "dir"
  BY <1>0, <1>2, MkdirIs DEF TreeChangesAt
<1>3. ASSUME NEW i \in Pairs, NEW p \in Names, Rmdir(t, i, p)
      PROVE  FALSE
  BY <1>3 DEF Rmdir
<1>4. ASSUME NEW i \in Pairs, NEW p \in Names, Unlink(t, i, p)
      PROVE  tree'[j][d] = "dir"
  BY <1>0, <1>4, UnlinkIs DEF TreeChangesAt
<1>5. ASSUME NEW i \in Pairs, NEW p \in Names, NEW q \in Names, Rename(t, i, p, q)
      PROVE  tree'[j][d] = "dir"
  <2>1. /\ tree[i][p] # "dir" /\ tree[i][q] \in {"none", tree[i][p]}
        /\ TreeChangesAt(i, Below(p) \cup Below(q))
    <3>1. tree[i][p] # "dir" /\ tree[i][q] \in {"none", tree[i][p]}
      BY <1>5 DEF Rename
    <3>2. TreeChangesAt(i, Below(p) \cup Below(q))
      BY <1>0, <1>5, RenameIs
    <3> QED BY <3>1, <3>2
  <2>2. FileSystem(tree[i]) /\ p \in All /\ q \in All /\ tree[i][q] # "dir"
    BY <1>0, <2>1, NamesAreStrings DEF SourcesInv
  <2>3. \A n \in Below(p) \cup Below(q) : tree[i][n] # "dir"
    <3> DEFINE fs == tree[i]
    <3>1. FileSystem(fs) /\ fs[p] # "dir" /\ fs[q] # "dir"
      BY <2>1, <2>2
    <3> HIDE DEF fs
    <3>2. ASSUME NEW n \in Names, NEW a \in All, fs[a] # "dir", a \in UpTo(n)
          PROVE  fs[n] # "dir"
      <4>1. n \in All
        BY NamesAreStrings
      <4>2. CASE n = a
        BY <3>2, <4>2
      <4>3. CASE n # a
        <5>1. fs[n] = "none"
          BY <3>1, <3>2, <4>1, <4>3, NothingBelow
        <5> QED BY <5>1
      <4> QED BY <4>2, <4>3
    <3>3. \A n \in Below(p) \cup Below(q) : n \in Names /\ (p \in UpTo(n) \/ q \in UpTo(n))
      BY <2>2, UpToFacts
    <3> QED BY <2>2, <3>1, <3>2, <3>3 DEF fs
  <2> QED BY <2>1, <2>3 DEF TreeChangesAt
<1>6. CASE OpenCapture(t) \/ MkdirCapture(t) \/ UnlinkCapture(t) \/ RenameCapture(t)
  BY <1>6 DEF OpenCapture, MkdirCapture, UnlinkCapture, RenameCapture, End
<1> QED BY <1>1, <1>2, <1>3, <1>4, <1>5, <1>6 DEF AppStep

LEMMA SessionIsKept ==
  ASSUME BaseInv, SessionInv, Next
  PROVE  SessionInv'
<1>0. /\ todo \in Seq(Items) /\ Len(todo) \in Nat /\ known \in Nat
      /\ failed \in BOOLEAN /\ Null \notin All /\ Foreign \notin All
  BY ListFacts, NamesAreStrings DEF BaseInv, CopierTypes
<1>1. CASE OpenSession \/ CloseSession \/ Stat \/ CountRest
  <2>1. UNCHANGED <<backup, index, todo, rc, failed>>
    BY <1>1 DEF OpenSession, CloseSession, Stat, CountRest
  <2>2. \/ pc = "none" /\ pc' = "start"
        \/ pc = "stop" /\ pc' = "closed"
        \/ pc = "next" /\ pc' = "loop"
        \/ pc = "entry" /\ pc' \in {"next", "file", "opendir"}
    <3>1. CASE Stat
      <4>1. entry # Null /\ entry \in Items /\ index \in Pairs /\ SourcesInv
        BY <3>1 DEF Stat, BaseInv, CopierTypes, VisitInv
      <4>2. entry \in All => tree[index][entry] \in {"none", "file", "dir"}
        BY <4>1 DEF SourcesInv
      <4> QED BY <3>1, <4>1, <4>2 DEF Stat, Items
    <3> QED BY <1>1, <3>1 DEF OpenSession, CloseSession, CountRest
  <2> QED BY <2>1, <2>2 DEF SessionInv
<1>2. CASE StartDirectory
  BY <1>2 DEF StartDirectory, SessionInv
<1>3. CASE Quit
  <2>1. /\ pc = "loop" /\ pc' = "cleanup" /\ rc = "ok" /\ (known = 0 \/ failed)
        /\ UNCHANGED <<backup, index, todo, rc, failed>>
    BY <1>3 DEF Quit, NothingToCopy, SessionInv
  <2>2. ~failed => Entries(todo) \subseteq {Foreign}
    BY <1>0, <2>1 DEF BaseInv, ListInv, Entries
  <2> QED BY <2>1, <2>2 DEF SessionInv
<1>4. CASE Take
  BY <1>4 DEF Take, SessionInv
<1>5. CASE PollAborts
  BY <1>5 DEF PollAborts, SessionInv
<1>6. CASE CopyFile
  <2>1. pc = "file" /\ ((pc' = "next" /\ rc' = rc) \/ (pc' = "cleanup" /\ rc' = "error"))
    BY <1>6 DEF CopyFile
  <2> QED BY <2>1 DEF SessionInv
<1>7. CASE OpenDir
  <2>1. pc = "opendir" /\ ((pc' = "mkdir" /\ rc' = rc) \/ (pc' = "cleanup" /\ rc' = "error"))
    BY <1>7 DEF OpenDir
  <2> QED BY <2>1 DEF SessionInv
<1>8. CASE MakeDir
  <2>1. /\ pc = "mkdir"
        /\ \/ pc' \in {"crashed", "list"} /\ rc' = rc
           \/ pc' = "cleanup" /\ rc' = "error"
    BY <1>8 DEF MakeDir, AfterMkdir
  <2> QED BY <2>1 DEF SessionInv
<1>9. CASE List
  BY <1>9 DEF List, SessionInv
<1>10. CASE Cleanup
  <2>1. pc = "cleanup" /\ UNCHANGED <<backup, rc, failed>>
    BY <1>10 DEF Cleanup
  <2>2. /\ Entries(todo') \cap All = {}
        /\ \/ pc' = "start" /\ rc = "ok"
           \/ pc' = "stop" /\ UNCHANGED index /\ (rc # "ok" \/ index = Sources)
    BY <1>0, <1>10, CleanupIs DEF BaseInv
  <2> QED BY <2>1, <2>2 DEF SessionInv
<1>11. ASSUME NEW t \in Threads, AppStep(t) PROVE SessionInv'
  <2>1. /\ UNCHANGED <<pc, index, rc>> /\ (failed => failed')
        /\ UNCHANGED todo \/ (todo' = Append(todo, Foreign) /\ InSession)
        /\ ~InSession => UNCHANGED backup
    BY <1>11, AppStepIs DEF copierVars
  <2>2. Entries(todo') \subseteq Entries(todo) \cup {Foreign}
    <3>1. CASE todo' = Append(todo, Foreign)
      BY <1>0, <3>1, ListFacts, AppendedEntries
    <3> QED BY <2>1, <3>1
  <2>3. pc = "none" => UNCHANGED backup
    BY <2>1 DEF InSession
  <2> QED BY <1>0, <2>1, <2>2, <2>3 DEF SessionInv
<1> QED BY <1>1, <1>2, <1>3, <1>4, <1>5, <1>6, <1>7, <1>8, <1>9, <1>10, <1>11
     DEF Next, CopierStep

LEMMA CrashIsKept ==
  ASSUME BaseInv, SessionInv, CrashInv, Next
  PROVE  CrashInv'
<1>0. /\ todo \in Seq(Items) /\ Len(todo) \in Nat /\ known \in Nat
      /\ failed \in BOOLEAN /\ removed \in BOOLEAN
      /\ Null # Foreign /\ Root # Null /\ Root # Foreign
      /\ index \in Pairs /\ index \in Nat /\ index >= 1
      /\ pc \notin {"closed", "crashed"}
  BY ListFacts, NamesAreStrings, CopierTreeAssumption
  DEF BaseInv, CopierTypes, OtherTypes, Pairs, Next
<1>1. CASE OpenSession \/ CountRest \/ Quit \/ PollAborts \/ CloseSession
  <2>1. /\ UNCHANGED <<index, todo, failed, touched, removed, grown>>
        /\ pc' \in {"start", "loop", "cleanup", "closed"}
        /\ pc' # "closed" => pc # "stop"
    BY <1>1 DEF OpenSession, CountRest, Quit, PollAborts, CloseSession, historyVars
  <2> QED BY <1>0, <2>1 DEF CrashInv, RenamedBefore
<1>2. CASE StartDirectory
  <2>1. /\ pc = "start" /\ pc' = "loop"
        /\ UNCHANGED <<index, failed, touched, removed, grown>>
    BY <1>2 DEF StartDirectory, historyVars
  <2>2. Entries(todo') = Entries(todo) \cup {Root}
    BY <1>2, StartDirectoryIs DEF BaseInv
  <2> QED BY <1>0, <2>1, <2>2 DEF CrashInv, RenamedBefore
<1>3. CASE Take
  <2>1. /\ pc = "loop" /\ ~failed
        /\ UNCHANGED <<index, failed, touched, removed, grown>>
    BY <1>3 DEF Take, historyVars
  <2>2. \/ pc' = "crashed" /\ Null \in Entries(todo) /\ UNCHANGED todo
        \/ pc' = "entry" /\ Entries(todo') \subseteq Entries(todo)
    BY <1>3, TakeIs
  <2> QED BY <1>0, <2>1, <2>2 DEF CrashInv, RenamedBefore
<1>4. CASE Stat
  <2>0. pc = "entry" /\ UNCHANGED <<tree, index, todo, entry, failed, touched, removed, grown>>
    BY <1>4 DEF Stat, historyVars
  <2>1. /\ pc' \in {"next", "file", "opendir"}
        /\ pc' = "opendir" => tree[index][entry] = "dir"
    <3>1. entry # Null /\ entry \in Items /\ SourcesInv
      BY <1>4 DEF Stat, BaseInv, CopierTypes, VisitInv
    <3>2. entry \in All => tree[index][entry] \in {"none", "file", "dir"}
      BY <1>0, <3>1 DEF SourcesInv
    <3> QED BY <1>4, <3>1, <3>2 DEF Stat, Items
  <2> QED BY <1>0, <2>0, <2>1 DEF CrashInv, RenamedBefore
<1>5. CASE CopyFile
  <2>1. /\ UNCHANGED <<index, todo, failed, touched, removed, grown>>
        /\ pc' \in {"next", "cleanup"} /\ pc = "file"
    BY <1>5 DEF CopyFile, historyVars
  <2> QED BY <1>0, <2>1 DEF CrashInv, RenamedBefore
<1>6. CASE OpenDir
  <2>1. /\ UNCHANGED <<index, todo, entry, failed, touched, removed, grown>>
        /\ pc = "opendir" /\ pc' \in {"mkdir", "cleanup"}
        /\ pc' = "mkdir" => \/ tree[index][entry] = "none"
                            \/ listed' = {n \in Children(entry) : tree[index][n] # "none"}
    BY <1>6 DEF OpenDir, historyVars
  <2>2. listed' = {n \in Children(entry) : tree[index][n] # "none"} => listed' # NoDir
    BY NamesAreStrings DEF NoDir, Children
  <2>3. pc' = "mkdir" /\ listed' = NoDir => removed
    BY <2>1, <2>2 DEF CrashInv
  <2> QED BY <1>0, <2>1, <2>3 DEF CrashInv, RenamedBefore
<1>7. CASE MakeDir
  <2>1. /\ UNCHANGED <<index, todo, failed, touched, removed, grown>>
        /\ pc = "mkdir" /\ pc' \in {"crashed", "list", "cleanup"}
        /\ pc' = "crashed" => listed = NoDir
    BY <1>7 DEF MakeDir, AfterMkdir, historyVars
  <2> QED BY <1>0, <2>1 DEF CrashInv, RenamedBefore
<1>8. CASE List
  <2>1. /\ UNCHANGED <<index, failed, touched, removed, grown>>
        /\ pc = "list" /\ pc' = "next"
    BY <1>8 DEF List, historyVars
  <2>2. Entries(todo') \subseteq Entries(todo) \cup Names
    BY <1>8, ListIs DEF Children
  <2>3. Null \notin Names /\ Foreign \notin Names
    BY NamesAreStrings
  <2> QED BY <1>0, <2>1, <2>2, <2>3 DEF CrashInv, RenamedBefore
<1>9. CASE Cleanup
  <2>1. UNCHANGED <<failed, touched, removed, grown>> /\ pc = "cleanup"
    BY <1>9 DEF Cleanup, historyVars
  <2>2. /\ Entries(todo') \subseteq {Null}
        /\ Entries(todo') # {} => Entries(todo) # {}
        /\ \/ pc' = "start" /\ rc = "ok" /\ index' = index + 1
           \/ pc' = "stop"
    BY <1>9, CleanupIs
  <2>3. pc' = "start" /\ Null \in Entries(todo') /\ ~failed' => RenamedBefore'
    <3> SUFFICES ASSUME pc' = "start", Null \in Entries(todo'), ~failed
                 PROVE  touched # {} /\ index' > 1
      BY <2>1 DEF RenamedBefore
    <3>1. Entries(todo) # {} /\ Entries(todo) \subseteq {Foreign}
      BY <2>1, <2>2 DEF SessionInv
    <3> QED BY <1>0, <2>2, <3>1 DEF CrashInv
  <2> QED BY <1>0, <2>1, <2>2, <2>3 DEF CrashInv
<1>10. ASSUME NEW t \in Threads, AppStep(t) PROVE CrashInv'
  <2>1. /\ UNCHANGED <<pc, index, entry, listed>> /\ (failed => failed')
        /\ \/ UNCHANGED todo
           \/ todo' = Append(todo, Foreign) /\ InCall(t, "rename")
    BY <1>10, AppStepIs DEF copierVars
  <2>2. touched \subseteq touched' /\ (removed => removed') /\ (grown => grown')
    BY <1>10, HistoryIs
  <2>3. /\ Entries(todo') \subseteq Entries(todo) \cup {Foreign}
        /\ Foreign \in Entries(todo') => touched # {} /\ grown
    <3>1. CASE todo' = Append(todo, Foreign) /\ InCall(t, "rename")
      <4>1. Entries(todo') = Entries(todo) \cup {Foreign}
        BY <1>0, <3>1, ListFacts, AppendedEntries
      <4>2. /\ grown
            /\ \A n \in Below(call[t].name) \cup Below(call[t].new) :
                   <<call[t].at, n>> \in touched
        BY <3>1, CallInvNow DEF BaseInv
      <4>3. call[t].name \in Names
        BY <3>1, PendingCalls DEF BaseInv, OtherTypes
      <4>4. call[t].name \in Below(call[t].name)
        BY <4>3, NamesAreStrings, PrefixIsReflexive DEF Below
      <4> QED BY <4>1, <4>2, <4>4
    <3> QED BY <2>1, <3>1 DEF CrashInv
  <2>4. pc = "opendir" => tree'[index][entry] = "dir" \/ removed'
    <3>1. pc = "opendir" => entry \in All
      BY DEF BaseInv, VisitInv
    <3> QED BY <1>0, <1>10, <2>2, <3>1, DirectoriesStay DEF CrashInv
  <2> QED BY <1>0, <2>1, <2>2, <2>3, <2>4 DEF CrashInv, RenamedBefore
<1> QED BY <1>1, <1>2, <1>3, <1>4, <1>5, <1>6, <1>7, <1>8, <1>9, <1>10
     DEF Next, CopierStep

WalkInv == BaseInv /\ SessionInv /\ CrashInv

LEMMA WalkInvHolds == Spec => []WalkInv
<1>1. Init => SessionInv /\ CrashInv
  <2> SUFFICES ASSUME Init PROVE SessionInv /\ CrashInv
    OBVIOUS
  <2>1. \A i \in Pairs, p \in Names : backup[i][p] = "none"
    BY NamesAreStrings DEF Init
  <2>2. Entries(todo) = {}
    <3>1. todo = <<>> /\ Len(<<>>) = 0
      BY EmptySeq DEF Init
    <3> QED BY <3>1 DEF Entries
  <2> QED BY <2>1, <2>2 DEF Init, SessionInv, CrashInv
<1>2. BaseInv /\ SessionInv /\ CrashInv /\ [Next]_vars => SessionInv' /\ CrashInv'
  <2>1. ASSUME SessionInv, CrashInv, UNCHANGED vars PROVE SessionInv' /\ CrashInv'
    BY <2>1 DEF vars, SessionInv, CrashInv, RenamedBefore
  <2> QED BY <2>1, SessionIsKept, CrashIsKept
<1> QED BY <1>1, <1>2, BaseInvHolds, PTL DEF Spec, WalkInv

(* The copier crashes over a directory that it found and that was gone     *)
(* when it opened it, or over a name that a rename added to its list too   *)
(* late for one pair of directories and that the next one finds freed; and *)
(* over nothing else.                                                      *)
THEOREM CrashNeedsRemovalOrRenameHolds == Spec => []CrashNeedsRemovalOrRename
<1>1. WalkInv => CrashNeedsRemovalOrRename
  BY DEF WalkInv, CrashInv, RenamedBefore, CrashNeedsRemovalOrRename
<1> QED BY <1>1, WalkInvHolds, PTL

----------------------------------------------------------------------------
(*                             Excluded files                              *)

(* exclude_copy() rejects an excluded name by its path in the destination  *)
(* too, and excludes no directory that something is in.                    *)
ExcludedOutright ==
    /\ Excluded \subseteq ExcludedInBackup
    /\ \A p \in Excluded : Children(p) = {}

LEMMA NothingExcludedAbove ==
  ASSUME ExcludedOutright, NEW p \in Names, NEW a \in Ancestors(p)
  PROVE  a \notin Excluded
<1>1. a \in UpTo(p) /\ a \in All /\ a # p
  BY UpToFacts, NamesAreStrings DEF UpTo
<1>2. Children(a) # {}
  BY <1>1, EntryTowards
<1> QED BY <1>2 DEF ExcludedOutright

(* Whoever writes to the backup, it is not to an excluded name. *)
LEMMA ExcludedIsKept ==
  ASSUME ExcludedOutright, BaseInv, ExcludedStayOut, Next
  PROVE  ExcludedStayOut'
<1>0. /\ SourcesInv /\ BackupsInv /\ CallsAreTyped /\ index \in Pairs
      /\ Excluded \subseteq Names /\ Excluded \subseteq All
  BY CopierTreeAssumption, NamesAreStrings DEF BaseInv, CopierTypes, OtherTypes
<1> SUFFICES ASSUME NEW j \in Pairs, NEW x \in Excluded, <<j, x>> \notin touched'
             PROVE  backup'[j][x] = "none"
  BY DEF ExcludedStayOut
<1>1. <<j, x>> \notin touched => backup[j][x] = "none"
  BY DEF ExcludedStayOut
<1>2. CASE CopierStep
  <2>1. UNCHANGED touched
    BY <1>2 DEF CopierStep, OpenSession, StartDirectory, Quit, Take, PollAborts, Stat,
         CopyFile, OpenDir, MakeDir, List, CountRest, Cleanup, CloseSession, historyVars
  <2>2. CASE CopyFile
    <3>1. entry \in All \ Excluded
      BY <2>2 DEF BaseInv, VisitInv, CopyFile
    <3>2. backup'[j][x] = backup[j][x]
      BY <1>0, <2>2, <3>1, CopyFileIs
    <3> QED BY <1>1, <2>1, <3>2
  <2>3. CASE MakeDir
    <3>1. entry \in All \ Excluded
      BY <2>3 DEF BaseInv, VisitInv, MakeDir
    <3>2. backup'[j][x] = backup[j][x]
      BY <1>0, <2>3, <3>1, MakeDirIs
    <3> QED BY <1>1, <2>1, <3>2
  <2>4. CASE ~CopyFile /\ ~MakeDir
    <3>1. UNCHANGED backup
      BY <1>2, <2>4 DEF CopierStep, OpenSession, StartDirectory, Quit, Take, PollAborts,
           Stat, OpenDir, List, CountRest, Cleanup, CloseSession
    <3> QED BY <1>1, <2>1, <3>1
  <2> QED BY <2>2, <2>3, <2>4
<1>3. ASSUME NEW t \in Threads, AppStep(t) PROVE backup'[j][x] = "none"
  <2>0. <<j, x>> \notin touched
    BY <1>3, HistoryIs
  <2>1. CASE \/ \E i \in Pairs, p \in Names :
                  Open(t, i, p) \/ Mkdir(t, i, p) \/ Rmdir(t, i, p) \/ Unlink(t, i, p)
             \/ \E i \in Pairs, p, q \in Names : Rename(t, i, p, q)
    <3>1. UNCHANGED backup
      BY <2>1 DEF Open, Mkdir, Rmdir, Unlink, Rename
    <3> QED BY <1>1, <2>0, <3>1
  <2>2. CASE OpenCapture(t)
    <3> DEFINE i == call[t].at
               p == call[t].name
    <3>1. i \in Pairs /\ p \in Names
      BY <1>0, <2>2, PendingCalls DEF OpenCapture
    <3>2. \/ backup'[j][x] = backup[j][x]
          \/ x = p /\ p \notin ExcludedInBackup
          \/ x \in Ancestors(p)
      BY <1>0, <2>2, OpenCaptureIs
    <3> HIDE DEF i, p
    <3> QED BY <1>1, <2>0, <3>1, <3>2, NothingExcludedAbove DEF ExcludedOutright
  <2>3. CASE MkdirCapture(t)
    <3> DEFINE p == call[t].name
    <3>1. p \in Names
      BY <1>0, <2>3, PendingCalls DEF MkdirCapture
    <3>2. backup'[j][x] = backup[j][x] \/ x \in Ancestors(p)
      BY <1>0, <2>3, MkdirCaptureIs
    <3> HIDE DEF p
    <3> QED BY <1>1, <2>0, <3>1, <3>2, NothingExcludedAbove
  <2>4. CASE UnlinkCapture(t)
    <3>1. backup'[j][x] = backup[j][x] \/ backup'[j][x] = "none"
      BY <1>0, <2>4, UnlinkCaptureIs
    <3> QED BY <1>1, <2>0, <3>1
  <2>5. CASE RenameCapture(t)
    <3> DEFINE i == call[t].at
               p == call[t].name
               q == call[t].new
    <3>1. /\ ~IsPrefix(p, q) /\ ~IsPrefix(q, p)
          /\ \A n \in Below(p) \cup Below(q) : <<i, n>> \in touched
      BY <2>5, CallInvNow DEF RenameCapture, BaseInv
    <3>2. BackupChangesAt(i, Below(p) \cup Below(q))
      BY <1>0, <2>5, <3>1, RenameCaptureIs
    <3> HIDE DEF i, p, q
    <3> QED BY <1>0, <1>1, <2>0, <3>1, <3>2 DEF BackupChangesAt
  <2> QED BY <1>3, <2>1, <2>2, <2>3, <2>4, <2>5 DEF AppStep
<1> QED BY <1>2, <1>3 DEF Next

(* No step of copier or application puts an excluded file in the backup,   *)
(* whichever of them comes to it first and in whatever order: if open      *)
(* excludes what the copier excludes, and no directory is excluded that    *)
(* has something in it, for then the directories above a captured file     *)
(* would be made.                                                          *)
THEOREM ExcludedStayOutHolds == ExcludedOutright /\ Spec => []ExcludedStayOut
<1>1. Init => ExcludedStayOut
  BY CopierTreeAssumption, NamesAreStrings DEF Init, ExcludedStayOut
<1>2. ExcludedOutright /\ BaseInv /\ ExcludedStayOut /\ [Next]_vars => ExcludedStayOut'
  <2>1. ASSUME ExcludedStayOut, UNCHANGED vars PROVE ExcludedStayOut'
    BY <2>1 DEF vars, ExcludedStayOut
  <2> QED BY <2>1, ExcludedIsKept
<1>3. ASSUME ExcludedOutright PROVE Spec => []ExcludedStayOut
  <2>1. BaseInv /\ ExcludedStayOut /\ [Next]_vars => ExcludedStayOut'
    BY <1>2, <1>3
  <2> QED BY <1>1, <2>1, BaseInvHolds, PTL DEF Spec
<1> QED BY <1>3

----------------------------------------------------------------------------
(*                   What the backup has, and will have                    *)

(* No error so far. *)
Healthy == ~failed /\ rc = "ok" /\ pc # "crashed"

(* Not touched and not excluded, nor in a directory that is. *)
Free(i, p) ==
    /\ <<i, p>> \notin touched
    /\ UpTo(p) \cap (Excluded \cup ExcludedInBackup) = {}

(* The source has a new file, or no longer has one, and the backup is yet  *)
(* to follow.                                                              *)
OpenPending(i, p) ==
    \E t \in Threads : /\ InCall(t, "open") /\ call[t].at = i
                       /\ call[t].name = p /\ call[t].fresh

UnlinkPending(i, p) ==
    \E t \in Threads : InCall(t, "unlink") /\ call[t].at = i /\ call[t].name = p

(* The copier will come to p, if it is there then: it, or a directory that *)
(* it is in, is to be looked at.                                           *)
Covered(i, p) ==
    \/ i > index
    \/ /\ i = index
       /\ \/ pc \in {"none", "start"}
          \/ Entries(todo) \cap UpTo(p) # {}
          \/ pc \in {"entry", "opendir"} /\ entry \in UpTo(p)
          \/ pc = "file" /\ entry = p
          \/ pc \in {"mkdir", "list"} /\ listed \cap UpTo(p) # {}

(* The directory that the copier is about to make. *)
ToBeMade(i, p) == pc = "mkdir" /\ i = index /\ entry = p

FileOk(i, p) ==
    tree[i][p] = "file" =>
      \/ Covered(i, p) \/ backup[i][p] = "file"
      \/ OpenPending(i, p) /\ backup[i][p] # "part"

(* The backup has no file that the source has not, here or where one of    *)
(* the directories above should be.                                        *)
ClearOk(i, p) ==
    \A a \in UpTo(p) \ {Root} :
      backup[i][a] \in {"file", "part"} =>
        tree[i][a] = "file" \/ UnlinkPending(i, a)

DirOk(i, p) ==
    tree[i][p] = "dir" =>
      /\ Covered(i, p) \/ backup[i][p] = "dir" \/ ToBeMade(i, p)
      /\ backup[i][p] \notin {"file", "part"}

Kept(i, p) == FileOk(i, p) /\ ClearOk(i, p) /\ (removed \/ DirOk(i, p))

BackupInv ==
    Healthy => \A i \in Pairs, p \in Names : Free(i, p) => Kept(i, p)

(* Nothing is put right again in a session, and no name is untouched.      *)
LEMMA HealthIsLost ==
  ASSUME WalkInv, Next, Healthy'
  PROVE  Healthy /\ (removed => removed') /\ touched \subseteq touched'
<1>1. /\ failed \in BOOLEAN /\ removed \in BOOLEAN
      /\ pc \notin {"closed", "crashed"} /\ ~failed' /\ rc' = "ok"
  BY DEF WalkInv, BaseInv, CopierTypes, OtherTypes, Next, Healthy
<1>2. CASE CopierStep
  <2>1. UNCHANGED <<failed, touched, removed>>
    BY <1>2 DEF CopierStep, OpenSession, StartDirectory, Quit, Take, PollAborts, Stat,
         CopyFile, OpenDir, MakeDir, List, CountRest, Cleanup, CloseSession, historyVars
  <2>2. rc' = rc \/ rc' = "error" \/ rc' = "aborted"
    BY <1>2 DEF CopierStep, OpenSession, StartDirectory, Quit, Take, PollAborts, Stat,
         CopyFile, OpenDir, MakeDir, List, CountRest, Cleanup, CloseSession
  <2> QED BY <1>1, <2>1, <2>2 DEF Healthy
<1>3. ASSUME NEW t \in Threads, AppStep(t)
      PROVE  Healthy /\ (removed => removed') /\ touched \subseteq touched'
  BY <1>1, <1>3, AppStepIs, HistoryIs DEF WalkInv, copierVars, Healthy
<1> QED BY <1>2, <1>3 DEF Next

(* The copier forgets nothing that is in the source. *)
LEMMA CoverageIsKept ==
  ASSUME WalkInv, CopierStep, Healthy, Healthy',
         NEW i \in Pairs, NEW p \in Names, Free(i, p), tree[i][p] # "none",
         Covered(i, p)
  PROVE  \/ Covered(i, p)'
         \/ CopyFile /\ i = index /\ entry = p
         \/ OpenDir /\ ToBeMade(i, p)' /\ tree[i][p] = "dir"
<1>0. /\ BaseInv /\ index \in Nat /\ i \in Nat /\ index \in Pairs
      /\ todo \in Seq(Items) /\ p \in All /\ FileSystem(tree[i])
      /\ UpTo(p) \subseteq All /\ Null \notin All /\ Foreign \notin All
      /\ Root \in UpTo(p) /\ p \in UpTo(p) /\ UpTo(p) \cap Excluded = {}
  BY NamesAreStrings, UpToIs, CopierTreeAssumption
  DEF WalkInv, BaseInv, CopierTypes, SourcesInv, Pairs, Free
<1>1. CASE i > index /\ ~Cleanup
  <2>1. index' = index
    BY <1>1 DEF CopierStep, OpenSession, StartDirectory, Quit, Take, PollAborts, Stat,
         CopyFile, OpenDir, MakeDir, List, CountRest, CloseSession
  <2> QED BY <1>1, <2>1 DEF Covered
<1>2. CASE Cleanup
  <2>1. i > index
    <3>1. pc = "cleanup" /\ Entries(todo) \subseteq {Foreign}
      BY <1>2 DEF Cleanup, WalkInv, SessionInv, Healthy
    <3> QED BY <1>0, <3>1 DEF Covered
  <2>2. \/ index' = index + 1 /\ pc' = "start"
        \/ index' = index /\ index = Sources
    BY <1>0, <1>2, CleanupIs DEF Healthy
  <2>3. ~(i > Sources)
    BY CopierTreeAssumption DEF Pairs
  <2>4. index' = index + 1 /\ pc' = "start"
    BY <2>1, <2>2, <2>3
  <2>5. i > index' \/ i = index'
    BY <1>0, <2>1, <2>4
  <2> QED BY <2>4, <2>5 DEF Covered
<1>3. CASE i = index /\ (OpenSession \/ Quit \/ PollAborts \/ CountRest \/ CloseSession)
  BY <1>3 DEF Covered, OpenSession, Quit, PollAborts, CountRest, CloseSession
<1>4. CASE i = index /\ StartDirectory
  <2>1. Root \in Entries(todo')
    BY <1>0, <1>4, StartDirectoryIs
  <2> QED BY <1>0, <1>4, <2>1 DEF Covered, StartDirectory
<1>5. CASE i = index /\ Take
  <2>1. pc = "loop" /\ index' = index
    BY <1>5 DEF Take
  <2>2. pc' = "entry" /\ Entries(todo) = {entry'} \cup Entries(todo')
    BY <1>0, <1>5, TakeIs DEF Healthy
  <2> QED BY <1>5, <2>1, <2>2 DEF Covered
<1>6. CASE i = index /\ Stat
  <2>1. pc = "entry" /\ UNCHANGED <<index, todo, entry>>
    BY <1>6 DEF Stat
  <2>2. CASE Entries(todo) \cap UpTo(p) # {}
    BY <1>6, <2>1, <2>2 DEF Covered
  <2>3. CASE entry \in UpTo(p)
    <3>1. entry \in All /\ entry # Foreign /\ entry \notin Excluded
      BY <1>0, <2>3
    <3>2. tree[i][entry] # "none" /\ (entry # p => tree[i][entry] = "dir")
      BY <1>0, <2>3, InDirectories
    <3>3. tree[i][entry] \in {"none", "file", "dir"}
      BY <1>0, <3>1 DEF BaseInv, SourcesInv
    <3>4. \/ pc' = "file" /\ entry = p
          \/ pc' = "opendir"
      BY <1>6, <3>1, <3>2, <3>3 DEF Stat
    <3> QED BY <1>6, <2>1, <2>3, <3>4 DEF Covered
  <2> QED BY <1>6, <2>1, <2>2, <2>3 DEF Covered
<1>7. CASE i = index /\ CopyFile
  <2>1. pc = "file" /\ UNCHANGED <<index, todo>>
    BY <1>7 DEF CopyFile
  <2> QED BY <1>7, <2>1 DEF Covered
<1>8. CASE i = index /\ OpenDir
  <2>1. pc = "opendir" /\ UNCHANGED <<index, todo, entry>>
    BY <1>8 DEF OpenDir
  <2>2. CASE Entries(todo) \cap UpTo(p) # {}
    BY <1>8, <2>1, <2>2 DEF Covered
  <2>3. CASE entry \in UpTo(p)
    <3>1. entry \in All /\ rc' # "error"
      BY <1>0, <2>3 DEF Healthy
    <3>2. tree[i][entry] # "none" /\ (entry # p => tree[i][entry] = "dir")
      BY <1>0, <2>3, InDirectories
    <3>3. /\ pc' = "mkdir"
          /\ listed' = {n \in Children(entry) : tree[index][n] # "none"}
      BY <1>8, <3>1, <3>2 DEF OpenDir
    <3>4. CASE entry = p
      <4>1. tree[i][p] = "dir"
        <5>1. tree[i][p] \in {"none", "file", "dir"} /\ tree[i][p] # "file"
          BY <1>0, <1>8, <3>1, <3>4 DEF BaseInv, SourcesInv, OpenDir
        <5> QED BY <5>1
      <4> QED BY <1>8, <2>1, <3>3, <3>4, <4>1 DEF ToBeMade
    <3>5. CASE entry # p
      <4>1. PICK b \in Children(entry) : b \in UpTo(p)
        BY <1>0, <2>3, <3>1, <3>5, EntryTowards
      <4>2. tree[i][b] # "none"
        BY <1>0, <4>1, InDirectories
      <4> QED BY <1>8, <2>1, <3>3, <4>1, <4>2 DEF Covered
    <3> QED BY <3>4, <3>5
  <2> QED BY <1>8, <2>1, <2>2, <2>3 DEF Covered
<1>9. CASE i = index /\ MakeDir
  <2>1. /\ pc = "mkdir" /\ UNCHANGED <<index, todo, listed>>
        /\ pc' = "list"
    BY <1>9 DEF MakeDir, AfterMkdir, Healthy
  <2> QED BY <1>9, <2>1 DEF Covered
<1>10. CASE i = index /\ List
  <2>1. pc = "list" /\ index' = index /\ ~failed
    BY <1>10 DEF List, Healthy
  <2>2. PICK s \in Seq(Items) :
          /\ \A n \in listed : tree[index][n] # "none" => n \in Entries(s)
          /\ Entries(todo') = Entries(todo) \cup Entries(s)
    BY <1>0, <1>10, <2>1, ListIs
  <2>3. CASE Entries(todo) \cap UpTo(p) # {}
    BY <1>10, <2>1, <2>2, <2>3 DEF Covered
  <2>4. CASE listed \cap UpTo(p) # {}
    <3>1. PICK b \in listed : b \in UpTo(p)
      BY <2>4
    <3>2. tree[i][b] # "none"
      BY <1>0, <3>1, InDirectories
    <3> QED BY <1>10, <2>1, <2>2, <3>1, <3>2 DEF Covered
  <2> QED BY <1>10, <2>1, <2>3, <2>4 DEF Covered
<1>11. i > index \/ i = index
  BY DEF Covered
<1> QED BY <1>1, <1>2, <1>3, <1>4, <1>5, <1>6, <1>7, <1>8, <1>9, <1>10, <1>11
     DEF CopierStep

(* What a proof that a name is kept by a step starts from. *)
Before(i, p) ==
    /\ WalkInv /\ Healthy /\ Healthy' /\ Free(i, p) /\ Free(i, p)' /\ Kept(i, p)
    /\ pc \notin {"closed", "crashed"}

LEMMA KeptByCopier ==
  ASSUME NEW i \in Pairs, NEW p \in Names, Before(i, p), CopierStep
  PROVE  Kept(i, p)'
<1>0. /\ WalkInv /\ BaseInv /\ SourcesInv /\ BackupsInv /\ index \in Pairs
      /\ Healthy /\ Healthy' /\ rc' = "ok" /\ Free(i, p) /\ Kept(i, p)
      /\ p \in All /\ UpTo(p) \subseteq All /\ p \in UpTo(p)
  BY UpToIs, NamesAreStrings DEF Before, Healthy, WalkInv, BaseInv, CopierTypes
<1>1. UNCHANGED <<tree, call, touched, removed>>
  BY DEF CopierStep, OpenSession, StartDirectory, Quit, Take, PollAborts, Stat,
       CopyFile, OpenDir, MakeDir, List, CountRest, Cleanup, CloseSession, historyVars
<1>2. /\ OpenPending(i, p)' <=> OpenPending(i, p)
      /\ \A a \in All : UnlinkPending(i, a)' <=> UnlinkPending(i, a)
  BY <1>1 DEF OpenPending, UnlinkPending, InCall
<1>3. tree[i][p] # "none" /\ Covered(i, p) =>
        \/ Covered(i, p)'
        \/ CopyFile /\ i = index /\ entry = p
        \/ OpenDir /\ ToBeMade(i, p)' /\ tree[i][p] = "dir"
  BY <1>0, CoverageIsKept
<1>4. CASE CopyFile
  <2>1. pc = "file" /\ pc' # "mkdir" /\ entry \in All
    BY <1>4 DEF CopyFile, BaseInv, VisitInv, WalkInv, Before
  <2>2. /\ \A n \in All :
              \/ backup'[i][n] = backup[i][n]
              \/ i = index /\ n = entry /\ tree[i][n] # "none"
        /\ tree[index][entry] # "dir"
        /\ tree[index][entry] = "file" => backup'[index][entry] = "file"
    BY <1>0, <1>4, <2>1, CopyFileIs
  <2>3. \A a \in All : tree[i][a] \in {"none", "file", "dir"}
    BY <1>0 DEF SourcesInv
  <2>4. FileOk(i, p)'
    BY <1>0, <1>1, <1>2, <1>3, <1>4, <2>1, <2>2 DEF Kept, FileOk, OpenDir
  <2>5. ClearOk(i, p)'
    BY <1>0, <1>1, <1>2, <2>2, <2>3 DEF Kept, ClearOk
  <2>6. removed \/ DirOk(i, p)'
    BY <1>0, <1>1, <1>3, <1>4, <2>1, <2>2 DEF Kept, DirOk, ToBeMade, OpenDir
  <2> QED BY <1>1, <2>4, <2>5, <2>6 DEF Kept
<1>5. CASE MakeDir
  <2>1. pc = "mkdir" /\ entry \in All
    BY <1>5 DEF MakeDir, BaseInv, VisitInv, WalkInv, Before
  <2>2. /\ \A n \in All :
              \/ backup'[i][n] = backup[i][n]
              \/ backup[i][n] = "none" /\ backup'[i][n] = "dir"
        /\ backup'[index][entry] # "none"
    BY <1>0, <1>5, <2>1, MakeDirIs
  <2>3. backup'[i][p] \in Kinds
    BY <1>0, <1>5, <2>1, MakeDirIs DEF BackupsInv
  <2>4. FileOk(i, p)'
    BY <1>0, <1>1, <1>2, <1>3, <1>5, <2>1, <2>2 DEF Kept, FileOk, OpenDir, CopyFile
  <2>5. ClearOk(i, p)'
    BY <1>0, <1>1, <1>2, <2>2 DEF Kept, ClearOk
  <2>6. removed \/ DirOk(i, p)'
    <3>1. CASE Covered(i, p) \/ backup[i][p] = "dir"
      BY <1>0, <1>1, <1>3, <1>5, <2>1, <2>2, <3>1 DEF Kept, DirOk, OpenDir, CopyFile
    <3>2. CASE ToBeMade(i, p)
      <4>1. backup'[i][p] # "none"
        BY <2>2, <3>2 DEF ToBeMade
      <4> QED BY <1>0, <1>1, <2>2, <2>3, <3>2, <4>1 DEF Kept, DirOk, Kinds
    <3> QED BY <1>0, <1>1, <2>2, <3>1, <3>2 DEF Kept, DirOk
  <2> QED BY <1>1, <2>4, <2>5, <2>6 DEF Kept
<1>6. CASE ~CopyFile /\ ~MakeDir
  <2>1. UNCHANGED backup
    BY <1>6 DEF CopierStep, OpenSession, StartDirectory, Quit, Take, PollAborts,
         Stat, OpenDir, List, CountRest, Cleanup, CloseSession
  <2>2. ToBeMade(i, p) => ToBeMade(i, p)'
    <3>1. pc # "mkdir"
      BY <1>6 DEF CopierStep, OpenSession, StartDirectory, Quit, Take, PollAborts,
           Stat, OpenDir, List, CountRest, Cleanup, CloseSession
    <3> QED BY <3>1 DEF ToBeMade
  <2>3. FileOk(i, p)'
    BY <1>0, <1>1, <1>2, <1>3, <1>6, <2>1 DEF Kept, FileOk
  <2>4. ClearOk(i, p)'
    BY <1>0, <1>1, <1>2, <2>1 DEF Kept, ClearOk
  <2>5. removed \/ DirOk(i, p)'
    BY <1>0, <1>1, <1>3, <1>6, <2>1, <2>2 DEF Kept, DirOk
  <2> QED BY <1>1, <2>3, <2>4, <2>5 DEF Kept
<1> QED BY <1>4, <1>5, <1>6

(* The application only adds to the list. *)
LEMMA AppKeepsCoverage ==
  ASSUME BaseInv, NEW t \in Threads, AppStep(t), NEW i \in Pairs, NEW p \in Names
  PROVE  /\ Covered(i, p) => Covered(i, p)'
         /\ ToBeMade(i, p) => ToBeMade(i, p)'
         /\ removed => removed'
<1>1. /\ UNCHANGED <<pc, index, entry, listed>>
      /\ UNCHANGED todo \/ todo' = Append(todo, Foreign)
  BY AppStepIs DEF copierVars
<1>2. Entries(todo) \subseteq Entries(todo')
  <2>1. todo \in Seq(Items) /\ Foreign \in Items
    BY ListFacts DEF BaseInv, CopierTypes
  <2>2. CASE todo' = Append(todo, Foreign)
    BY <2>1, <2>2, AppendedEntries
  <2> QED BY <1>1, <2>2
<1> QED BY <1>1, <1>2, HistoryIs DEF Covered, ToBeMade

(* Before a file operation begins none is pending, and while one is no     *)
(* other is.                                                               *)
LEMMA NonePending ==
  ASSUME NEW t \in Threads, NEW op \in FileOps, Begin(t, op)
  PROVE  \A i, a : ~OpenPending(i, a) /\ ~UnlinkPending(i, a)
  BY DEF Begin, OpenPending, UnlinkPending, InCall, FileOps

LEMMA OnlyOnePending ==
  ASSUME CallInv, NEW t \in Threads, call[t].op \in FileOps
  PROVE  \A i, a :
           /\ OpenPending(i, a) => /\ InCall(t, "open") /\ call[t].at = i
                                   /\ call[t].name = a /\ call[t].fresh
           /\ UnlinkPending(i, a) => /\ InCall(t, "unlink") /\ call[t].at = i
                                     /\ call[t].name = a
  BY CallInvNow DEF OpenPending, UnlinkPending, InCall, FileOps

LEMMA StillPending ==
  ASSUME NEW t \in Threads, \A u \in Threads : u # t => call'[u] = call[u],
         call[t].op \notin {"open", "unlink"}
  PROVE  \A i, a : /\ OpenPending(i, a) => OpenPending(i, a)'
                   /\ UnlinkPending(i, a) => UnlinkPending(i, a)'
  BY DEF OpenPending, UnlinkPending, InCall

(* What each proof below has. *)
LEMMA BeforeFacts ==
  ASSUME NEW i \in Pairs, NEW p \in Names, Before(i, p)
  PROVE  /\ WalkInv /\ BaseInv /\ SessionInv /\ SourcesInv /\ BackupsInv
         /\ CallsAreTyped /\ CallInv /\ index \in Pairs /\ ~failed /\ ~failed'
         /\ FileOk(i, p) /\ ClearOk(i, p) /\ (removed \/ DirOk(i, p))
         /\ Free(i, p) /\ Free(i, p)'
         /\ p \in All /\ p # Root /\ UpTo(p) \subseteq All /\ p \in UpTo(p)
         /\ Null \notin All /\ Foreign \notin All
         /\ \A a \in UpTo(p) : a \notin Excluded /\ a \notin ExcludedInBackup
         /\ \A a \in UpTo(p) \ {Root} : a \in Names
  BY UpToIs, NamesAreStrings
  DEF Before, WalkInv, BaseInv, CopierTypes, OtherTypes, Healthy, Kept, Free

LEMMA KeptByOpen ==
  ASSUME NEW i \in Pairs, NEW p \in Names, Before(i, p),
         NEW t \in Threads, NEW k \in Pairs, NEW q \in Names, Open(t, k, q)
  PROVE  Kept(i, p)'
<1>0. AppStep(t)
  BY DEF AppStep
<1>1. /\ TreeChangesAt(k, {q}) /\ tree[k][q] \in {"none", "file"}
      /\ tree'[k][q] = "file"
  BY BeforeFacts, OpenIs
<1>2. Begin(t, "open") /\ UNCHANGED <<backup, removed>>
  BY DEF Open
<1>3. \A j, a : ~OpenPending(j, a) /\ ~UnlinkPending(j, a)
  BY <1>2, NonePending DEF FileOps
<1>4. /\ Covered(i, p) => Covered(i, p)'
      /\ ToBeMade(i, p) => ToBeMade(i, p)'
  BY <1>0, BeforeFacts, AppKeepsCoverage
<1>5. FileOk(i, p)'
  <2>1. CASE i = k /\ p = q /\ tree[k][q] = "none"
    <3>1. OpenPending(i, p)'
      <4> DEFINE r == [op |-> "open", at |-> k, name |-> q,
                       fresh |-> tree[k][q] = "none"]
      <4>1. call'[t] = r
        BY BeforeFacts DEF Open, CallsAreTyped
      <4>2. r.op = "open" /\ r.at = i /\ r.name = p /\ r.fresh
        BY <2>1
      <4> HIDE DEF r
      <4> QED BY <4>1, <4>2 DEF OpenPending, InCall
    <3>2. backup[i][p] # "part"
      BY <1>3, <2>1, BeforeFacts DEF ClearOk
    <3> QED BY <1>2, <3>1, <3>2 DEF FileOk
  <2>2. CASE ~(i = k /\ p = q /\ tree[k][q] = "none")
    <3>1. tree'[i][p] = "file" => tree[i][p] = "file"
      BY <1>1, <2>2, BeforeFacts DEF TreeChangesAt
    <3> QED BY <1>2, <1>3, <1>4, <3>1, BeforeFacts DEF FileOk
  <2> QED BY <2>1, <2>2
<1>6. ClearOk(i, p)'
  BY <1>1, <1>2, <1>3, BeforeFacts DEF ClearOk, TreeChangesAt
<1>7. removed \/ DirOk(i, p)'
  <2>1. tree'[i][p] = "dir" => tree[i][p] = "dir"
    BY <1>1, BeforeFacts DEF TreeChangesAt
  <2> QED BY <1>2, <1>4, <2>1, BeforeFacts DEF DirOk
<1> QED BY <1>2, <1>5, <1>6, <1>7 DEF Kept

LEMMA KeptByMkdir ==
  ASSUME NEW i \in Pairs, NEW p \in Names, Before(i, p),
         NEW t \in Threads, NEW k \in Pairs, NEW q \in Names, Mkdir(t, k, q)
  PROVE  Kept(i, p)'
<1>0. AppStep(t)
  BY DEF AppStep
<1>1. /\ TreeChangesAt(k, {q}) /\ tree[k][q] = "none" /\ tree'[k][q] = "dir"
  BY BeforeFacts, MkdirIs
<1>2. Begin(t, "mkdir") /\ UNCHANGED <<backup, removed, pc, index>>
  BY DEF Mkdir, copierVars
<1>3. \A a : /\ OpenPending(i, a) => OpenPending(i, a)'
             /\ UnlinkPending(i, a) => UnlinkPending(i, a)'
  <2>1. \A u \in Threads : u # t => call'[u] = call[u]
    BY BeforeFacts DEF Mkdir, CallsAreTyped
  <2>2. call[t].op \notin {"open", "unlink"}
    BY <1>2 DEF Begin, Idle
  <2> QED BY <2>1, <2>2, StillPending
<1>4. /\ Covered(i, p) => Covered(i, p)'
      /\ ToBeMade(i, p) => ToBeMade(i, p)'
  BY <1>0, BeforeFacts, AppKeepsCoverage
<1>5. FileOk(i, p)'
  <2>1. tree'[i][p] = "file" => tree[i][p] = "file"
    BY <1>1, BeforeFacts DEF TreeChangesAt
  <2> QED BY <1>2, <1>3, <1>4, <2>1, BeforeFacts DEF FileOk
<1>6. ClearOk(i, p)'
  <2>1. \A a \in All : tree[i][a] = "file" => tree'[i][a] = "file"
    BY <1>1 DEF TreeChangesAt
  <2> QED BY <1>2, <1>3, <2>1, BeforeFacts DEF ClearOk
<1>7. removed \/ DirOk(i, p)'
  <2>1. CASE i = k /\ p = q
    <3>1. pc = "none"
      <4>1. <<i, p>> \notin touched'
        BY BeforeFacts DEF Free
      <4> QED BY <2>1, <4>1 DEF Mkdir
    <3>2. index = 1 /\ backup[i][p] = "none"
      BY <3>1, BeforeFacts DEF SessionInv
    <3>3. i > 1 \/ i = 1
      BY CopierTreeAssumption DEF Pairs
    <3> QED BY <1>2, <3>1, <3>2, <3>3 DEF DirOk, Covered
  <2>2. CASE ~(i = k /\ p = q)
    <3>1. tree'[i][p] = "dir" => tree[i][p] = "dir"
      BY <1>1, <2>2, BeforeFacts DEF TreeChangesAt
    <3> QED BY <1>2, <1>4, <3>1, BeforeFacts DEF DirOk
  <2> QED BY <2>1, <2>2
<1> QED BY <1>2, <1>5, <1>6, <1>7 DEF Kept

LEMMA KeptByRmdir ==
  ASSUME NEW i \in Pairs, NEW p \in Names, Before(i, p),
         NEW t \in Threads, NEW k \in Pairs, NEW q \in Names, Rmdir(t, k, q)
  PROVE  Kept(i, p)'
<1>0. AppStep(t)
  BY DEF AppStep
<1>1. /\ TreeChangesAt(k, {q}) /\ tree[k][q] = "dir" /\ tree'[k][q] = "none"
  BY BeforeFacts, RmdirIs
<1>2. UNCHANGED <<backup, call>>
  BY DEF Rmdir
<1>3. \A a : /\ OpenPending(i, a) <=> OpenPending(i, a)'
             /\ UnlinkPending(i, a) <=> UnlinkPending(i, a)'
  BY <1>2 DEF OpenPending, UnlinkPending, InCall
<1>4. /\ Covered(i, p) => Covered(i, p)'
      /\ ToBeMade(i, p) => ToBeMade(i, p)'
      /\ removed => removed'
  BY <1>0, BeforeFacts, AppKeepsCoverage
<1>5. /\ tree'[i][p] = "file" => tree[i][p] = "file"
      /\ tree'[i][p] = "dir" => tree[i][p] = "dir"
      /\ \A a \in All : tree[i][a] = "file" => tree'[i][a] = "file"
  BY <1>1, BeforeFacts DEF TreeChangesAt
<1>6. FileOk(i, p)'
  BY <1>2, <1>3, <1>4, <1>5, BeforeFacts DEF FileOk
<1>7. ClearOk(i, p)'
  BY <1>2, <1>3, <1>5, BeforeFacts DEF ClearOk
<1>8. removed \/ DirOk(i, p)'
  BY <1>2, <1>4, <1>5, BeforeFacts DEF DirOk
<1> QED BY <1>4, <1>6, <1>7, <1>8 DEF Kept

LEMMA KeptByUnlink ==
  ASSUME NEW i \in Pairs, NEW p \in Names, Before(i, p),
         NEW t \in Threads, NEW k \in Pairs, NEW q \in Names, Unlink(t, k, q)
  PROVE  Kept(i, p)'
<1>0. AppStep(t)
  BY DEF AppStep
<1>1. /\ TreeChangesAt(k, {q}) /\ tree[k][q] = "file" /\ tree'[k][q] = "none"
  BY BeforeFacts, UnlinkIs
<1>2. Begin(t, "unlink") /\ UNCHANGED <<backup, removed>>
  BY DEF Unlink, historyVars
<1>3. \A j, a : ~OpenPending(j, a) /\ ~UnlinkPending(j, a)
  BY <1>2, NonePending DEF FileOps
<1>4. /\ Covered(i, p) => Covered(i, p)'
      /\ ToBeMade(i, p) => ToBeMade(i, p)'
  BY <1>0, BeforeFacts, AppKeepsCoverage
<1>5. /\ tree'[i][p] = "file" => tree[i][p] = "file"
      /\ tree'[i][p] = "dir" => tree[i][p] = "dir"
      /\ \A a \in All : tree[i][a] = "file" =>
           tree'[i][a] = "file" \/ (i = k /\ a = q)
  BY <1>1, BeforeFacts DEF TreeChangesAt
<1>6. UnlinkPending(k, q)'
  <2> DEFINE r == [op |-> "unlink", at |-> k, name |-> q]
  <2>1. call'[t] = r
    BY BeforeFacts DEF Unlink, CallsAreTyped
  <2>2. r.op = "unlink" /\ r.at = k /\ r.name = q
    OBVIOUS
  <2> HIDE DEF r
  <2> QED BY <2>1, <2>2 DEF UnlinkPending, InCall
<1>7. FileOk(i, p)'
  BY <1>2, <1>3, <1>4, <1>5, BeforeFacts DEF FileOk
<1>8. ClearOk(i, p)'
  BY <1>2, <1>3, <1>5, <1>6, BeforeFacts DEF ClearOk
<1>9. removed \/ DirOk(i, p)'
  BY <1>2, <1>4, <1>5, BeforeFacts DEF DirOk
<1> QED BY <1>2, <1>7, <1>8, <1>9 DEF Kept

(* A name that is not touched is not below one that a rename has touched. *)
LEMMA FreeFromRename ==
  ASSUME NEW i \in Pairs, NEW p \in Names, <<i, p>> \notin touched',
         NEW q \in Names, \A n \in Below(q) : <<i, n>> \in touched'
  PROVE  \A a \in UpTo(p) \ {Root} : a \notin Below(q)
<1>1. p \in All /\ q \in All /\ UpTo(p) \subseteq All
  BY UpToFacts, NamesAreStrings
<1>2. ASSUME NEW a \in UpTo(p), a \in Below(q) PROVE FALSE
  <2>1. q \in UpTo(a) /\ a \in All
    BY <1>1, <1>2, UpToFacts
  <2>2. p \in Below(q)
    BY <1>1, <1>2, <2>1, UpToFacts
  <2> QED BY <2>2
<1> QED BY <1>2

LEMMA KeptByRename ==
  ASSUME NEW i \in Pairs, NEW p \in Names, Before(i, p),
         NEW t \in Threads, NEW k \in Pairs, NEW q \in Names, NEW r \in Names,
         Rename(t, k, q, r)
  PROVE  Kept(i, p)'
<1>0. AppStep(t)
  BY DEF AppStep
<1>1. TreeChangesAt(k, Below(q) \cup Below(r))
  BY BeforeFacts, RenameIs
<1>2. /\ Begin(t, "rename") /\ UNCHANGED backup
      /\ \A n \in Below(q) \cup Below(r) : <<k, n>> \in touched'
  BY DEF Rename
<1>3. \A j, a : ~OpenPending(j, a) /\ ~UnlinkPending(j, a)
  BY <1>2, NonePending DEF FileOps
<1>4. /\ Covered(i, p) => Covered(i, p)'
      /\ ToBeMade(i, p) => ToBeMade(i, p)'
      /\ removed => removed'
  BY <1>0, BeforeFacts, AppKeepsCoverage
<1>5. \A a \in UpTo(p) \ {Root} : tree'[i][a] = tree[i][a]
  <2>1. CASE i = k
    <3>1. <<i, p>> \notin touched'
      BY BeforeFacts DEF Free
    <3>2. \A a \in UpTo(p) \ {Root} : a \notin Below(q) /\ a \notin Below(r)
      BY <1>2, <2>1, <3>1, FreeFromRename
    <3> QED BY <1>1, <3>2, BeforeFacts DEF TreeChangesAt
  <2>2. CASE i # k
    BY <1>1, <2>2, BeforeFacts DEF TreeChangesAt
  <2> QED BY <2>1, <2>2
<1>6. tree'[i][p] = tree[i][p]
  BY <1>5, BeforeFacts
<1>7. FileOk(i, p)'
  BY <1>2, <1>3, <1>4, <1>6, BeforeFacts DEF FileOk
<1>8. ClearOk(i, p)'
  BY <1>2, <1>3, <1>5, BeforeFacts DEF ClearOk
<1>9. removed \/ DirOk(i, p)'
  BY <1>2, <1>4, <1>6, BeforeFacts DEF DirOk
<1> QED BY <1>4, <1>7, <1>8, <1>9 DEF Kept

LEMMA NoSessionYet ==
  ASSUME NEW i \in Pairs, NEW p \in Names, Before(i, p), ~InSession
  PROVE  /\ Covered(i, p) /\ \A j \in Pairs, a \in Names : backup[j][a] = "none"
         /\ pc = "none"
<1>1. pc = "none"
  BY DEF InSession, Before
<1>2. index = 1 /\ \A j \in Pairs, a \in Names : backup[j][a] = "none"
  BY <1>1, BeforeFacts DEF SessionInv
<1>3. i > 1 \/ i = 1
  BY CopierTreeAssumption DEF Pairs
<1> QED BY <1>1, <1>2, <1>3 DEF Covered

(* An open is captured if the copier has not come to the file yet, and if  *)
(* it has: nothing is in the way in the backup, or it would be in the way  *)
(* in the source.                                                          *)
LEMMA KeptByOpenCapture ==
  ASSUME NEW i \in Pairs, NEW p \in Names, Before(i, p),
         NEW t \in Threads, OpenCapture(t)
  PROVE  Kept(i, p)'
<1> DEFINE k == call[t].at
           q == call[t].name
           kind == IF call[t].fresh THEN "file" ELSE "part"
<1>0. AppStep(t) /\ InCall(t, "open") /\ UNCHANGED <<tree, removed>>
  BY DEF AppStep, OpenCapture, End, historyVars
<1>1. /\ ~InSession => UNCHANGED backup
      /\ \A n \in All :
           \/ backup'[i][n] = backup[i][n]
           \/ /\ i = k /\ n = q /\ backup[k][q] = "none" /\ backup'[k][q] = kind
           \/ /\ i = k /\ n \in Ancestors(q)
              /\ backup[i][n] = "none" /\ backup'[i][n] = "dir"
      /\ InSession /\ q \notin ExcludedInBackup /\ ~failed'
           /\ ~PathIsBlocked(backup[k], q)
           => /\ backup'[k][q] \in {"file", "part"}
              /\ backup[k][q] = "none" => backup'[k][q] = kind
  BY BeforeFacts, OpenCaptureIs
<1>2. k \in Pairs /\ q \in Names /\ tree[k][q] = "file"
  BY <1>0, BeforeFacts, PendingCalls, CallInvNow
<1>3. /\ Covered(i, p) => Covered(i, p)'
      /\ ToBeMade(i, p) => ToBeMade(i, p)'
  BY <1>0, BeforeFacts, AppKeepsCoverage
<1>4. /\ OpenPending(i, p) => k = i /\ q = p /\ call[t].fresh
      /\ \A a : ~UnlinkPending(i, a)
  <2>1. call[t].op \in FileOps
    BY <1>0 DEF InCall, FileOps
  <2> QED BY <1>0, <2>1, BeforeFacts, OnlyOnePending DEF InCall
<1>5. FileOk(i, p)'
  <2>1. CASE Covered(i, p) \/ tree[i][p] # "file"
    BY <1>0, <1>3, <2>1 DEF FileOk
  <2>2. CASE backup[i][p] = "file"
    <3>1. backup'[i][p] = "file"
      BY <1>1, <2>2, BeforeFacts
    <3> QED BY <3>1 DEF FileOk
  <2>3. CASE ~Covered(i, p) /\ tree[i][p] = "file" /\ OpenPending(i, p) /\ backup[i][p] # "part"
    <3>1. k = i /\ q = p /\ kind = "file" /\ InSession
      BY <1>4, <2>3, NoSessionYet
    <3>2. ASSUME NEW a \in Ancestors(p), backup[i][a] \in {"file", "part"} PROVE FALSE
      <4>1. a \in UpTo(p) /\ a # p /\ a \in All
        BY BeforeFacts, UpToFacts DEF UpTo
      <4>2. backup[i][Root] = "dir"
        BY BeforeFacts DEF BackupsInv, FileSystem
      <4>3. tree[i][a] = "file"
        BY <1>4, <3>2, <4>1, <4>2, BeforeFacts DEF ClearOk
      <4>4. tree[i][a] = "dir"
        <5>1. FileSystem(tree[i]) /\ tree[i][p] # "none"
          BY <2>3, BeforeFacts DEF SourcesInv
        <5> QED BY <4>1, <5>1, BeforeFacts, InDirectories
      <4> QED BY <4>3, <4>4
    <3>3. ~PathIsBlocked(backup[k], q)
      BY <3>1, <3>2 DEF PathIsBlocked
    <3>4. backup'[i][p] \in {"file", "part"} /\ (backup[i][p] = "none" => backup'[i][p] = kind)
      BY <1>1, <3>1, <3>3, BeforeFacts
    <3>5. backup'[i][p] = "file"
      <4>1. backup[i][p] # "none" => backup'[i][p] = backup[i][p]
        BY <1>1, BeforeFacts
      <4> QED BY <2>3, <3>1, <3>4, <4>1
    <3> QED BY <3>5 DEF FileOk
  <2> QED BY <2>1, <2>2, <2>3, BeforeFacts DEF FileOk
<1>6. ClearOk(i, p)'
  <2> SUFFICES ASSUME NEW a \in UpTo(p) \ {Root}, backup'[i][a] \in {"file", "part"}
               PROVE  tree'[i][a] = "file"
    BY DEF ClearOk
  <2>1. a \in All
    BY BeforeFacts
  <2>2. backup'[i][a] = backup[i][a] \/ (i = k /\ a = q)
    BY <1>1, <2>1
  <2> QED BY <1>0, <1>2, <1>4, <2>2, BeforeFacts DEF ClearOk
<1>7. removed \/ DirOk(i, p)'
  <2> SUFFICES ASSUME ~removed, tree[i][p] = "dir"
               PROVE  /\ Covered(i, p)' \/ backup'[i][p] = "dir" \/ ToBeMade(i, p)'
                      /\ backup'[i][p] \notin {"file", "part"}
    BY <1>0 DEF DirOk
  <2>1. /\ Covered(i, p) \/ backup[i][p] = "dir" \/ ToBeMade(i, p)
        /\ backup[i][p] \notin {"file", "part"}
    BY BeforeFacts DEF DirOk
  <2>2. ~(i = k /\ p = q)
    BY <1>2
  <2>3. backup'[i][p] = backup[i][p] \/ backup'[i][p] = "dir"
    BY <1>1, <2>2, BeforeFacts
  <2> QED BY <1>3, <2>1, <2>3
<1> QED BY <1>0, <1>5, <1>6, <1>7 DEF Kept

LEMMA KeptByMkdirCapture ==
  ASSUME NEW i \in Pairs, NEW p \in Names, Before(i, p),
         NEW t \in Threads, MkdirCapture(t)
  PROVE  Kept(i, p)'
<1>0. AppStep(t) /\ InCall(t, "mkdir") /\ UNCHANGED <<tree, removed>> /\ End(t)
  BY DEF AppStep, MkdirCapture, End, historyVars
<1>1. \A n \in All :
           \/ backup'[i][n] = backup[i][n]
           \/ backup[i][n] = "none" /\ backup'[i][n] = "dir"
  BY BeforeFacts, MkdirCaptureIs
<1>2. /\ Covered(i, p) => Covered(i, p)'
      /\ ToBeMade(i, p) => ToBeMade(i, p)'
  BY <1>0, BeforeFacts, AppKeepsCoverage
<1>3. \A a : /\ OpenPending(i, a) => OpenPending(i, a)'
             /\ UnlinkPending(i, a) => UnlinkPending(i, a)'
  <2>1. \A u \in Threads : u # t => call'[u] = call[u]
    BY <1>0, BeforeFacts, EndIs
  <2>2. call[t].op \notin {"open", "unlink"}
    BY <1>0 DEF InCall
  <2> QED BY <2>1, <2>2, StillPending
<1>4. FileOk(i, p)'
  BY <1>0, <1>1, <1>2, <1>3, BeforeFacts DEF FileOk
<1>5. ClearOk(i, p)'
  BY <1>0, <1>1, <1>3, BeforeFacts DEF ClearOk
<1>6. removed \/ DirOk(i, p)'
  BY <1>0, <1>1, <1>2, BeforeFacts DEF DirOk
<1> QED BY <1>0, <1>4, <1>5, <1>6 DEF Kept

(* What unlink leaves in the backup when it gives up is a name that the    *)
(* backup does not have.                                                   *)
LEMMA KeptByUnlinkCapture ==
  ASSUME NEW i \in Pairs, NEW p \in Names, Before(i, p),
         NEW t \in Threads, UnlinkCapture(t)
  PROVE  Kept(i, p)'
<1> DEFINE k == call[t].at
           q == call[t].name
<1>0. AppStep(t) /\ InCall(t, "unlink") /\ UNCHANGED <<tree, removed>>
  BY DEF AppStep, UnlinkCapture, End, historyVars
<1>1. /\ \A n \in All :
           \/ backup'[i][n] = backup[i][n]
           \/ i = k /\ n = q /\ backup[k][q] # "dir" /\ backup'[k][q] = "none"
      /\ InSession /\ ~failed /\ q \notin Excluded
           => backup'[k][q] \notin {"file", "part"}
      /\ ~InSession => UNCHANGED backup
  BY BeforeFacts, UnlinkCaptureIs
<1>2. k \in Pairs /\ q \in Names /\ tree[k][q] # "file"
  BY <1>0, BeforeFacts, PendingCalls, CallInvNow
<1>3. /\ Covered(i, p) => Covered(i, p)'
      /\ ToBeMade(i, p) => ToBeMade(i, p)'
  BY <1>0, BeforeFacts, AppKeepsCoverage
<1>4. /\ ~OpenPending(i, p)
      /\ \A a : UnlinkPending(i, a) => k = i /\ q = a
  <2>1. call[t].op \in FileOps
    BY <1>0 DEF InCall, FileOps
  <2> QED BY <1>0, <2>1, BeforeFacts, OnlyOnePending DEF InCall
<1>5. FileOk(i, p)'
  <2>1. tree[i][p] = "file" => backup'[i][p] = backup[i][p]
    BY <1>1, <1>2, BeforeFacts
  <2> QED BY <1>0, <1>3, <1>4, <2>1, BeforeFacts DEF FileOk
<1>6. ClearOk(i, p)'
  <2> SUFFICES ASSUME NEW a \in UpTo(p) \ {Root}, backup'[i][a] \in {"file", "part"}
               PROVE  tree'[i][a] = "file"
    BY DEF ClearOk
  <2>1. a \in All /\ a \in Names /\ a \notin Excluded
    BY BeforeFacts
  <2>2. ~(i = k /\ a = q)
    <3>1. CASE InSession
      BY <1>1, <2>1, <3>1, BeforeFacts
    <3>2. CASE ~InSession
      <4>1. backup'[i][a] = "none"
        BY <1>1, <2>1, <3>2, NoSessionYet
      <4> QED BY <4>1
    <3> QED BY <3>1, <3>2
  <2>3. backup'[i][a] = backup[i][a]
    BY <1>1, <2>1, <2>2
  <2> QED BY <1>0, <1>4, <2>2, <2>3, BeforeFacts DEF ClearOk
<1>7. removed \/ DirOk(i, p)'
  <2>1. \/ backup'[i][p] = backup[i][p]
        \/ backup[i][p] # "dir" /\ backup'[i][p] = "none"
    BY <1>1, BeforeFacts
  <2> QED BY <1>0, <1>3, <2>1, BeforeFacts DEF DirOk
<1> QED BY <1>0, <1>5, <1>6, <1>7 DEF Kept

LEMMA KeptByRenameCapture ==
  ASSUME NEW i \in Pairs, NEW p \in Names, Before(i, p),
         NEW t \in Threads, RenameCapture(t)
  PROVE  Kept(i, p)'
<1> DEFINE k == call[t].at
           q == call[t].name
           r == call[t].new
<1>0. AppStep(t) /\ InCall(t, "rename") /\ UNCHANGED <<tree, removed, touched>>
  BY DEF AppStep, RenameCapture, End, historyVars
<1>1. /\ ~IsPrefix(q, r) /\ ~IsPrefix(r, q) /\ q \in Names /\ r \in Names /\ k \in Pairs
      /\ \A n \in Below(q) \cup Below(r) : <<k, n>> \in touched'
  BY <1>0, BeforeFacts, CallInvNow, PendingCalls
<1>2. BackupChangesAt(k, Below(q) \cup Below(r))
  BY <1>1, BeforeFacts, RenameCaptureIs
<1>3. /\ Covered(i, p) => Covered(i, p)'
      /\ ToBeMade(i, p) => ToBeMade(i, p)'
  BY <1>0, BeforeFacts, AppKeepsCoverage
<1>4. ~OpenPending(i, p) /\ \A a : ~UnlinkPending(i, a)
  <2>1. call[t].op \in FileOps
    BY <1>0 DEF InCall, FileOps
  <2> QED BY <1>0, <2>1, BeforeFacts, OnlyOnePending DEF InCall
<1>5. \A a \in UpTo(p) \ {Root} : backup'[i][a] = backup[i][a]
  <2>1. CASE i = k
    <3>1. <<i, p>> \notin touched'
      BY BeforeFacts DEF Free
    <3>2. \A a \in UpTo(p) \ {Root} : a \notin Below(q) /\ a \notin Below(r)
      <4> HIDE DEF k, q, r
      <4> QED BY <1>1, <2>1, <3>1, FreeFromRename
    <3> QED BY <1>2, <3>2, BeforeFacts DEF BackupChangesAt
  <2>2. CASE i # k
    BY <1>2, <2>2, BeforeFacts DEF BackupChangesAt
  <2> QED BY <2>1, <2>2
<1>6. backup'[i][p] = backup[i][p]
  BY <1>5, BeforeFacts
<1>7. FileOk(i, p)'
  BY <1>0, <1>3, <1>4, <1>6, BeforeFacts DEF FileOk
<1>8. ClearOk(i, p)'
  BY <1>0, <1>4, <1>5, BeforeFacts DEF ClearOk
<1>9. removed \/ DirOk(i, p)'
  BY <1>0, <1>3, <1>6, BeforeFacts DEF DirOk
<1> QED BY <1>0, <1>7, <1>8, <1>9 DEF Kept

LEMMA BackupInvHolds == Spec => []BackupInv
<1>1. Init => BackupInv
  <2> SUFFICES ASSUME Init, NEW i \in Pairs, NEW p \in Names, Free(i, p)
               PROVE  Kept(i, p)
    BY DEF BackupInv
  <2>1. Covered(i, p)
    <3>1. i > 1 \/ i = 1
      BY CopierTreeAssumption DEF Pairs
    <3> QED BY <3>1 DEF Init, Covered
  <2>2. \A a \in UpTo(p) \ {Root} : backup[i][a] = "none"
    <3>1. p \in All /\ UpTo(p) \subseteq All
      BY UpToIs, NamesAreStrings
    <3> QED BY <3>1 DEF Init
  <2>3. backup[i][p] = "none"
    BY NamesAreStrings DEF Init
  <2> QED BY <2>1, <2>2, <2>3 DEF Kept, FileOk, ClearOk, DirOk
<1>2. WalkInv /\ BackupInv /\ [Next]_vars => BackupInv'
  <2>1. ASSUME BackupInv, UNCHANGED vars PROVE BackupInv'
    BY <2>1 DEF vars, BackupInv, Healthy, Free, Kept, FileOk, ClearOk, DirOk, Covered,
         ToBeMade, OpenPending, UnlinkPending, InCall
  <2>2. ASSUME WalkInv, BackupInv, Next, Healthy',
               NEW i \in Pairs, NEW p \in Names, Free(i, p)'
        PROVE  Kept(i, p)'
    <3>1. Healthy /\ touched \subseteq touched'
      BY <2>2, HealthIsLost
    <3>2. Free(i, p)
      BY <2>2, <3>1 DEF Free
    <3>3. Before(i, p)
      BY <2>2, <3>1, <3>2 DEF Before, BackupInv, Next
    <3>4. ASSUME NEW t \in Threads, AppStep(t) PROVE Kept(i, p)'
      BY <3>3, <3>4, KeptByOpen, KeptByMkdir, KeptByRmdir, KeptByUnlink, KeptByRename,
         KeptByOpenCapture, KeptByMkdirCapture, KeptByUnlinkCapture, KeptByRenameCapture
      DEF AppStep
    <3> QED BY <2>2, <3>3, <3>4, KeptByCopier DEF Next
  <2>3. ASSUME WalkInv, BackupInv, Next PROVE BackupInv'
    BY <2>2, <2>3 DEF BackupInv
  <2> QED BY <2>1, <2>3
<1> QED BY <1>1, <1>2, WalkInvHolds, PTL DEF Spec

LEMMA WhenItSucceeds ==
  ASSUME WalkInv, BackupInv, Succeeded, NEW i \in Pairs, NEW p \in Names, Settled(i, p)
  PROVE  /\ tree[i][p] = "file" => backup[i][p] = "file"
         /\ backup[i][p] \in {"file", "part"} => tree[i][p] = "file"
         /\ tree[i][p] = "dir" /\ ~removed => backup[i][p] = "dir"
<1>1. Free(i, p)
  BY DEF Settled, Free, UpTo
<1>2. Kept(i, p)
  BY <1>1 DEF BackupInv, Succeeded, Healthy
<1>3. p \in All /\ UpTo(p) \subseteq All /\ p \in UpTo(p) \ {Root}
  BY UpToIs, NamesAreStrings
<1>4. ~Covered(i, p)
  <2>1. pc = "closed" /\ index = Sources /\ Entries(todo) \cap All = {}
    BY DEF WalkInv, SessionInv, Succeeded
  <2>2. ~(i > Sources)
    BY CopierTreeAssumption DEF Pairs
  <2> QED BY <1>3, <2>1, <2>2 DEF Covered
<1>5. ~OpenPending(i, p) /\ ~UnlinkPending(i, p)
  BY DEF Settled, OpenPending, UnlinkPending, InCall, Idle
<1>6. ~ToBeMade(i, p)
  BY DEF ToBeMade, Succeeded
<1> QED BY <1>2, <1>3, <1>4, <1>5, <1>6 DEF Kept, FileOk, ClearOk, DirOk

(* A backup that returns 0 has every file of every source directory,       *)
(* complete, and none that the source has not, for any tree of names, any  *)
(* number of pairs, threads and calls, and however the calls and their     *)
(* captures fall between the copier's looking, listing, making and         *)
(* copying: but for names that were renamed, made in the session or are in *)
(* an excluded directory, and for calls not yet captured.                  *)
THEOREM FilesAreBackedUpHolds == Spec => []FilesAreBackedUp
<1>1. WalkInv /\ BackupInv => FilesAreBackedUp
  BY WhenItSucceeds DEF FilesAreBackedUp
<1> QED BY <1>1, WalkInvHolds, BackupInvHolds, PTL

(* A backup that returns 0 has every directory that was there when the     *)
(* session began, or that has a file in it which the backup must have,     *)
(* made by the copier or by open_path on the way to the file: if no        *)
(* directory was removed or renamed meanwhile.                             *)
THEOREM DirectoriesAreBackedUpHolds == Spec => []DirectoriesAreBackedUp
<1>1. WalkInv /\ BackupInv => DirectoriesAreBackedUp
  <2> SUFFICES ASSUME WalkInv, BackupInv, Succeeded, ~removed,
                      NEW i \in Pairs, NEW p \in Names, tree[i][p] = "dir",
                      Settled(i, p)
                        \/ \E n \in Children(p) : tree[i][n] = "file" /\ Settled(i, n)
               PROVE  backup[i][p] = "dir"
    BY DEF DirectoriesAreBackedUp
  <2>1. CASE Settled(i, p)
    BY <2>1, WhenItSucceeds
  <2>2. ASSUME NEW n \in Children(p), tree[i][n] = "file", Settled(i, n)
        PROVE  backup[i][p] = "dir"
    <3>1. n \in Names /\ Parent(n) = p
      BY DEF Children
    <3>2. backup[i][n] = "file"
      BY <2>2, <3>1, WhenItSucceeds
    <3> QED BY <3>1, <3>2 DEF WalkInv, BaseInv, BackupsInv, FileSystem, HasDir
  <2> QED BY <2>1, <2>2
<1> QED BY <1>1, WalkInvHolds, BackupInvHolds, PTL

----------------------------------------------------------------------------
(*                               Progress                                  *)

Visiting == {"entry", "file", "opendir", "mkdir", "list"}

(* What the copier looks at, or is to look at. *)
Ahead == Entries(todo) \cup IF pc \in Visiting THEN {entry} ELSE {}

(* The files that it will come to, were nothing to change. *)
Rest == {p \in Names : tree[1][p] = "file" /\ Ahead \cap UpTo(p) # {}}

(* No entry of the list is in another, or in what is being looked at: so   *)
(* that no file is copied twice.                                           *)
Apart ==
    /\ Ahead \subseteq All
    /\ \A j, k \in 1..Len(todo) : j # k => ~IsPrefix(todo[j], todo[k])
    /\ pc \in Visiting =>
         \A a \in Entries(todo) : ~IsPrefix(a, entry) /\ ~IsPrefix(entry, a)

ProgressInv ==
    index = 1 /\ ~grown =>
      /\ pc \in {"none", "start"} => done = 0 /\ todo = <<>>
      /\ pc \in Visiting \cup {"loop", "next"} =>
           done + Cardinality(Rest) <= total /\ Apart

LEMMA LessIsAhead ==
  ASSUME NEW R \in SUBSET Names, NEW S \in SUBSET Names, R \subseteq S
  PROVE  /\ Cardinality(R) \in Nat /\ Cardinality(S) \in Nat
         /\ Cardinality(R) <= Cardinality(S)
         /\ \A x \in S : x \notin R => Cardinality(R) + 1 <= Cardinality(S)
<1>1. IsFiniteSet(S) /\ IsFiniteSet(R)
  BY FS_Subset, CopierTreeAssumption
<1>2. Cardinality(R) \in Nat /\ Cardinality(S) \in Nat /\ Cardinality(R) <= Cardinality(S)
  BY <1>1, FS_Subset, FS_CardinalityType
<1>3. ASSUME NEW x \in S, x \notin R PROVE Cardinality(R) + 1 <= Cardinality(S)
  <2>1. IsFiniteSet(S \ {x}) /\ Cardinality(S \ {x}) = Cardinality(S) - 1
    BY <1>1, <1>3, FS_RemoveElement
  <2>2. R \subseteq S \ {x}
    BY <1>3
  <2>3. Cardinality(R) <= Cardinality(S \ {x})
    BY <2>1, <2>2, FS_Subset
  <2> QED BY <1>2, <2>1, <2>3
<1> QED BY <1>2, <1>3

(* No more files, and no more ahead. *)
LEMMA LessRest ==
  ASSUME \A p \in Names : tree'[1][p] = "file" => tree[1][p] = "file",
         \A p \in Names, a \in Ahead' : a \in UpTo(p) => Ahead \cap UpTo(p) # {}
  PROVE  /\ Rest' \subseteq Rest /\ Rest \subseteq Names /\ Rest' \subseteq Names
         /\ Cardinality(Rest') \in Nat /\ Cardinality(Rest) \in Nat
         /\ Cardinality(Rest') <= Cardinality(Rest)
<1>1. Rest' \subseteq Rest /\ Rest \subseteq Names /\ Rest' \subseteq Names
  BY DEF Rest
<1> QED BY <1>1, LessIsAhead

LEMMA ProgressOfTheCopier ==
  ASSUME WalkInv, ProgressInv, CopierStep, index' = 1, ~grown'
  PROVE  ProgressInv'
<1>0. /\ BaseInv /\ todo \in Seq(Items) /\ Len(todo) \in Nat /\ done \in Nat /\ total \in Nat
      /\ index \in Nat /\ index >= 1 /\ index \in Pairs /\ SourcesInv
      /\ Cardinality(Rest) \in Nat
  <2>1. Rest \subseteq Names
    BY DEF Rest
  <2>2. Cardinality(Rest) \in Nat
    BY <2>1, LessIsAhead
  <2> QED BY <2>2, ListFacts, CopierTreeAssumption DEF WalkInv, BaseInv, CopierTypes, Pairs
<1>1. UNCHANGED <<tree, grown>>
  BY DEF CopierStep, OpenSession, StartDirectory, Quit, Take, PollAborts, Stat,
       CopyFile, OpenDir, MakeDir, List, CountRest, Cleanup, CloseSession, historyVars
<1>2. ~grown
  BY <1>1
<1>3. CASE Cleanup
  <2>1. pc' = "start" => index' = index + 1
    BY <1>0, <1>3, CleanupIs
  <2>2. pc' \in {"start", "stop"}
    BY <1>3 DEF Cleanup
  <2> QED BY <1>0, <2>1, <2>2 DEF ProgressInv, Visiting
<1> SUFFICES ASSUME ~Cleanup PROVE ProgressInv'
  BY <1>3
<1>4. index = 1
  BY DEF CopierStep, OpenSession, StartDirectory, Quit, Take, PollAborts, Stat,
       CopyFile, OpenDir, MakeDir, List, CountRest, CloseSession
<1>5. CASE Quit \/ PollAborts \/ CloseSession
  <2>1. pc' \in {"cleanup", "closed"}
    BY <1>5 DEF Quit, PollAborts, CloseSession
  <2> QED BY <2>1 DEF ProgressInv, Visiting
<1>6. CASE OpenSession
  <2>1. pc = "none" /\ pc' = "start" /\ UNCHANGED <<done, todo>>
    BY <1>6 DEF OpenSession
  <2> QED BY <1>2, <1>4, <2>1 DEF ProgressInv, Visiting
<1>7. CASE StartDirectory
  <2>1. /\ pc = "start" /\ pc' = "loop" /\ done' = 0
        /\ total' = dirsum(tree[1]) /\ todo = <<>>
    BY <1>2, <1>4, <1>7 DEF StartDirectory, ProgressInv
  <2>2. Entries(todo') = {Root} /\ Len(todo') = 1
    <3>1. Len(todo) = 0 /\ Entries(todo) = {}
      BY <2>1, EmptySeq DEF Entries
    <3> QED BY <1>0, <1>7, <3>1, StartDirectoryIs
  <2>3. Ahead' = {Root}
    BY <2>1, <2>2 DEF Ahead, Visiting
  <2>4. Rest' = {p \in Names : tree[1][p] = "file"}
    <3>1. \A p \in Names : {Root} \cap UpTo(p) # {}
      BY UpToIs, NamesAreStrings
    <3> QED BY <1>1, <2>3, <3>1 DEF Rest
  <2>5. Cardinality(Rest') = total' /\ Cardinality(Rest') \in Nat
    <3>1. Rest' \subseteq Names
      BY <2>4
    <3>2. Cardinality(Rest') = total'
      BY <2>1, <2>4 DEF dirsum
    <3> QED BY <3>1, <3>2, LessIsAhead
  <2>6. Apart'
    <3>1. \A j, k \in 1..Len(todo') : j = k
      BY <2>2
    <3> QED BY <2>1, <2>3, <3>1, NamesAreStrings DEF Apart, Visiting
  <2>7. done' + Cardinality(Rest') <= total'
    BY <2>1, <2>5
  <2> QED BY <2>1, <2>6, <2>7 DEF ProgressInv, Visiting
<1> SUFFICES ASSUME Take \/ Stat \/ CopyFile \/ OpenDir \/ MakeDir \/ List \/ CountRest
             PROVE  ProgressInv'
  BY <1>5, <1>6, <1>7 DEF CopierStep
<1>8. /\ done + Cardinality(Rest) <= total /\ Apart
      /\ pc' \notin {"none", "start"} /\ total' = total
  <2>1. CASE Stat
    <3>1. entry # Null /\ entry \in Items
      BY <1>0, <2>1 DEF Stat, BaseInv, CopierTypes, VisitInv
    <3>2. entry \in All => tree[index][entry] \in {"none", "file", "dir"}
      BY <1>0, <3>1 DEF SourcesInv
    <3>3. pc' \in {"next", "file", "opendir"}
      BY <2>1, <3>1, <3>2 DEF Stat, Items
    <3> QED BY <1>2, <1>4, <2>1, <3>3 DEF Stat, ProgressInv, Visiting
  <2>2. CASE ~Stat
    <3>1. pc \in Visiting \cup {"loop", "next"} /\ total' = total
      BY <2>2 DEF Take, CopyFile, OpenDir, MakeDir, List, CountRest, Visiting
    <3>2. pc' \notin {"none", "start"}
      BY <2>2 DEF Take, CopyFile, OpenDir, MakeDir, List, CountRest, AfterMkdir
    <3> QED BY <1>2, <1>4, <3>1, <3>2 DEF ProgressInv
  <2> QED BY <2>1, <2>2
<1>9. ASSUME Ahead' \subseteq Ahead, done' = done, Apart' PROVE ProgressInv'
  <2>1. Cardinality(Rest') <= Cardinality(Rest) /\ Cardinality(Rest') \in Nat
    BY <1>1, <1>9, LessRest
  <2>2. done' + Cardinality(Rest') <= total'
    BY <1>0, <1>8, <1>9, <2>1
  <2> QED BY <1>8, <1>9, <2>2 DEF ProgressInv
<1>10. CASE Take
  <2>1. pc = "loop" /\ done' = done
    BY <1>10 DEF Take
  <2>2. CASE pc' = "crashed"
    BY <2>2 DEF ProgressInv, Visiting
  <2>3. CASE pc' # "crashed"
    <3>1. /\ pc' = "entry" /\ entry' = todo[1] /\ Len(todo) \in Nat \ {0}
          /\ Len(todo') = Len(todo) - 1
          /\ \A k \in 1..Len(todo') : todo'[k] = todo[k + 1]
          /\ Entries(todo) = {entry'} \cup Entries(todo')
      BY <1>0, <1>10, <2>3, TakeIs
    <3>2. Ahead' = Ahead
      BY <2>1, <3>1 DEF Ahead, Visiting
    <3>3. \A k \in 1..Len(todo') : k + 1 \in 1..Len(todo) /\ k + 1 # 1
      BY <3>1
    <3>4. 1 \in 1..Len(todo)
      BY <3>1
    <3>5. \A j, k \in 1..Len(todo') : j # k => ~IsPrefix(todo'[j], todo'[k])
      <4> SUFFICES ASSUME NEW j \in 1..Len(todo'), NEW k \in 1..Len(todo'), j # k
                   PROVE  ~IsPrefix(todo'[j], todo'[k])
        OBVIOUS
      <4>1. j + 1 # k + 1
        OBVIOUS
      <4> QED BY <1>8, <3>1, <3>3, <4>1 DEF Apart
    <3>6. \A a \in Entries(todo') : ~IsPrefix(a, entry') /\ ~IsPrefix(entry', a)
      <4> SUFFICES ASSUME NEW k \in 1..Len(todo')
                   PROVE  ~IsPrefix(todo'[k], entry') /\ ~IsPrefix(entry', todo'[k])
        BY DEF Entries
      <4> QED BY <1>8, <3>1, <3>3, <3>4 DEF Apart
    <3>7. Apart'
      BY <1>8, <3>2, <3>5, <3>6 DEF Apart
    <3> QED BY <1>9, <2>1, <3>2, <3>7
  <2> QED BY <2>2, <2>3
<1>11. CASE Stat \/ OpenDir \/ MakeDir \/ CountRest
  <2>1. /\ UNCHANGED <<todo, done>>
        /\ pc' \in Visiting => UNCHANGED entry /\ pc \in Visiting
    BY <1>11 DEF Stat, OpenDir, MakeDir, CountRest, Visiting
  <2>2. Ahead' \subseteq Ahead
    BY <2>1 DEF Ahead
  <2>3. Apart'
    BY <1>8, <2>1, <2>2 DEF Apart
  <2> QED BY <1>9, <2>1, <2>2, <2>3
<1>12. CASE CopyFile
  <2>1. /\ pc = "file" /\ UNCHANGED <<todo, entry>> /\ pc' \in {"next", "cleanup"}
        /\ done' = done \/ (done' = done + 1 /\ tree[1][entry] = "file")
    BY <1>4, <1>12 DEF CopyFile
  <2>2. Ahead' \subseteq Ahead /\ Apart'
    BY <1>8, <2>1 DEF Ahead, Apart, Visiting
  <2>3. CASE done' = done
    BY <1>9, <2>2, <2>3
  <2>4. CASE done' = done + 1 /\ tree[1][entry] = "file"
    <3>1. entry \in Names
      <4>1. entry \in All
        BY <1>0, <2>1 DEF BaseInv, VisitInv
      <4>2. tree[1][Root] = "dir"
        BY <1>0, <1>4 DEF SourcesInv, FileSystem
      <4> QED BY <2>4, <4>1, <4>2, NamesAreStrings
    <3>2. entry \in Rest
      BY <2>1, <2>4, <3>1 DEF Rest, Ahead, Visiting, UpTo
    <3>3. entry \notin Rest'
      <4>1. \A a \in Entries(todo) : ~IsPrefix(a, entry) /\ a \in All
        BY <1>8, <2>1 DEF Apart, Ahead, Visiting
      <4>2. Ahead' = Entries(todo)
        BY <2>1 DEF Ahead, Visiting
      <4>3. entry \in All
        BY <3>1, NamesAreStrings
      <4>4. Ahead' \cap UpTo(entry) = {}
        BY <4>1, <4>2, <4>3, UpToFacts
      <4> QED BY <4>4, <2>1 DEF Rest
    <3>4. Rest' \subseteq Rest /\ Rest \subseteq Names /\ Rest' \subseteq Names
      BY <1>1, <2>2, LessRest
    <3>5. Cardinality(Rest') + 1 <= Cardinality(Rest) /\ Cardinality(Rest') \in Nat
      BY <3>2, <3>3, <3>4, LessIsAhead
    <3>6. done' + Cardinality(Rest') <= total'
      BY <1>0, <1>8, <2>4, <3>5
    <3> QED BY <1>8, <2>2, <3>6 DEF ProgressInv
  <2> QED BY <2>1, <2>3, <2>4
<1>13. CASE List
  <2>1. pc = "list" /\ pc' = "next" /\ done' = done
    BY <1>13 DEF List
  <2>2. PICK s \in Seq(Items) :
              /\ todo' = todo \o s
              /\ Entries(s) \subseteq Children(entry)
              /\ \A j, k \in 1..Len(s) : j # k => s[j] # s[k]
              /\ Entries(todo') = Entries(todo) \cup Entries(s)
    BY <1>0, <1>13, ListIs
  <2>3. entry \in All /\ entry \in Strings
    BY <1>0, <1>13, ListIs, NamesAreStrings
  <2>4. \A n \in Entries(s) : /\ n \in Names /\ n \in All /\ n \in Strings
                              /\ Parent(n) = entry /\ entry \in UpTo(n)
                              /\ IsPrefix(entry, n) /\ Len(n) = Len(entry) + 1
    <3> SUFFICES ASSUME NEW n \in Children(entry)
                 PROVE  /\ n \in Names /\ n \in All /\ n \in Strings
                        /\ Parent(n) = entry /\ entry \in UpTo(n)
                        /\ IsPrefix(entry, n) /\ Len(n) = Len(entry) + 1
      BY <2>2
    <3>1. n \in Names /\ Parent(n) = entry /\ entry \in UpTo(n)
      BY <2>3, EntriesAreBelow
    <3>2. n \in All /\ n \in Strings /\ Len(n) \in Nat \ {0} /\ Len(entry) = Len(n) - 1
      BY <3>1, ParentIs, NamesAreStrings
    <3>3. IsPrefix(entry, n)
      BY <3>1, ParentIs
    <3> QED BY <3>1, <3>2, <3>3
  <2>5. \A a \in Entries(todo) : /\ a \in All /\ a \in Strings
                                 /\ ~IsPrefix(a, entry) /\ ~IsPrefix(entry, a)
    BY <1>8, <2>1, NamesAreStrings DEF Apart, Ahead, Visiting
  <2>6. Ahead' = Entries(todo) \cup Entries(s) /\ Ahead = Entries(todo) \cup {entry}
    BY <2>1, <2>2 DEF Ahead, Visiting
  <2>7. \A p \in Names, a \in Ahead' : a \in UpTo(p) => Ahead \cap UpTo(p) # {}
    <3> SUFFICES ASSUME NEW p \in Names, NEW a \in Entries(s), a \in UpTo(p)
                 PROVE  entry \in UpTo(p)
      BY <2>6
    <3>1. p \in All /\ a \in All /\ entry \in UpTo(a)
      BY <2>4, NamesAreStrings
    <3> QED BY <2>3, <3>1, UpToFacts
  <2>8. ASSUME NEW a \in Entries(todo), NEW n \in Entries(s)
        PROVE  ~IsPrefix(a, n) /\ ~IsPrefix(n, a)
    <3>1. IsPrefix(a, n) => a = n \/ IsPrefix(a, entry)
      BY <2>4, <2>5, ParentIs
    <3>2. IsPrefix(n, a) => IsPrefix(entry, a)
      BY <2>3, <2>4, <2>5, PrefixIsTransitive
    <3> QED BY <2>4, <2>5, <3>1, <3>2
  <2>9. ASSUME NEW m \in Entries(s), NEW n \in Entries(s), IsPrefix(m, n)
        PROVE  m = n
    <3>1. m \in Strings /\ n \in Strings /\ Len(n) = Len(m) /\ Len(n) \in Nat
      BY <2>4, NamesAreStrings
    <3>2. Len(n) <= Len(m)
      BY <3>1
    <3> QED BY <2>9, <3>1, <3>2, PrefixIsAntisymmetric
  <2>10. ASSUME NEW j \in 1..Len(todo'), NEW k \in 1..Len(todo'), j # k
         PROVE  ~IsPrefix(todo'[j], todo'[k])
    <3>1. /\ Len(todo) \in Nat /\ Len(s) \in Nat /\ Len(todo') = Len(todo) + Len(s)
          /\ \A m \in 1..Len(todo') : todo'[m] =
               IF m <= Len(todo) THEN todo[m] ELSE s[m - Len(todo)]
      BY <1>0, <2>2, JoinedEntries
    <3>2. \A m \in 1..Len(todo') : m <= Len(todo) =>
            /\ m \in 1..Len(todo) /\ todo'[m] = todo[m] /\ todo[m] \in Entries(todo)
      BY <3>1 DEF Entries
    <3>3. \A m \in 1..Len(todo') : ~(m <= Len(todo)) =>
            /\ m - Len(todo) \in 1..Len(s) /\ todo'[m] = s[m - Len(todo)]
            /\ s[m - Len(todo)] \in Entries(s)
      BY <3>1 DEF Entries
    <3>4. CASE j <= Len(todo) /\ k <= Len(todo)
      BY <1>8, <2>10, <3>2, <3>4 DEF Apart
    <3>5. CASE j <= Len(todo) /\ ~(k <= Len(todo))
      BY <2>8, <3>2, <3>3, <3>5
    <3>6. CASE ~(j <= Len(todo)) /\ k <= Len(todo)
      BY <2>8, <3>2, <3>3, <3>6
    <3>7. CASE ~(j <= Len(todo)) /\ ~(k <= Len(todo))
      <4>1. j - Len(todo) # k - Len(todo)
        BY <2>10, <3>1
      <4>2. s[j - Len(todo)] # s[k - Len(todo)]
        BY <2>2, <3>3, <3>7, <4>1
      <4> QED BY <2>9, <3>3, <3>7, <4>2
    <3> QED BY <3>4, <3>5, <3>6, <3>7
  <2>11. Apart'
    <3>1. Ahead' \subseteq All
      BY <2>4, <2>5, <2>6
    <3> QED BY <2>1, <2>10, <3>1 DEF Apart, Visiting
  <2>12. Cardinality(Rest') <= Cardinality(Rest) /\ Cardinality(Rest') \in Nat
    BY <1>1, <2>7, LessRest
  <2>13. done' + Cardinality(Rest') <= total'
    BY <1>0, <1>8, <2>1, <2>12
  <2> QED BY <1>8, <2>11, <2>13 DEF ProgressInv
<1> QED BY <1>10, <1>11, <1>12, <1>13

LEMMA ProgressOfTheApplication ==
  ASSUME WalkInv, ProgressInv, NEW t \in Threads, AppStep(t), index' = 1, ~grown'
  PROVE  ProgressInv'
<1>0. /\ BaseInv /\ SourcesInv /\ 1 \in Pairs /\ Names \subseteq All
      /\ done \in Nat /\ total \in Nat
  BY CopierTreeAssumption, NamesAreStrings DEF WalkInv, BaseInv, CopierTypes, Pairs
<1>1. ~grown /\ index = 1
  BY <1>0, HistoryIs, AppStepIs DEF copierVars
<1>2. UNCHANGED <<pc, index, entry, done, total, todo>>
  <2>1. UNCHANGED copierVars /\ (UNCHANGED todo \/ InCall(t, "rename"))
    BY <1>0, AppStepIs
  <2>2. ~InCall(t, "rename")
    BY <1>0, <1>1, CallInvNow DEF BaseInv
  <2> QED BY <2>1, <2>2 DEF copierVars
<1>3. \A p \in Names : tree'[1][p] = "file" => tree[1][p] = "file"
  <2>1. ASSUME NEW i \in Pairs, NEW q \in Names, Open(t, i, q)
        PROVE  \A p \in Names : tree'[1][p] = "file" => tree[1][p] = "file"
    <3>1. TreeChangesAt(i, {q}) /\ tree[i][q] \in {"none", "file"}
      BY <1>0, <2>1, OpenIs
    <3>2. tree[i][q] # "none"
      BY <2>1 DEF Open
    <3> QED BY <1>0, <3>1, <3>2 DEF TreeChangesAt
  <2>2. ASSUME NEW i \in Pairs, NEW q \in Names, Mkdir(t, i, q)
        PROVE  \A p \in Names : tree'[1][p] = "file" => tree[1][p] = "file"
    BY <1>0, <2>2, MkdirIs DEF TreeChangesAt
  <2>3. ASSUME NEW i \in Pairs, NEW q \in Names, Rmdir(t, i, q)
        PROVE  \A p \in Names : tree'[1][p] = "file" => tree[1][p] = "file"
    BY <1>0, <2>3, RmdirIs DEF TreeChangesAt
  <2>4. ASSUME NEW i \in Pairs, NEW q \in Names, Unlink(t, i, q)
        PROVE  \A p \in Names : tree'[1][p] = "file" => tree[1][p] = "file"
    BY <1>0, <2>4, UnlinkIs DEF TreeChangesAt
  <2>5. ASSUME NEW i \in Pairs, NEW p \in Names, NEW q \in Names, Rename(t, i, p, q)
        PROVE  FALSE
    BY <2>5 DEF Rename
  <2>6. CASE OpenCapture(t) \/ MkdirCapture(t) \/ UnlinkCapture(t) \/ RenameCapture(t)
    BY <2>6 DEF OpenCapture, MkdirCapture, UnlinkCapture, RenameCapture, End
  <2> QED BY <2>1, <2>2, <2>3, <2>4, <2>5, <2>6 DEF AppStep
<1>4. Ahead' = Ahead /\ (Apart => Apart')
  BY <1>2 DEF Ahead, Apart
<1>5. /\ Cardinality(Rest') <= Cardinality(Rest)
      /\ Cardinality(Rest') \in Nat /\ Cardinality(Rest) \in Nat
  BY <1>3, <1>4, LessRest
<1> QED BY <1>0, <1>1, <1>2, <1>4, <1>5 DEF ProgressInv

(* While the first directory is copied and no file appears the copier has  *)
(* not backed up more than there was to back up: it comes to each file     *)
(* once, because nothing in its list is in anything else that is, and each *)
(* one was counted.                                                        *)
THEOREM ProgressOfFirstDirectoryHolds == Spec => []ProgressOfFirstDirectory
<1>1. Init => ProgressInv
  BY DEF Init, ProgressInv, Visiting
<1>2. WalkInv /\ ProgressInv /\ [Next]_vars => ProgressInv'
  <2>1. ASSUME ProgressInv, UNCHANGED vars PROVE ProgressInv'
    BY <2>1 DEF vars, ProgressInv, Rest, Ahead, Apart
  <2>2. ASSUME ~(index' = 1 /\ ~grown') PROVE ProgressInv'
    BY <2>2 DEF ProgressInv
  <2> QED BY <2>1, <2>2, ProgressOfTheCopier, ProgressOfTheApplication DEF Next
<1>3. WalkInv /\ ProgressInv => ProgressOfFirstDirectory
  <2> SUFFICES ASSUME WalkInv, ProgressInv, index = 1, ~grown, pc \in {"loop", "next"}
               PROVE  done <= total
    BY DEF ProgressOfFirstDirectory, Progress
  <2>1. done + Cardinality(Rest) <= total
    BY DEF ProgressInv
  <2>2. Rest \subseteq Names
    BY DEF Rest
  <2>3. Cardinality(Rest) \in Nat /\ done \in Nat /\ total \in Nat
    BY <2>2, LessIsAhead DEF WalkInv, BaseInv, CopierTypes
  <2> QED BY <2>1, <2>3
<1> QED BY <1>1, <1>2, <1>3, WalkInvHolds, PTL DEF Spec

====
