-------------------------- MODULE FileTableProofs --------------------------
(***************************************************************************)
(* The reference counts of the source_files, the table that finds them by  *)
(* name, the files of finished backups, and what a backup has of each file *)
(* when it ends: for any number of threads, descriptors, names and backups.*)
(***************************************************************************)
EXTENDS FileTableInvariants, FiniteSetTheorems, SequenceTheorems,
        WellFoundedInduction, TLAPS

----------------------------------------------------------------------------
(*                             The hash table                              *)

LEMMA PutFront ==
  ASSUME NEW table \in Seq(Objects), NEW o \in Objects
  PROVE  LET t == <<o>> \o table
         IN  /\ t \in Seq(Objects) /\ t[1] = o
             /\ Entries(t) = Entries(table) \cup {o}
             /\ Distinct(table) /\ o \notin Entries(table) => Distinct(t)
<1> DEFINE t == <<o>> \o table
<1>1. <<o>> \in Seq(Objects) /\ Len(<<o>>) = 1 /\ <<o>>[1] = o
  OBVIOUS
<1>2. /\ t \in Seq(Objects) /\ Len(t) = 1 + Len(table)
      /\ \A k \in 1..(1 + Len(table)) :
           t[k] = IF k <= 1 THEN <<o>>[k] ELSE table[k - 1]
  <2>1. /\ t \in Seq(Objects) /\ Len(t) = Len(<<o>>) + Len(table)
        /\ \A k \in 1..(Len(<<o>>) + Len(table)) :
             t[k] = IF k <= Len(<<o>>) THEN <<o>>[k] ELSE table[k - Len(<<o>>)]
    BY <1>1, ConcatProperties
  <2> QED BY <1>1, <2>1
<1>3. Len(table) \in Nat
  BY LenProperties
<1> HIDE DEF t
<1>4. t[1] = o /\ \A k \in 1..Len(table) : t[k + 1] = table[k]
  <2>1. t[1] = o
    BY <1>1, <1>2, <1>3
  <2>2. ASSUME NEW k \in 1..Len(table) PROVE t[k + 1] = table[k]
    <3>1. k + 1 \in 1..(1 + Len(table)) /\ ~(k + 1 <= 1) /\ (k + 1) - 1 = k
      BY <1>3
    <3> QED BY <1>2, <3>1
  <2> QED BY <2>1, <2>2
<1>5. \A k \in 1..Len(t) : k = 1 \/ (k - 1 \in 1..Len(table) /\ t[k] = table[k - 1])
  <2> SUFFICES ASSUME NEW k \in 1..Len(t), k # 1
               PROVE  k - 1 \in 1..Len(table) /\ t[k] = table[k - 1]
    OBVIOUS
  <2>1. k \in 1..(1 + Len(table)) /\ ~(k <= 1) /\ k - 1 \in 1..Len(table)
    BY <1>2, <1>3
  <2> QED BY <1>2, <2>1
<1>6. Entries(t) = Entries(table) \cup {o}
  <2>1. \A k \in 1..Len(table) : k + 1 \in 1..Len(t)
    BY <1>2, <1>3
  <2>2. 1 \in 1..Len(t)
    BY <1>2, <1>3
  <2>3. Entries(t) \subseteq Entries(table) \cup {o}
    BY <1>4, <1>5 DEF Entries
  <2>4. \A k \in 1..Len(table) : table[k] \in Entries(t)
    BY <1>4, <2>1 DEF Entries
  <2>5. o \in Entries(t)
    BY <1>4, <2>2 DEF Entries
  <2> QED BY <2>3, <2>4, <2>5 DEF Entries
<1>7. ASSUME Distinct(table), o \notin Entries(table) PROVE Distinct(t)
  <2> SUFFICES ASSUME NEW j \in 1..Len(t), NEW k \in 1..Len(t), t[j] = t[k]
               PROVE  j = k
    BY DEF Distinct
  <2>1. CASE j = 1
    BY <1>4, <1>5, <1>7, <2>1 DEF Entries
  <2>2. CASE k = 1
    BY <1>4, <1>5, <1>7, <2>2 DEF Entries
  <2>3. CASE j # 1 /\ k # 1
    <3>1. j - 1 = k - 1
      BY <1>5, <1>7, <2>3 DEF Distinct
    <3>2. j \in Int /\ k \in Int
      OBVIOUS
    <3> QED BY <3>1, <3>2
  <2> QED BY <2>1, <2>2, <2>3
<1> QED BY <1>2, <1>4, <1>6, <1>7 DEF t

LEMMA RemoveEntry ==
  ASSUME NEW table \in Seq(Objects), NEW i \in 1..Len(table), Distinct(table)
  PROVE  LET t == RemoveAt(table, i)
         IN  /\ t \in Seq(Objects)
             /\ Entries(t) = Entries(table) \ {table[i]}
             /\ Distinct(t)
<1> DEFINE n == Len(table)
           a == SubSeq(table, 1, i - 1)
           b == SubSeq(table, i + 1, n)
           t == a \o b
<1>0. n \in Nat /\ i \in Nat /\ 1 <= i /\ i <= n
  BY LenProperties
<1>1. \A k \in 1..n : table[k] \in Objects
  BY ElementOfSeq
<1>2. /\ a \in Seq(Objects) /\ Len(a) = i - 1
      /\ \A k \in 1..(i - 1) : a[k] = table[k]
  <2>1. i - 1 \in Int /\ \A k \in 1..(i - 1) : table[k] \in Objects
    BY <1>0, <1>1
  <2>2. /\ a \in Seq(Objects)
        /\ Len(a) = IF 1 <= i - 1 THEN (i - 1) - 1 + 1 ELSE 0
        /\ \A k \in 1..((i - 1) - 1 + 1) : a[k] = table[1 + k - 1]
    BY <2>1, SubSeqProperties
  <2> HIDE DEF a, n
  <2> QED BY <1>0, <2>2
<1>3. /\ b \in Seq(Objects) /\ Len(b) = n - i
      /\ \A k \in 1..(n - i) : b[k] = table[i + k]
  <2>1. i + 1 \in Int /\ n \in Int /\ \A k \in (i + 1)..n : table[k] \in Objects
    BY <1>0, <1>1
  <2>2. /\ b \in Seq(Objects)
        /\ Len(b) = IF i + 1 <= n THEN n - (i + 1) + 1 ELSE 0
        /\ \A k \in 1..(n - (i + 1) + 1) : b[k] = table[(i + 1) + k - 1]
    BY <2>1, SubSeqProperties
  <2> HIDE DEF b, n
  <2> QED BY <1>0, <2>2
<1>4. /\ t \in Seq(Objects) /\ Len(t) = n - 1
      /\ \A k \in 1..(n - 1) : t[k] = IF k < i THEN table[k] ELSE table[k + 1]
  <2>1. /\ t \in Seq(Objects) /\ Len(t) = Len(a) + Len(b)
        /\ \A k \in 1..(Len(a) + Len(b)) :
             t[k] = IF k <= Len(a) THEN a[k] ELSE b[k - Len(a)]
    BY <1>2, <1>3, ConcatProperties
  <2> HIDE DEF a, b, t, n
  <2>2. Len(t) = n - 1
    BY <1>0, <1>2, <1>3, <2>1
  <2>3. ASSUME NEW k \in 1..(n - 1)
        PROVE  t[k] = IF k < i THEN table[k] ELSE table[k + 1]
    <3>1. t[k] = IF k <= i - 1 THEN a[k] ELSE b[k - (i - 1)]
      BY <1>0, <1>2, <1>3, <2>1
    <3>2. CASE k < i
      BY <1>0, <1>2, <3>1, <3>2
    <3>3. CASE ~(k < i)
      <4>1. k - (i - 1) \in 1..(n - i) /\ i + (k - (i - 1)) = k + 1
        BY <1>0, <3>3
      <4> QED BY <1>0, <1>3, <3>1, <3>3, <4>1
    <3> QED BY <3>2, <3>3
  <2> QED BY <2>1, <2>2, <2>3
<1> HIDE DEF t, n
<1>5. \A k \in 1..Len(t) :
        \E j \in 1..n : j # i /\ t[k] = table[j] /\ j = (IF k < i THEN k ELSE k + 1)
  <2> SUFFICES ASSUME NEW k \in 1..(n - 1)
               PROVE  \E j \in 1..n : /\ j # i /\ t[k] = table[j]
                                      /\ j = (IF k < i THEN k ELSE k + 1)
    BY <1>4
  <2> DEFINE j == IF k < i THEN k ELSE k + 1
  <2>1. j \in 1..n /\ j # i
    BY <1>0
  <2>2. t[k] = table[j]
    BY <1>4
  <2> QED BY <2>1, <2>2
<1>6. \A j \in 1..n : j # i => \E k \in 1..Len(t) : t[k] = table[j]
  <2> SUFFICES ASSUME NEW j \in 1..n, j # i
               PROVE  \E k \in 1..(n - 1) : t[k] = table[j]
    BY <1>4
  <2> DEFINE k == IF j < i THEN j ELSE j - 1
  <2>1. k \in 1..(n - 1) /\ (IF k < i THEN k ELSE k + 1) = j
    BY <1>0
  <2> HIDE DEF k
  <2>2. t[k] = table[j]
    BY <1>4, <2>1
  <2> QED BY <2>1, <2>2
<1>7. Entries(t) = Entries(table) \ {table[i]}
  BY SMTT(30), <1>5, <1>6 DEF Entries, Distinct, n
<1>8. Distinct(t)
  <2> SUFFICES ASSUME NEW j \in 1..Len(t), NEW k \in 1..Len(t), t[j] = t[k]
               PROVE  j = k
    BY DEF Distinct
  <2>1. (IF j < i THEN j ELSE j + 1) = (IF k < i THEN k ELSE k + 1)
    BY <1>5 DEF Distinct, n
  <2>2. j \in Int /\ k \in Int
    OBVIOUS
  <2> QED BY <1>0, <2>1, <2>2
<1> QED BY <1>4, <1>7, <1>8 DEF RemoveAt, t, n

LEMMA NullIsNoObject == Null \notin Objects /\ Objects \subseteq Nat
  BY FileTableAssumption DEF Null, Objects

(* A source_file of the table is found at its name. *)
LEMMA PositionOfLive ==
  ASSUME NEW h, Tidy(h), NEW o \in h.live
  PROVE  LET i == Position(h, h.objects[o].name)
         IN  i \in 1..Len(h.table) /\ h.table[i] = o
<1> DEFINE I == {k \in 1..Len(h.table) :
                   h.objects[h.table[k]].name = h.objects[o].name}
<1>1. PICK k \in 1..Len(h.table) : h.table[k] = o
  BY DEF Tidy, Entries
<1>2. I = {k}
  <2>1. \A j \in 1..Len(h.table) : h.table[j] \in h.live
    BY DEF Tidy, Entries
  <2>2. \A j \in I : h.table[j] = o
    BY <2>1 DEF Tidy
  <2>3. \A j \in I : j = k
    BY <1>1, <2>2 DEF Tidy, Distinct
  <2> QED BY <1>1, <2>3
<1>3. Min(I) = k
  BY <1>2 DEF Min
<1>4. Position(h, h.objects[o].name) = IF I # {} THEN Min(I) ELSE 0
  BY DEF Position, SelectInSeq
<1> QED BY <1>1, <1>2, <1>3, <1>4

(* A look-up returns the source_file of the name, if there is one. *)
LEMMA LookupIs ==
  ASSUME NEW h, Tidy(h), NEW name
  PROVE  LET found == Lookup(h, name)
         IN  \/ found = Null /\ \A o \in h.live : h.objects[o].name # name
             \/ /\ found # Null /\ found \in h.live
                /\ h.objects[found].name = name
<1> DEFINE I == {k \in 1..Len(h.table) : h.objects[h.table[k]].name = name}
<1>0. h.live \subseteq Objects
  BY DEF Tidy, HeapType
<1>1. CASE \E o \in h.live : h.objects[o].name = name
  <2>1. PICK o \in h.live : h.objects[o].name = name
    BY <1>1
  <2>2. /\ Position(h, name) \in 1..Len(h.table)
        /\ h.table[Position(h, name)] = o
    BY <2>1, PositionOfLive
  <2>3. Lookup(h, name) = o
    BY <2>2, LenProperties DEF Lookup
  <2> QED BY <1>0, <2>1, <2>3, NullIsNoObject
<1>2. CASE \A o \in h.live : h.objects[o].name # name
  <2>1. I = {}
    BY <1>2 DEF Tidy, Entries
  <2>2. Position(h, name) = IF I # {} THEN Min(I) ELSE 0
    BY DEF Position, SelectInSeq
  <2> QED BY <1>2, <2>1, <2>2 DEF Lookup
<1> QED BY <1>1, <1>2

LessThan == OpToRel(<, Nat)

(* A set of numbers has its minimum. *)
LEMMA MinIsInSet == ASSUME NEW S \in SUBSET Nat, S # {} PROVE Min(S) \in S
<1>1. IsWellFoundedOn(LessThan, Nat)
  BY NatLessThanWellFounded DEF LessThan
<1>2. PICK x \in S : \A y \in S : ~(<<y, x>> \in LessThan)
  BY <1>1, WFMin, Zenon
<1>3. \A y \in S : ~(y < x)
  BY <1>2 DEF LessThan, OpToRel
<1>4. \A y \in S : x =< y
  BY <1>3
<1> QED BY <1>4 DEF Min

LEMMA FreshObjectIs ==
  ASSUME NEW h, Tidy(h), h.live # Objects
  PROVE  FreshObject(h) \in Objects \ h.live
<1>1. Objects \ h.live \in SUBSET Nat /\ Objects \ h.live # {}
  BY NullIsNoObject DEF Tidy, HeapType
<1> QED BY <1>1, MinIsInSet DEF FreshObject

----------------------------------------------------------------------------
(*                  What the operations do to source_files                 *)

LEMMA HeapFields ==
  ASSUME NEW h, Tidy(h)
  PROVE  /\ h.objects \in [Objects -> SourceFileType]
         /\ h.live \subseteq Objects /\ h.table \in Seq(Objects)
         /\ h.bdir \in [Paths -> BackupFiles \cup {Null}]
         /\ h.bdata \in [BackupFiles -> SUBSET (Inodes \X Nat)]
         /\ \A o \in Objects : /\ h.objects[o] \in SourceFileType
                               /\ h.objects[o].refs \in Nat
                               /\ h.objects[o].unlinked \in BOOLEAN
                               /\ h.objects[o].name \in Names \cup {NoName}
                               /\ h.objects[o].dest \in Destinations
  BY DEF Tidy, HeapType, SourceFileType

(* An operation that changes one source_file, but not its name, leaves the *)
(* table tidy.                                                             *)
LEMMA ChangeOfOneObject ==
  ASSUME NEW h, Tidy(h), NEW o \in h.live, NEW e \in SourceFileType,
         e.name = h.objects[o].name
  PROVE  LET g == [h EXCEPT !.objects[o] = e]
         IN  /\ Tidy(g) /\ g.objects[o] = e /\ OnlyObject(h, g, o)
             /\ g.live = h.live /\ g.table = h.table /\ SameFiles(h, g)
<1> DEFINE g == [h EXCEPT !.objects[o] = e]
<1>1. o \in Objects /\ h \in HeapType
  BY DEF Tidy, HeapType
<1>2. /\ g.live = h.live /\ g.table = h.table /\ SameFiles(h, g)
      /\ g.objects = [h.objects EXCEPT ![o] = e]
  BY <1>1 DEF HeapType, SameFiles
<1>3. g.objects[o] = e /\ OnlyObject(h, g, o)
  BY <1>1, <1>2, HeapFields DEF OnlyObject
<1>4. g \in HeapType
  BY <1>1 DEF HeapType
<1> HIDE DEF g
<1>5. \A p \in Objects : g.objects[p].name = h.objects[p].name
  BY <1>3 DEF OnlyObject
<1>6. Tidy(g)
  <2>1. Distinct(g.table) /\ Entries(g.table) = g.live
    BY <1>2 DEF Tidy
  <2>2. g.live \subseteq Objects
    BY <1>4 DEF HeapType
  <2>3. \A p \in g.live : g.objects[p].name \in Names
    BY <1>2, <1>5, <2>2 DEF Tidy
  <2>4. \A p, q \in g.live : g.objects[p].name = g.objects[q].name => p = q
    BY <1>2, <1>5, <2>2 DEF Tidy
  <2>5. \A p \in Objects \ g.live : g.objects[p] = NoObject
    BY <1>2, <1>3 DEF Tidy, OnlyObject
  <2> QED BY <1>4, <2>1, <2>3, <2>4, <2>5 DEF Tidy
<1> QED BY <1>2, <1>3, <1>6 DEF g

LEMMA GetOrCreateIs ==
  ASSUME NEW h, Tidy(h), NEW name \in Names, h.live # Objects
  PROVE  LET g == GetOrCreate(h, name)
             o == Lookup(g, name)
         IN  /\ Tidy(g) /\ o \in g.live /\ g.objects[o].name = name
             /\ g.live = h.live \cup {o} /\ SameFiles(h, g) /\ OnlyObject(h, g, o)
             /\ o \in h.live => g.objects[o] = WithReference(h.objects[o])
             /\ o \notin h.live =>
                  /\ g.objects[o] = NewObject(name)
                  /\ \A p \in h.live : h.objects[p].name # name
<1> DEFINE found == Lookup(h, name)
           g == GetOrCreate(h, name)
<1>0. h.live \subseteq Objects /\ \A o \in Objects : h.objects[o] \in SourceFileType
  BY HeapFields
<1>1. CASE found # Null
  <2> DEFINE e == [h.objects[found] EXCEPT !.refs = @ + 1]
  <2>1. found \in h.live /\ h.objects[found].name = name
    BY <1>1, LookupIs
  <2>2. e \in SourceFileType /\ e.name = h.objects[found].name
    BY <1>0, <2>1 DEF SourceFileType
  <2>3. g = [h EXCEPT !.objects[found] = e]
    BY <1>1 DEF GetOrCreate
  <2>4. /\ Tidy(g) /\ g.objects[found] = e /\ OnlyObject(h, g, found)
        /\ g.live = h.live /\ SameFiles(h, g)
    <3> HIDE DEF e, g, found
    <3> QED BY <2>1, <2>2, <2>3, ChangeOfOneObject
  <2>5. Lookup(g, name) = found
    <3> HIDE DEF e, g, found
    <3>1. g.objects[found].name = name /\ found \in g.live
      BY <2>1, <2>2, <2>4
    <3>2. Lookup(g, name) \in g.live /\ g.objects[Lookup(g, name)].name = name
      BY <2>4, <3>1, LookupIs
    <3> QED BY <2>4, <3>1, <3>2 DEF Tidy
  <2>6. g.live = h.live \cup {found}
    BY <2>1, <2>4
  <2> HIDE DEF g, found
  <2> QED BY <2>1, <2>2, <2>4, <2>5, <2>6 DEF g, WithReference
<1>2. CASE found = Null
  <2> DEFINE new == FreshObject(h)
             e == [NoObject EXCEPT !.name = name, !.refs = 1]
             k == [h EXCEPT !.live = @ \cup {new}, !.objects[new] = e]
  <2>1. \A o \in h.live : h.objects[o].name # name
    BY <1>2, LookupIs, NullIsNoObject
  <2>2. new \in Objects /\ new \notin h.live
    BY FreshObjectIs
  <2>3. e \in SourceFileType /\ e.name = name /\ NoObject \in SourceFileType
    BY DEF SourceFileType, NoObject, Destinations
  <2>4. g = Put(k, new)
    BY <1>2 DEF GetOrCreate
  <2> HIDE DEF e, new, found
  <2>5. /\ k.live = h.live \cup {new} /\ k.table = h.table
        /\ k.bdir = h.bdir /\ k.bdata = h.bdata
        /\ k.objects = [h.objects EXCEPT ![new] = e] /\ k \in HeapType
    BY <2>2, <2>3 DEF Tidy, HeapType
  <2>6. new \notin Range(k.table)
    <3>1. Range(h.table) = Entries(h.table)
      BY HeapFields, LenProperties DEF Range, Entries
    <3> QED BY <2>2, <2>5, <3>1 DEF Tidy
  <2> HIDE DEF k
  <2>7. g = [k EXCEPT !.table = <<new>> \o k.table]
    BY <2>4, <2>6 DEF Put
  <2>8. /\ g.live = h.live \cup {new} /\ g.table = <<new>> \o h.table
        /\ g.bdir = h.bdir /\ g.bdata = h.bdata
        /\ g.objects = [h.objects EXCEPT ![new] = e]
    BY <2>5, <2>7 DEF HeapType
  <2>9. /\ g.table \in Seq(Objects) /\ Distinct(g.table)
        /\ Entries(g.table) = g.live
    BY <2>2, <2>8, HeapFields, PutFront DEF Tidy
  <2>10. g \in HeapType
    BY <2>5, <2>7, <2>8, <2>9 DEF HeapType
  <2> HIDE DEF g
  <2>11. g.objects[new] = e /\ OnlyObject(h, g, new)
    BY <2>2, <2>8, HeapFields DEF OnlyObject
  <2>12. Tidy(g)
    <3>1. \A p \in g.live : g.objects[p].name \in Names
      BY <1>0, <2>2, <2>3, <2>8, <2>11 DEF Tidy, OnlyObject
    <3>2. \A p, q \in g.live : g.objects[p].name = g.objects[q].name => p = q
      <4>1. \A p \in h.live : p \in Objects \ {new}
        BY <1>0, <2>2
      <4>2. \A p \in h.live : g.objects[p].name = h.objects[p].name
        BY <2>11, <4>1 DEF OnlyObject
      <4>3. \A p, q \in h.live : g.objects[p].name = g.objects[q].name => p = q
        BY <4>2 DEF Tidy
      <4>4. \A p \in h.live : g.objects[p].name # g.objects[new].name
        BY <2>1, <2>3, <2>11, <4>2
      <4> QED BY <2>8, <4>3, <4>4
    <3>3. \A p \in Objects \ g.live : g.objects[p] = NoObject
      BY <2>8, <2>11 DEF Tidy, OnlyObject
    <3> QED BY <2>9, <2>10, <3>1, <3>2, <3>3 DEF Tidy
  <2>13. Lookup(g, name) = new
    <3>1. new \in g.live /\ g.objects[new].name = name
      BY <2>3, <2>8, <2>11
    <3>2. Lookup(g, name) \in g.live /\ g.objects[Lookup(g, name)].name = name
      BY <2>12, <3>1, LookupIs
    <3> QED BY <2>12, <3>1, <3>2 DEF Tidy
  <2>14. SameFiles(h, g) /\ g.objects[new].name = name /\ new \in g.live
    BY <2>3, <2>8, <2>11 DEF SameFiles
  <2> QED BY <2>1, <2>2, <2>8, <2>11, <2>12, <2>13, <2>14 DEF g, e, NewObject
<1> QED BY <1>1, <1>2

LEMMA NoDestinationIsNone ==
  /\ NoDestination \in Destinations /\ NoDestination.file = Null
  /\ \A d \in Destinations : d # NoDestination <=> d.file \in BackupFiles
  /\ \A d \in Destinations : d # NoDestination => d.path \in Paths
  /\ Null \notin BackupFiles /\ BackupFiles \in SUBSET Nat
<1>1. Null \notin BackupFiles /\ BackupFiles \in SUBSET Nat
  BY DEF Null, BackupFiles
<1> QED BY <1>1 DEF Destinations, NoDestination

LEMMA TryToRemoveDestinationIs ==
  ASSUME NEW h, Tidy(h), NEW o \in h.live
  PROVE  LET g == TryToRemoveDestination(h, o)
         IN  /\ Tidy(g) /\ OnlyObject(h, g, o)
             /\ g.live = h.live /\ g.table = h.table /\ SameFiles(h, g)
             /\ g.objects[o] = IF h.objects[o].refs > 1 THEN h.objects[o]
                               ELSE [h.objects[o] EXCEPT !.dest = NoDestination]
<1> DEFINE e == [h.objects[o] EXCEPT !.dest = NoDestination]
           g == TryToRemoveDestination(h, o)
<1>1. o \in Objects /\ h.objects[o] \in SourceFileType
  BY HeapFields
<1>2. e \in SourceFileType /\ e.name = h.objects[o].name
  BY <1>1, NoDestinationIsNone DEF SourceFileType
<1>3. CASE h.objects[o].refs > 1
  BY <1>3 DEF TryToRemoveDestination, OnlyObject, SameFiles
<1>4. CASE ~(h.objects[o].refs > 1)
  <2>1. g = [h EXCEPT !.objects[o] = e]
    BY <1>4 DEF TryToRemoveDestination
  <2> HIDE DEF g, e
  <2>2. /\ Tidy(g) /\ g.objects[o] = e /\ OnlyObject(h, g, o)
        /\ g.live = h.live /\ g.table = h.table /\ SameFiles(h, g)
    BY <1>2, <2>1, ChangeOfOneObject
  <2> QED BY <1>4, <2>2 DEF g, e
<1> QED BY <1>3, <1>4

LEMMA UnhookIs ==
  ASSUME NEW h, Tidy(h), NEW o \in h.live
  PROVE  LET t == Unhook(h, o).table
         IN  /\ Unhook(h, o) = [h EXCEPT !.table = t]
             /\ t \in Seq(Objects) /\ Distinct(t) /\ Entries(t) = h.live \ {o}
<1> DEFINE i == Position(h, h.objects[o].name)
           t == RemoveAt(h.table, i)
<1>1. i \in 1..Len(h.table) /\ h.table[i] = o
  BY PositionOfLive
<1>2. i # 0
  BY <1>1, LenProperties
<1>3. Unhook(h, o) = [h EXCEPT !.table = t]
  BY <1>2 DEF Unhook
<1>4. t \in Seq(Objects) /\ Distinct(t) /\ Entries(t) = h.live \ {o}
  <2> HIDE DEF i
  <2> QED BY <1>1, HeapFields, RemoveEntry DEF Tidy
<1>5. Unhook(h, o).table = t
  BY <1>3 DEF Tidy, HeapType
<1> QED BY <1>3, <1>4, <1>5

LEMMA TryToRemoveIs ==
  ASSUME NEW h, Tidy(h), NEW o \in h.live, h.objects[o].refs >= 1
  PROVE  LET g == TryToRemove(h, o)
         IN  /\ Tidy(g) /\ OnlyObject(h, g, o) /\ SameFiles(h, g)
             /\ h.objects[o].refs > 1 =>
                  /\ g.live = h.live
                  /\ g.objects[o] = [h.objects[o] EXCEPT !.refs = @ - 1]
             /\ h.objects[o].refs = 1 =>
                  g.live = h.live \ {o} /\ g.objects[o] = NoObject
<1> DEFINE g == TryToRemove(h, o)
           e == [h.objects[o] EXCEPT !.refs = @ - 1]
           released == [h EXCEPT !.objects[o] = e]
           closed == TryToRemoveDestination(released, o)
           removed == Unhook(closed, o)
<1>1. o \in Objects /\ h.objects[o] \in SourceFileType /\ h.objects[o].refs \in Nat
  BY HeapFields
<1>2. e \in SourceFileType /\ e.name = h.objects[o].name
      /\ e.refs = h.objects[o].refs - 1 /\ e.refs \in Nat
  BY <1>1 DEF SourceFileType
<1>3. g = IF released.objects[o].refs > 0 THEN released
          ELSE [removed EXCEPT !.live = @ \ {o}, !.objects[o] = NoObject]
  BY DEF TryToRemove
<1> HIDE DEF g, e
<1>4. /\ Tidy(released) /\ released.objects[o] = e /\ OnlyObject(h, released, o)
      /\ released.live = h.live /\ released.table = h.table
      /\ SameFiles(h, released)
  BY <1>2, ChangeOfOneObject
<1> HIDE DEF released
<1>5. CASE h.objects[o].refs > 1
  <2>1. g = released
    BY <1>1, <1>2, <1>3, <1>4, <1>5
  <2> QED BY <1>1, <1>4, <1>5, <2>1 DEF e, g
<1>6. CASE h.objects[o].refs = 1
  <2>1. g = [removed EXCEPT !.live = @ \ {o}, !.objects[o] = NoObject]
    BY <1>2, <1>3, <1>4, <1>6
  <2>2. /\ Tidy(closed) /\ OnlyObject(released, closed, o)
        /\ closed.live = h.live /\ SameFiles(released, closed)
    BY <1>4, TryToRemoveDestinationIs
  <2> HIDE DEF closed
  <2>3. /\ removed = [closed EXCEPT !.table = removed.table]
        /\ removed.table \in Seq(Objects) /\ Distinct(removed.table)
        /\ Entries(removed.table) = h.live \ {o}
    BY <2>2, UnhookIs
  <2> HIDE DEF removed
  <2>4. /\ g.live = h.live \ {o} /\ g.table = removed.table
        /\ g.bdir = closed.bdir /\ g.bdata = closed.bdata
        /\ g.objects = [closed.objects EXCEPT ![o] = NoObject]
        /\ g \in HeapType
    <3>1. NoObject \in SourceFileType
      BY DEF SourceFileType, NoObject, Destinations
    <3>2. closed \in HeapType
      BY <2>2 DEF Tidy
    <3>3. removed.live = closed.live /\ removed.bdir = closed.bdir
          /\ removed.bdata = closed.bdata /\ removed.objects = closed.objects
          /\ removed \in HeapType
      BY <2>3, <3>2 DEF HeapType
    <3> QED BY <1>1, <2>1, <2>2, <3>1, <3>3 DEF HeapType
  <2>5. g.objects[o] = NoObject /\ OnlyObject(closed, g, o)
    BY <1>1, <2>2, <2>4, HeapFields DEF OnlyObject
  <2>6. OnlyObject(h, g, o)
    BY <1>4, <2>2, <2>5 DEF OnlyObject
  <2>7. Tidy(g)
    <3>1. \A p \in g.live : p \in Objects \ {o} /\ p \in h.live
      BY <2>4, HeapFields
    <3>2. \A p \in g.live : g.objects[p] = h.objects[p]
      BY <2>6, <3>1 DEF OnlyObject
    <3>3. /\ \A p \in g.live : g.objects[p].name \in Names
          /\ \A p, q \in g.live : g.objects[p].name = g.objects[q].name => p = q
      BY <3>1, <3>2 DEF Tidy
    <3>4. \A p \in Objects \ g.live : g.objects[p] = NoObject
      BY <2>4, <2>5, <2>6 DEF Tidy, OnlyObject
    <3> QED BY <2>3, <2>4, <3>3, <3>4 DEF Tidy
  <2>8. SameFiles(h, g)
    BY <1>4, <2>2, <2>4 DEF SameFiles
  <2> QED BY <1>6, <2>4, <2>5, <2>6, <2>7, <2>8 DEF g
<1> QED BY <1>1, <1>5, <1>6

(* What a function on a finite set takes is no larger than the set. *)
LEMMA ImageIsNotLarger ==
  ASSUME NEW S, IsFiniteSet(S), NEW f, DOMAIN f = S
  PROVE  IsFiniteSet({f[x] : x \in S}) /\ Cardinality({f[x] : x \in S}) <= Cardinality(S)
<1> DEFINE T == {f[x] : x \in S}
           g == [x \in S |-> f[x]]
<1>1. g \in Surjection(S, T)
  BY DEF Surjection
<1> QED BY <1>1, FS_Surjection

LEMMA PathsAreFinite ==
  ASSUME FileTableAssumption
  PROVE  /\ IsFiniteSet(Paths)
         /\ Cardinality(Paths) = Cardinality(Names) * MaxSessions
         /\ Cardinality(Names) \in Nat /\ Cardinality(Paths) \in Nat
<1>1. IsFiniteSet(1..MaxSessions) /\ Cardinality(1..MaxSessions) = MaxSessions
  BY FS_Interval DEF FileTableAssumption
<1>2. IsFiniteSet(Names) /\ Cardinality(Names) \in Nat /\ MaxSessions \in Nat
  BY FS_CardinalityType DEF FileTableAssumption
<1>3. /\ IsFiniteSet(Paths)
      /\ Cardinality(Paths) = MaxSessions * Cardinality(Names)
  BY <1>1, <1>2, FS_Product DEF Paths
<1> QED BY <1>2, <1>3, FS_CardinalityType

LEMMA BackupFilesAreFinite ==
  /\ IsFiniteSet(BackupFiles) /\ IsFiniteSet(Objects)
  /\ Cardinality(Objects) = MaxObjects /\ MaxObjects \in Nat
  /\ Cardinality(BackupFiles) = Cardinality(Paths) + MaxObjects
<1>1. MaxObjects \in Nat /\ IsFiniteSet(Objects) /\ Cardinality(Objects) = MaxObjects
  BY FileTableAssumption, FS_Interval DEF FileTableAssumption, Objects
<1>2. Cardinality(Names) * MaxSessions \in Nat
  BY FileTableAssumption, PathsAreFinite
<1>3. /\ IsFiniteSet(BackupFiles)
      /\ Cardinality(BackupFiles) = Cardinality(Names) * MaxSessions + MaxObjects
  <2> DEFINE n == Cardinality(Names) * MaxSessions + MaxObjects
  <2>1. n \in Nat
    BY <1>1, <1>2
  <2> HIDE DEF n
  <2>2. IsFiniteSet(1..n) /\ Cardinality(1..n) = n
    <3>1. 1 \in Int /\ n \in Int /\ (IF 1 > n THEN 0 ELSE n - 1 + 1) = n
      BY <2>1
    <3> QED BY <3>1, FS_Interval
  <2> QED BY <2>2 DEF n, BackupFiles
<1> QED BY <1>1, <1>3, FileTableAssumption, PathsAreFinite

(* The bound on the backup files is enough: there is one for each          *)
(* source_file that has none.                                              *)
LEMMA EnoughBackupFiles ==
  ASSUME NEW h, Tidy(h), NEW S \in SUBSET h.live,
         \A o \in S : Dest(h, o) = NoDestination
  PROVE  /\ IsFiniteSet(FreeBackupFiles(h)) /\ IsFiniteSet(S)
         /\ Cardinality(S) <= Cardinality(FreeBackupFiles(h))
<1> DEFINE free == FreeBackupFiles(h)
           A == {h.bdir[p] : p \in Paths}
           d == [o \in Objects \ S |-> Dest(h, o).file]
           B == {d[o] : o \in Objects \ S}
           X == BackupFiles \cap (A \cup B)
<1>0. /\ S \subseteq Objects /\ IsFiniteSet(Objects) /\ IsFiniteSet(S)
      /\ IsFiniteSet(BackupFiles) /\ IsFiniteSet(Paths)
  <2>1. S \subseteq Objects
    BY HeapFields
  <2> QED BY <2>1, BackupFilesAreFinite, FS_Subset, PathsAreFinite, FileTableAssumption
<1>1. IsFiniteSet(A) /\ Cardinality(A) <= Cardinality(Paths)
  <2>1. DOMAIN h.bdir = Paths
    BY HeapFields
  <2> QED BY <1>0, <2>1, ImageIsNotLarger
<1>2. /\ IsFiniteSet(Objects \ S) /\ IsFiniteSet(B)
      /\ Cardinality(B) <= Cardinality(Objects \ S)
  <2>1. IsFiniteSet(Objects \ S) /\ DOMAIN d = Objects \ S
    BY <1>0, FS_Difference
  <2> HIDE DEF d
  <2> QED BY <2>1, ImageIsNotLarger
<1>3. Cardinality(Objects \ S) = Cardinality(Objects) - Cardinality(S)
  <2>1. Objects \cap S = S
    BY <1>0
  <2> QED BY <1>0, <2>1, FS_Difference
<1> HIDE DEF A, d, B
<1>4. /\ IsFiniteSet(A \cup B) /\ IsFiniteSet(X)
      /\ Cardinality(X) <= Cardinality(A) + Cardinality(B)
  <2>1. /\ IsFiniteSet(A \cup B) /\ IsFiniteSet(A \cap B)
        /\ Cardinality(A \cup B) = Cardinality(A) + Cardinality(B) - Cardinality(A \cap B)
    BY <1>1, <1>2, FS_Union, FS_Intersection
  <2>2. X \in SUBSET (A \cup B)
    OBVIOUS
  <2>3. IsFiniteSet(X) /\ Cardinality(X) <= Cardinality(A \cup B)
    BY <2>1, <2>2, FS_Subset
  <2>4. /\ Cardinality(A) \in Nat /\ Cardinality(B) \in Nat /\ Cardinality(X) \in Nat
        /\ Cardinality(A \cap B) \in Nat /\ Cardinality(A \cup B) \in Nat
    BY <1>1, <1>2, <2>1, <2>3, FS_CardinalityType
  <2> HIDE DEF X
  <2> QED BY <2>1, <2>3, <2>4
<1>5. /\ IsFiniteSet(BackupFiles \ X)
      /\ Cardinality(BackupFiles \ X) = Cardinality(BackupFiles) - Cardinality(X)
  <2>1. BackupFiles \cap X = X
    OBVIOUS
  <2> QED BY <1>0, <2>1, FS_Difference
<1>6. BackupFiles \ X \in SUBSET free
  <2>1. Range(h.bdir) = A
    BY HeapFields DEF Range, A
  <2>2. \A o \in h.live : Dest(h, o).file \in B \cup {Null}
    <3>1. \A o \in S : Dest(h, o).file = Null
      BY NoDestinationIsNone
    <3>2. \A o \in h.live : o \in S \/ o \in Objects \ S
      BY HeapFields
    <3> QED BY <3>1, <3>2 DEF B, d
  <2> QED BY <2>1, <2>2, NoDestinationIsNone DEF FreeBackupFiles
<1>7. IsFiniteSet(free) /\ Cardinality(BackupFiles \ X) <= Cardinality(free)
  <2>1. free \in SUBSET BackupFiles
    BY DEF FreeBackupFiles
  <2>2. IsFiniteSet(free)
    BY <1>0, <2>1, FS_Subset
  <2> HIDE DEF free, X
  <2> QED BY <1>6, <2>2, FS_Subset
<1>8. /\ Cardinality(A) \in Nat /\ Cardinality(B) \in Nat /\ Cardinality(S) \in Nat
      /\ Cardinality(Objects \ S) \in Nat /\ Cardinality(X) \in Nat
      /\ Cardinality(Paths) \in Nat /\ Cardinality(free) \in Nat
      /\ Cardinality(BackupFiles \ X) \in Nat
  BY <1>0, <1>1, <1>2, <1>4, <1>5, <1>7, FS_CardinalityType
<1> HIDE DEF free, X
<1>9. Cardinality(S) <= Cardinality(free)
  BY <1>1, <1>2, <1>3, <1>4, <1>5, <1>7, <1>8, BackupFilesAreFinite
<1> QED BY <1>0, <1>7, <1>9 DEF free

LEMMA FreshBackupFileIs ==
  ASSUME NEW h, Tidy(h), NEW o \in h.live, Dest(h, o) = NoDestination
  PROVE  FreshBackupFile(h) \in FreeBackupFiles(h)
<1>1. /\ IsFiniteSet(FreeBackupFiles(h))
      /\ Cardinality({o}) <= Cardinality(FreeBackupFiles(h))
  BY EnoughBackupFiles
<1>2. FreeBackupFiles(h) # {}
  <2>1. Cardinality({o}) = 1 /\ Cardinality({}) = 0
    BY FS_Singleton, FS_EmptySet
  <2> QED BY <1>1, <2>1
<1>3. FreeBackupFiles(h) \in SUBSET Nat
  BY NoDestinationIsNone DEF FreeBackupFiles
<1> QED BY <1>2, <1>3, MinIsInSet DEF FreshBackupFile

(* What happens to the backup directories leaves the table tidy. *)
LEMMA ChangeOfFiles ==
  ASSUME NEW h, Tidy(h),
         NEW bdir \in [Paths -> BackupFiles \cup {Null}],
         NEW bdata \in [BackupFiles -> SUBSET (Inodes \X Nat)],
         NEW g, g = WithFiles(h, bdir, bdata)
  PROVE  /\ Tidy(g) /\ g.bdir = bdir /\ g.bdata = bdata
         /\ g.objects = h.objects /\ g.live = h.live /\ g.table = h.table
<1>1. /\ g.bdir = bdir /\ g.bdata = bdata /\ g \in HeapType
      /\ g.objects = h.objects /\ g.live = h.live /\ g.table = h.table
  BY DEF Tidy, HeapType, WithFiles
<1>2. Tidy(g)
  BY <1>1 DEF Tidy
<1> QED BY <1>1, <1>2

LEMMA TryToCreateDestinationIs ==
  ASSUME NEW h, Tidy(h), NEW o \in h.live, NEW path \in Paths
  PROVE  LET g == TryToCreateDestination(h, o, path)
         IN  /\ ~NeedsDestination(h, o) => g = h
             /\ NeedsDestination(h, o) =>
                  \E b \in BackupFiles : DestinationCreated(h, g, o, path, b)
<1> DEFINE g == TryToCreateDestination(h, o, path)
           b == IF h.bdir[path] # Null THEN h.bdir[path] ELSE FreshBackupFile(h)
           e == [h.objects[o] EXCEPT !.dest = [file |-> b, path |-> path]]
           bdir == [h.bdir EXCEPT ![path] = b]
           bdata == [h.bdata EXCEPT ![b] = IF h.bdir[path] # Null THEN @ ELSE {}]
           k == [h EXCEPT !.bdir = bdir, !.bdata = bdata]
<1>1. CASE ~NeedsDestination(h, o)
  BY <1>1 DEF TryToCreateDestination
<1>2. CASE NeedsDestination(h, o)
  <2>1. /\ b \in BackupFiles
        /\ h.bdir[path] = Null => b \in FreeBackupFiles(h)
    <3>1. h.bdir[path] \in BackupFiles \cup {Null}
      BY HeapFields
    <3>2. h.bdir[path] = Null => FreshBackupFile(h) \in FreeBackupFiles(h)
      BY <1>2, FreshBackupFileIs DEF NeedsDestination
    <3>3. FreeBackupFiles(h) \subseteq BackupFiles
      BY DEF FreeBackupFiles
    <3> QED BY <3>1, <3>2, <3>3
  <2>2. /\ bdir \in [Paths -> BackupFiles \cup {Null}]
        /\ bdata \in [BackupFiles -> SUBSET (Inodes \X Nat)]
    BY <2>1, HeapFields
  <2>3. e \in SourceFileType /\ e.name = h.objects[o].name
    <3>1. h.objects[o] \in SourceFileType
      BY HeapFields
    <3>2. [file |-> b, path |-> path] \in Destinations
      BY <2>1 DEF Destinations
    <3> HIDE DEF b
    <3> QED BY <3>1, <3>2 DEF SourceFileType
  <2>4. g = [k EXCEPT !.objects[o] = e]
    <3>1. h \in HeapType
      BY DEF Tidy
    <3> QED BY <1>2, <3>1 DEF TryToCreateDestination, HeapType
  <2>5. \A c \in BackupFiles : c = b \/ bdata[c] = h.bdata[c]
    BY HeapFields
  <2>6. IF h.bdir[path] # Null THEN bdata = h.bdata ELSE bdata[b] = {}
    BY <2>1, HeapFields
  <2> HIDE DEF g, b, e, bdata, bdir
  <2>7. /\ Tidy(k) /\ k.bdir = bdir /\ k.bdata = bdata
        /\ k.objects = h.objects /\ k.live = h.live /\ k.table = h.table
    <3> HIDE DEF k
    <3>1. k = WithFiles(h, bdir, bdata)
      BY DEF k, WithFiles
    <3> QED BY <2>2, <3>1, ChangeOfFiles
  <2> HIDE DEF k
  <2>8. /\ Tidy(g) /\ g.objects[o] = e /\ OnlyObject(k, g, o)
        /\ g.live = k.live /\ g.table = k.table /\ SameFiles(k, g)
    BY <2>3, <2>4, <2>7, ChangeOfOneObject
  <2>9. /\ OnlyObject(h, g, o) /\ g.live = h.live /\ g.table = h.table
        /\ g.bdir = bdir /\ g.bdata = bdata
    BY <2>7, <2>8 DEF OnlyObject, SameFiles
  <2>10. h.bdir[path] # Null => b = h.bdir[path]
    BY DEF b
  <2> QED BY <1>2, <2>1, <2>5, <2>6, <2>8, <2>9, <2>10
          DEF DestinationCreated, g, e, bdir
<1> QED BY <1>1, <1>2

LEMMA WriteDestinationIs ==
  ASSUME NEW h, Tidy(h), NEW o \in h.live, NEW content \in SUBSET (Inodes \X Nat)
  PROVE  LET g == WriteDestination(h, o, content)
         IN  /\ Tidy(g) /\ g.objects = h.objects /\ g.live = h.live
             /\ g.table = h.table /\ g.bdir = h.bdir
             /\ \A c \in BackupFiles :
                  g.bdata[c] =
                    IF Dest(h, o) # NoDestination /\ c = Dest(h, o).file
                    THEN h.bdata[c] \cup content ELSE h.bdata[c]
<1> DEFINE g == WriteDestination(h, o, content)
           b == Dest(h, o).file
           bdata == [h.bdata EXCEPT ![b] = @ \cup content]
<1>1. CASE Dest(h, o) = NoDestination
  BY <1>1 DEF WriteDestination
<1>2. CASE Dest(h, o) # NoDestination
  <2>1. b \in BackupFiles
    BY <1>2, HeapFields, NoDestinationIsNone DEF Dest
  <2>2. /\ bdata \in [BackupFiles -> SUBSET (Inodes \X Nat)]
        /\ \A c \in BackupFiles :
             bdata[c] = IF c = b THEN h.bdata[c] \cup content ELSE h.bdata[c]
    BY <2>1, HeapFields
  <2>3. g = WithFiles(h, h.bdir, bdata)
    BY <1>2 DEF WriteDestination, Tidy, HeapType, WithFiles
  <2>4. h.bdir \in [Paths -> BackupFiles \cup {Null}]
    BY HeapFields
  <2> HIDE DEF g, bdata, b
  <2>5. /\ Tidy(g) /\ g.bdir = h.bdir /\ g.bdata = bdata
        /\ g.objects = h.objects /\ g.live = h.live /\ g.table = h.table
    BY <2>2, <2>3, <2>4, ChangeOfFiles
  <2> QED BY <1>2, <2>2, <2>5 DEF g, b
<1> QED BY <1>1, <1>2

LEMMA UnlinkDestinationIs ==
  ASSUME NEW h, Tidy(h), NEW o \in h.live, Dest(h, o) # NoDestination
  PROVE  LET g == UnlinkDestination(h, o)
         IN  /\ Tidy(g) /\ g.objects = h.objects /\ g.live = h.live
             /\ g.table = h.table /\ g.bdata = h.bdata
             /\ g.bdir = [h.bdir EXCEPT ![Dest(h, o).path] = Null]
<1> DEFINE g == UnlinkDestination(h, o)
           bdir == [h.bdir EXCEPT ![Dest(h, o).path] = Null]
<1>1. bdir \in [Paths -> BackupFiles \cup {Null}]
  BY HeapFields
<1>2. g = WithFiles(h, bdir, h.bdata)
  BY DEF UnlinkDestination, Tidy, HeapType, WithFiles
<1> HIDE DEF g, bdir
<1>3. h.bdata \in [BackupFiles -> SUBSET (Inodes \X Nat)]
  BY HeapFields
<1>4. /\ Tidy(g) /\ g.bdir = bdir /\ g.bdata = h.bdata
      /\ g.objects = h.objects /\ g.live = h.live /\ g.table = h.table
  BY <1>1, <1>2, <1>3, ChangeOfFiles
<1> QED BY <1>4 DEF g, bdir

(* file_hash_table::rename: the source_file moves to the front of the      *)
(* table with its new name, and its destination to the new path.           *)
LEMMA RenameObjectIs ==
  ASSUME NEW h, Tidy(h), NEW o \in h.live, NEW to \in Names, NEW path \in Paths,
         Dest(h, o) # NoDestination, ~DestinationIsGone(h, o)
  PROVE  LET g == RenameObject(h, o, to, path)
             from == Dest(h, o).path
         IN  /\ g \in HeapType /\ OnlyObject(h, g, o)
             /\ g.objects[o] = RenamedTo(h.objects[o], to, path)
             /\ g.live = h.live /\ g.bdata = h.bdata
             /\ g.bdir = IF from = path THEN h.bdir
                         ELSE [h.bdir EXCEPT ![path] = h.bdir[from], ![from] = Null]
             /\ Entries(g.table) = h.live /\ Distinct(g.table) /\ g.table[1] = o
             /\ Len(g.table) >= 1
<1> DEFINE g == RenameObject(h, o, to, path)
           d == Dest(h, o)
           from == d.path
           unhooked == Unhook(h, o)
           t == unhooked.table
           e == [h.objects[o] EXCEPT
                   !.name = to, !.dest = [file |-> d.file, path |-> path]]
           bdir == IF from = path THEN h.bdir
                   ELSE [h.bdir EXCEPT ![path] = h.bdir[from], ![from] = Null]
           nameSet == [unhooked EXCEPT !.objects[o].name = to]
           moved == RenameDestination(nameSet, o, path)
<1>0. /\ h \in HeapType /\ o \in Objects /\ h.objects[o] \in SourceFileType
      /\ d \in Destinations /\ d.file \in BackupFiles /\ from \in Paths
      /\ d = [file |-> d.file, path |-> from]
  <2>1. h \in HeapType /\ o \in Objects /\ h.objects[o] \in SourceFileType /\ d \in Destinations
    BY HeapFields DEF Tidy, Dest
  <2>2. d \in [file : BackupFiles, path : Paths]
    BY <2>1 DEF Destinations
  <2> QED BY <2>1, <2>2
<1>1. /\ unhooked = [h EXCEPT !.table = t]
      /\ t \in Seq(Objects) /\ Distinct(t) /\ Entries(t) = h.live \ {o}
  BY UnhookIs
<1>2. e \in SourceFileType
  BY <1>0 DEF SourceFileType, Destinations
<1>3. bdir \in [Paths -> BackupFiles \cup {Null}]
  BY <1>0, HeapFields
<1> HIDE DEF unhooked, t
<1>4. /\ nameSet.objects = [h.objects EXCEPT ![o] = [h.objects[o] EXCEPT !.name = to]]
      /\ nameSet.live = h.live /\ nameSet.table = t
      /\ nameSet.bdir = h.bdir /\ nameSet.bdata = h.bdata /\ nameSet \in HeapType
      /\ Dest(nameSet, o) = d
  BY <1>0, <1>1 DEF HeapType, SourceFileType, Dest
<1> HIDE DEF nameSet
<1>5. /\ moved.objects = [h.objects EXCEPT ![o] = e]
      /\ moved.live = h.live /\ moved.table = t
      /\ moved.bdir = bdir /\ moved.bdata = h.bdata /\ moved \in HeapType
  <2> DEFINE p == [nameSet EXCEPT !.objects[o].dest.path = path]
  <2>1. /\ p.objects = [h.objects EXCEPT ![o] = e]
        /\ p.live = h.live /\ p.table = t
        /\ p.bdir = h.bdir /\ p.bdata = h.bdata
    <3>1. p.objects = [nameSet.objects EXCEPT ![o] =
                         [nameSet.objects[o] EXCEPT !.dest =
                            [nameSet.objects[o].dest EXCEPT !.path = path]]]
      BY <1>0, <1>4 DEF HeapType
    <3>2. nameSet.objects[o].dest = d
      BY <1>4 DEF Dest
    <3>3. [d EXCEPT !.path = path] = [file |-> d.file, path |-> path]
      BY <1>0
    <3>4. /\ nameSet.objects[o] = [h.objects[o] EXCEPT !.name = to]
          /\ [nameSet.objects[o] EXCEPT !.dest = [file |-> d.file, path |-> path]] = e
      BY <1>0, <1>4 DEF HeapType, SourceFileType
    <3>5. p.objects = [h.objects EXCEPT ![o] = e]
      <4> HIDE DEF p, e, d
      <4> QED BY <1>0, <1>4, <3>1, <3>2, <3>3, <3>4 DEF HeapType
    <3>6. p.live = h.live /\ p.table = t /\ p.bdir = h.bdir /\ p.bdata = h.bdata
      BY <1>4 DEF HeapType
    <3> QED BY <3>5, <3>6
  <2>2. p \in HeapType
    <3>1. p = [nameSet EXCEPT !.objects = p.objects]
      BY <1>4 DEF HeapType
    <3> HIDE DEF p, e
    <3> QED BY <1>0, <1>2, <1>4, <2>1, <3>1 DEF HeapType
  <2>3. ~DestinationIsGone(nameSet, o)
    BY <1>4 DEF DestinationIsGone, Dest
  <2>4. moved = IF from = path THEN p
                ELSE [p EXCEPT !.bdir[path] = nameSet.bdir[from], !.bdir[from] = Null]
    BY <1>4, <2>3 DEF RenameDestination
  <2> HIDE DEF moved, p, e, d
  <2>5. CASE from = path
    BY <2>1, <2>2, <2>4, <2>5
  <2>6. CASE from # path
    <3>1. moved = [p EXCEPT !.bdir = bdir]
      BY <1>4, <2>1, <2>2, <2>4, <2>6 DEF HeapType
    <3> HIDE DEF bdir
    <3> QED BY <1>3, <2>1, <2>2, <3>1 DEF HeapType
  <2> QED BY <2>5, <2>6
<1>6. o \notin Range(moved.table)
  <2>1. Range(t) = Entries(t)
    BY <1>1, LenProperties DEF Range, Entries
  <2> QED BY <1>1, <1>5, <2>1
<1>7. g = [moved EXCEPT !.table = <<o>> \o moved.table]
  <2>1. g = IF DestinationIsGone(h, o) THEN moved ELSE Put(moved, o)
    BY DEF RenameObject, nameSet, unhooked
  <2> HIDE DEF moved, g
  <2> QED BY <1>6, <2>1 DEF Put
<1> HIDE DEF moved, g, e, bdir
<1>8. /\ <<o>> \o t \in Seq(Objects) /\ (<<o>> \o t)[1] = o
      /\ Entries(<<o>> \o t) = h.live /\ Distinct(<<o>> \o t)
  <2>1. (h.live \ {o}) \cup {o} = h.live
    OBVIOUS
  <2> QED BY <1>0, <1>1, <2>1, PutFront, ZenonT(60)
<1>9. /\ g.table = <<o>> \o t /\ g.live = h.live /\ g.bdir = bdir
      /\ g.bdata = h.bdata /\ g.objects = [h.objects EXCEPT ![o] = e]
      /\ g \in HeapType
  BY <1>5, <1>7, <1>8 DEF HeapType
<1>10. g.objects[o] = e /\ OnlyObject(h, g, o)
  BY <1>0, <1>9, HeapFields DEF OnlyObject
<1>11. Len(g.table) >= 1
  <2>1. g.table # <<>>
    BY <1>8, <1>9, EmptySeq DEF Entries
  <2>2. g.table \in Seq(Objects)
    BY <1>8, <1>9
  <2>3. Len(g.table) \in Nat \ {0}
    BY <2>1, <2>2, EmptySeq
  <2> QED BY <2>3
<1> QED BY <1>8, <1>9, <1>10, <1>11 DEF g, e, bdir, d, Dest, RenamedTo

(* capture_rename as a whole: the source_file is nameSet, and the          *)
(* reference given back.                                                   *)
LEMMA RenameAndReleaseIs ==
  ASSUME NEW h, Tidy(h), NEW o \in h.live, NEW to \in Names, NEW path \in Paths,
         Dest(h, o) # NoDestination, ~DestinationIsGone(h, o),
         h.objects[o].refs >= 1,
         h.objects[o].refs = 1
           \/ \A p \in h.live \ {o} : h.objects[p].name # to
  PROVE  LET g == TryToRemove(RenameObject(h, o, to, path), o)
             from == Dest(h, o).path
         IN  /\ Tidy(g) /\ OnlyObject(h, g, o) /\ g.bdata = h.bdata
             /\ g.bdir = Moved(h.bdir, from, path)
             /\ h.objects[o].refs > 1 =>
                  /\ g.live = h.live
                  /\ g.objects[o] = Released(RenamedTo(h.objects[o], to, path))
             /\ h.objects[o].refs = 1 =>
                  g.live = h.live \ {o} /\ g.objects[o] = NoObject
<1> DEFINE k == RenameObject(h, o, to, path)
           g == TryToRemove(k, o)
           from == Dest(h, o).path
           bdir == IF from = path THEN h.bdir
                   ELSE [h.bdir EXCEPT ![path] = h.bdir[from], ![from] = Null]
           e == RenamedTo(h.objects[o], to, path)
<1> HIDE DEF bdir, k
<1>0. /\ k \in HeapType /\ OnlyObject(h, k, o) /\ k.objects[o] = e
      /\ k.live = h.live /\ k.bdata = h.bdata /\ k.bdir = bdir
      /\ Entries(k.table) = h.live /\ Distinct(k.table) /\ k.table[1] = o
      /\ Len(k.table) >= 1
  BY SMTT(30), RenameObjectIs DEF k, bdir
<1>1. o \in Objects /\ h.objects[o] \in SourceFileType /\ h.objects[o].refs \in Nat
  BY HeapFields
<1>2. /\ e.name = to /\ e.refs = h.objects[o].refs /\ e.unlinked = h.objects[o].unlinked
      /\ e.dest = [file |-> Dest(h, o).file, path |-> path]
      /\ e \in [name : {to}, refs : Nat, unlinked : BOOLEAN, dest : {e.dest}]
  BY <1>1 DEF SourceFileType, RenamedTo, Dest
<1> HIDE DEF e
<1>3. CASE h.objects[o].refs > 1
  <2>1. \A p \in h.live \ {o} : h.objects[p].name # to
    BY <1>1, <1>3
  <2>2. Tidy(k)
    <3>1. \A p \in h.live \ {o} : p \in Objects \ {o}
      BY HeapFields
    <3>2. \A p \in h.live \ {o} : k.objects[p] = h.objects[p]
      BY <1>0, <3>1 DEF OnlyObject
    <3>3. \A p \in k.live : k.objects[p].name \in Names
      <4>1. \A p \in h.live \ {o} : k.objects[p].name \in Names
        BY <3>2 DEF Tidy
      <4> QED BY <1>0, <1>2, <4>1
    <3>4. \A p, q \in k.live : k.objects[p].name = k.objects[q].name => p = q
      <4>1. \A p \in h.live \ {o} : k.objects[p].name # k.objects[o].name
        BY <1>0, <1>2, <2>1, <3>2
      <4>2. \A p, q \in h.live \ {o} : k.objects[p].name = k.objects[q].name => p = q
        BY <3>2 DEF Tidy
      <4> QED BY <1>0, <4>1, <4>2
    <3>5. \A p \in Objects \ k.live : k.objects[p] = NoObject
      BY <1>0 DEF Tidy, OnlyObject
    <3> QED BY <1>0, <3>3, <3>4, <3>5 DEF Tidy
  <2>3. k.objects[o].refs > 1
    BY <1>0, <1>2, <1>3
  <2>4. o \in k.live /\ k.objects[o].refs >= 1
    BY <1>0, <1>1, <1>2, <2>3
  <2>5. /\ Tidy(g) /\ OnlyObject(k, g, o) /\ SameFiles(k, g)
        /\ g.live = k.live
        /\ g.objects[o] = [k.objects[o] EXCEPT !.refs = @ - 1]
    BY <2>2, <2>3, <2>4, TryToRemoveIs
  <2> HIDE DEF g
  <2>7. OnlyObject(h, g, o)
    BY <1>0, <2>5 DEF OnlyObject
  <2> QED BY <1>0, <1>3, <2>5, <2>7 DEF SameFiles, g, k, bdir, e, Moved, Released
<1>4. CASE h.objects[o].refs = 1
  <2> DEFINE x == [e EXCEPT !.refs = @ - 1]
             released == [k EXCEPT !.objects[o].refs = @ - 1]
             closed == TryToRemoveDestination(released, o)
             removed == Unhook(closed, o)
  <2>1. /\ x.refs = 0 /\ x.name = to
        /\ x \in [name : {to}, refs : Nat, unlinked : BOOLEAN, dest : {e.dest}]
    BY <1>2, <1>4
  <2> HIDE DEF x
  <2>2. /\ released.objects = [k.objects EXCEPT ![o] = x]
        /\ released.live = h.live /\ released.table = k.table
        /\ released.bdir = bdir /\ released.bdata = h.bdata
        /\ released.objects[o] = x /\ released \in [objects : {released.objects},
             live : {h.live}, table : {k.table}, bdir : {bdir}, bdata : {h.bdata}]
    BY <1>0, <1>1 DEF HeapType, x
  <2> HIDE DEF released
  <2>3. /\ closed = [released EXCEPT !.objects[o].dest = NoDestination]
        /\ closed.objects = [released.objects EXCEPT ![o] =
                               [released.objects[o] EXCEPT !.dest = NoDestination]]
        /\ closed.live = h.live /\ closed.table = k.table
        /\ closed.bdir = bdir /\ closed.bdata = h.bdata
    <3>1. ~(released.objects[o].refs > 1)
      BY <2>1, <2>2
    <3> QED BY <2>2, <3>1 DEF TryToRemoveDestination
  <2>4. closed.objects[o].name = to
    <3>1. closed.objects[o] = [x EXCEPT !.dest = NoDestination]
      <4> HIDE DEF closed
      <4> QED BY <1>0, <1>1, <2>2, <2>3 DEF HeapType
    <3> QED BY <2>1, <3>1
  <2>5. closed \in [objects : {closed.objects}, live : {h.live},
                    table : {k.table}, bdir : {bdir}, bdata : {h.bdata}]
    <3> HIDE DEF closed
    <3> QED BY <2>2, <2>3
  <2> HIDE DEF closed
  <2>6. k.table \in Seq(Objects) /\ Len(k.table) \in Nat
    BY <1>0, LenProperties DEF HeapType
  <2>7. Position(closed, closed.objects[o].name) = 1
    <3> DEFINE I == {j \in 1..Len(closed.table) :
                       closed.objects[closed.table[j]].name = to}
    <3>1. 1 \in I /\ \A j \in I : 1 =< j
      BY <1>0, <2>3, <2>4, <2>6
    <3>2. \A j \in I : (\A y \in I : j =< y) => j = 1
      BY <2>3, <2>6, <3>1
    <3>3. Min(I) = 1
      <4> HIDE DEF I
      <4> QED BY <3>1, <3>2 DEF Min
    <3>4. Position(closed, to) = IF I # {} THEN Min(I) ELSE 0
      BY DEF Position, SelectInSeq
    <3> QED BY <2>4, <3>1, <3>3, <3>4
  <2>8. removed = [closed EXCEPT !.table = RemoveAt(k.table, 1)]
    <3>1. closed.table = k.table
      BY <2>3
    <3> QED BY <2>7, <3>1 DEF Unhook, removed
  <2>9. /\ RemoveAt(k.table, 1) \in Seq(Objects) /\ Distinct(RemoveAt(k.table, 1))
        /\ Entries(RemoveAt(k.table, 1)) = h.live \ {o}
    <3>1. 1 \in 1..Len(k.table)
      BY <1>0, <2>6
    <3> QED BY <1>0, <2>6, <3>1, RemoveEntry
  <2>10. g = [removed EXCEPT !.live = @ \ {o}, !.objects[o] = NoObject]
    <3>1. ~(released.objects[o].refs > 0)
      BY <2>1, <2>2
    <3>2. g = IF released.objects[o].refs > 0 THEN released
              ELSE [removed EXCEPT !.live = @ \ {o}, !.objects[o] = NoObject]
      BY DEF TryToRemove, released, closed
    <3> QED BY <3>1, <3>2
  <2> HIDE DEF removed, g
  <2>11. /\ g.live = h.live \ {o} /\ g.table = RemoveAt(k.table, 1)
         /\ g.bdir = bdir /\ g.bdata = h.bdata
         /\ g.objects = [closed.objects EXCEPT ![o] = NoObject]
         /\ g \in [objects : {g.objects}, live : {h.live \ {o}},
                   table : {RemoveAt(k.table, 1)}, bdir : {bdir}, bdata : {h.bdata}]
    BY <2>5, <2>8, <2>10
  <2>12. g.objects = [k.objects EXCEPT ![o] = NoObject]
    <3>1. closed.objects = [k.objects EXCEPT ![o] = closed.objects[o]]
      BY <1>0, <1>1, <2>2, <2>3 DEF HeapType
    <3> QED BY <1>0, <1>1, <2>11, <3>1 DEF HeapType
  <2>13. g \in HeapType
    <3>1. NoObject \in SourceFileType
      BY DEF SourceFileType, NoObject, Destinations
    <3>2. g.objects \in [Objects -> SourceFileType]
      BY <1>0, <1>1, <2>12, <3>1 DEF HeapType
    <3>3. /\ g.live \in SUBSET Objects /\ g.table \in Seq(Objects)
          /\ g.bdir \in [Paths -> BackupFiles \cup {Null}]
          /\ g.bdata \in [BackupFiles -> SUBSET (Inodes \X Nat)]
      BY <1>0, <2>9, <2>11, HeapFields DEF HeapType
    <3> QED BY <2>11, <3>2, <3>3 DEF HeapType
  <2>14. g.objects[o] = NoObject /\ OnlyObject(h, g, o)
    BY <1>0, <1>1, <2>12 DEF OnlyObject, HeapType
  <2>15. Tidy(g)
    <3>1. \A p \in g.live : p \in Objects \ {o} /\ p \in h.live
      BY <2>11, HeapFields
    <3>2. \A p \in g.live : g.objects[p] = h.objects[p]
      BY <2>14, <3>1 DEF OnlyObject
    <3>3. /\ \A p \in g.live : g.objects[p].name \in Names
          /\ \A p, q \in g.live : g.objects[p].name = g.objects[q].name => p = q
      BY <3>1, <3>2 DEF Tidy
    <3>4. \A p \in Objects \ g.live : g.objects[p] = NoObject
      BY <2>11, <2>14 DEF Tidy, OnlyObject
    <3> QED BY <2>9, <2>11, <2>13, <3>3, <3>4 DEF Tidy
  <2> QED BY <1>4, <2>11, <2>14, <2>15 DEF g, k, bdir, Moved
<1> QED BY <1>1, <1>3, <1>4

----------------------------------------------------------------------------
(*                       Destinations and sessions                         *)

LEMMA QuietStep ==
  ASSUME NEW h, NEW g, NoNewDestination(h, g), NEW s, NEW old
  PROVE  /\ FilesApart(h, s) => FilesApart(g, s)
         /\ DestinationsIn(h, s, old) => DestinationsIn(g, s, old)
         /\ StaysBefore(h, g, s, old)
<1>1. SameFiles(h, g)
  BY DEF NoNewDestination
<1>2. FilesApart(h, s) => FilesApart(g, s)
  BY <1>1 DEF FilesApart, SameFiles
<1>3. ASSUME DestinationsIn(h, s, old) PROVE DestinationsIn(g, s, old)
  <2> SUFFICES ASSUME NEW o \in g.live, Dest(g, o) # NoDestination
               PROVE  DestinationOk(g.bdir, g.objects[o], s, old)
    BY DEF DestinationsIn
  <2>1. /\ o \in h.live /\ Dest(g, o) = Dest(h, o)
        /\ g.objects[o].name = h.objects[o].name
        /\ h.objects[o].unlinked => g.objects[o].unlinked
    BY DEF NoNewDestination
  <2>2. DestinationOk(h.bdir, h.objects[o], s, old)
    BY <1>3, <2>1 DEF DestinationsIn
  <2> QED BY <1>1, <2>1, <2>2 DEF SameFiles, DestinationOk, Dest
<1>4. StaysBefore(h, g, s, old)
  BY <1>1 DEF StaysBefore, SameFiles
<1> QED BY <1>2, <1>3, <1>4

LEMMA DestinationIs ==
  ASSUME NEW h, NEW s, NEW old, DestinationsIn(h, s, old), NEW o \in h.live,
         Dest(h, o) # NoDestination
  PROVE  /\ \A p \in Paths : h.bdir[p] = Dest(h, o).file => p = Dest(h, o).path
         /\ Dest(h, o).path[2] = h.objects[o].name
         /\ Dest(h, o).path[1] = s \/ Dest(h, o).path \in old
         /\ h.objects[o].unlinked \/ h.bdir[Dest(h, o).path] # Null
  BY DEF DestinationsIn, DestinationOk, Dest

LEMMA DestinationFields ==
  ASSUME NEW h, Tidy(h), NEW o \in h.live, Dest(h, o) # NoDestination
  PROVE  /\ Dest(h, o).file \in BackupFiles /\ Dest(h, o).file # Null
         /\ Dest(h, o).path \in Paths
<1>1. Dest(h, o) \in Destinations
  BY HeapFields DEF Dest
<1> QED BY <1>1, NoDestinationIsNone

(* A destination that is made is in the backup of the session. *)
LEMMA CreateInSession ==
  ASSUME NEW h, Tidy(h), NEW s \in 1..MaxSessions, FilesApart(h, s), NEW old,
         DestinationsIn(h, s, old), NEW o \in h.live, NEW n \in Names,
         h.objects[o].name = n \/ ~NeedsDestination(h, o)
  PROVE  LET g == TryToCreateDestination(h, o, <<s, n>>)
         IN  /\ Tidy(g) /\ OnlyObject(h, g, o) /\ SameIdentity(h, g)
             /\ FilesApart(g, s) /\ DestinationsIn(g, s, old)
             /\ StaysBefore(h, g, s, old)
             /\ Dest(h, o) # NoDestination => Dest(g, o) = Dest(h, o)
             /\ ~h.objects[o].unlinked => Dest(g, o) # NoDestination
<1> DEFINE path == <<s, n>>
           g == TryToCreateDestination(h, o, path)
<1>0. path \in Paths /\ path[1] = s /\ path[2] = n
  BY DEF Paths
<1>1. CASE ~NeedsDestination(h, o)
  <2>1. g = h
    BY <1>0, <1>1, TryToCreateDestinationIs
  <2>2. SameIdentity(h, h) /\ OnlyObject(h, h, o) /\ StaysBefore(h, h, s, old)
    BY DEF SameIdentity, OnlyObject, StaysBefore
  <2>3. ~h.objects[o].unlinked => Dest(h, o) # NoDestination
    BY <1>1 DEF NeedsDestination
  <2> QED BY <2>1, <2>2, <2>3
<1>2. CASE NeedsDestination(h, o)
  <2>1. PICK b \in BackupFiles : DestinationCreated(h, g, o, path, b)
    BY <1>0, <1>2, TryToCreateDestinationIs
  <2> HIDE DEF g, path
  <2>2. /\ o \in Objects /\ h.objects[o] \in SourceFileType /\ h.live \subseteq Objects
        /\ h.bdir \in [Paths -> BackupFiles \cup {Null}]
    BY HeapFields
  <2>3. /\ g.objects[o].name = h.objects[o].name
        /\ g.objects[o].refs = h.objects[o].refs
        /\ g.objects[o].unlinked = h.objects[o].unlinked
        /\ Dest(g, o) = [file |-> b, path |-> path]
        /\ h.objects[o].name = n
    BY <1>2, <2>1, <2>2 DEF DestinationCreated, SourceFileType, Dest
  <2>4. SameIdentity(h, g)
    BY <2>1, <2>3 DEF SameIdentity, OnlyObject, DestinationCreated
  <2>5. b # Null /\ Dest(g, o) # NoDestination
    BY <2>3, NoDestinationIsNone
  <2>6. /\ g.bdir[path] = b
        /\ \A p \in Paths : p # path => g.bdir[p] = h.bdir[p]
    BY <1>0, <2>1, <2>2 DEF DestinationCreated
  <2>7. /\ \A p \in Paths : h.bdir[p] = b => p = path
        /\ \A q \in h.live :
             Dest(h, q) # NoDestination /\ Dest(h, q).file = b => Dest(h, q).path = path
    <3>1. CASE h.bdir[path] # Null
      <4>1. h.bdir[path] = b
        BY <2>1, <3>1 DEF DestinationCreated
      <4>2. \A p \in Paths : h.bdir[p] = b => p = path
        BY <1>0, <2>5, <4>1 DEF FilesApart
      <4>3. \A q \in h.live :
              Dest(h, q) # NoDestination /\ Dest(h, q).file = b => Dest(h, q).path = path
        BY <1>0, <4>1, DestinationIs
      <4> QED BY <4>2, <4>3
    <3>2. CASE h.bdir[path] = Null
      <4>1. \A p \in Paths : h.bdir[p] \in Range(h.bdir)
        BY <2>2 DEF Range
      <4> QED BY <2>1, <3>2, <4>1 DEF FreeBackupFiles, DestinationCreated
    <3> QED BY <3>1, <3>2
  <2>8. FilesApart(g, s)
    <3>1. \A p, q \in Paths : g.bdir[p] = g.bdir[q] /\ g.bdir[p] # Null => p = q
      BY <1>0, <2>6, <2>7 DEF FilesApart
    <3>2. \A p \in Paths : g.bdir[p] # Null => p[1] <= s
      <4>1. s <= s
        OBVIOUS
      <4> QED BY <1>0, <2>6, <4>1 DEF FilesApart
    <3> QED BY <3>1, <3>2 DEF FilesApart
  <2>9. DestinationsIn(g, s, old)
    <3> SUFFICES ASSUME NEW q \in h.live, Dest(g, q) # NoDestination
                 PROVE  DestinationOk(g.bdir, g.objects[q], s, old)
      BY <2>1 DEF DestinationsIn, DestinationCreated
    <3>1. CASE q = o
      <4>1. \A p \in Paths : g.bdir[p] = b => p = path
        BY <1>0, <2>6, <2>7
      <4> QED BY <1>0, <2>3, <2>5, <2>6, <3>1, <4>1 DEF DestinationOk, Dest
    <3>2. CASE q # o
      <4>1. q \in Objects \ {o}
        BY <3>2, HeapFields
      <4>2. g.objects[q] = h.objects[q] /\ Dest(g, q) = Dest(h, q)
        BY <2>1, <4>1 DEF OnlyObject, Dest, DestinationCreated
      <4>3. DestinationOk(h.bdir, h.objects[q], s, old)
        BY <4>2 DEF DestinationsIn
      <4>4. \A p \in Paths : g.bdir[p] = Dest(h, q).file => p = Dest(h, q).path
        BY <1>0, <2>6, <2>7, <4>2, <4>3 DEF DestinationOk, Dest
      <4>5. Dest(h, q).path \in Paths
        BY <4>2, DestinationFields
      <4>6. h.bdir[Dest(h, q).path] # Null => g.bdir[Dest(h, q).path] # Null
        BY <2>5, <2>6, <4>5
      <4> QED BY <4>2, <4>3, <4>4, <4>6 DEF DestinationOk, Dest
    <3> QED BY <3>1, <3>2
  <2>10. StaysBefore(h, g, s, old)
    <3> SUFFICES ASSUME NEW p \in Paths, p[1] < s
                 PROVE  /\ g.bdir[p] = h.bdir[p]
                        /\ h.bdir[p] # Null => g.bdata[h.bdir[p]] = h.bdata[h.bdir[p]]
      BY DEF StaysBefore
    <3>1. p[1] # s
      OBVIOUS
    <3>2. p # path /\ h.bdir[p] # b
      BY <1>0, <2>7, <3>1
    <3>3. h.bdir[p] # Null => h.bdir[p] \in BackupFiles
      BY <2>2
    <3> QED BY <2>1, <2>6, <3>2, <3>3 DEF DestinationCreated
  <2>11. Dest(h, o) = NoDestination
    BY <1>2 DEF NeedsDestination
  <2> QED BY <2>1, <2>4, <2>5, <2>8, <2>9, <2>10, <2>11 DEF g, path, DestinationCreated
<1> QED BY <1>1, <1>2

LEMMA WriteInSession ==
  ASSUME NEW h, Tidy(h), NEW s \in 1..MaxSessions, FilesApart(h, s), NEW old,
         DestinationsIn(h, s, old), NEW o \in h.live,
         NEW content \in SUBSET (Inodes \X Nat)
  PROVE  LET g == WriteDestination(h, o, content)
         IN  /\ Tidy(g) /\ g.objects = h.objects /\ g.live = h.live
             /\ FilesApart(g, s) /\ DestinationsIn(g, s, old)
             /\ StaysBefore(h, g, s, old)
<1> DEFINE g == WriteDestination(h, o, content)
<1>1. /\ Tidy(g) /\ g.objects = h.objects /\ g.live = h.live
      /\ g.table = h.table /\ g.bdir = h.bdir
      /\ \A c \in BackupFiles :
           g.bdata[c] = IF Dest(h, o) # NoDestination /\ c = Dest(h, o).file
                        THEN h.bdata[c] \cup content ELSE h.bdata[c]
  BY WriteDestinationIs
<1> HIDE DEF g
<1>2. FilesApart(g, s)
  BY <1>1 DEF FilesApart
<1>3. DestinationsIn(g, s, old)
  BY <1>1 DEF DestinationsIn, Dest
<1>4. StaysBefore(h, g, s, old)
  <2> SUFFICES ASSUME NEW p \in Paths \ old, p[1] < s, h.bdir[p] # Null
               PROVE  g.bdata[h.bdir[p]] = h.bdata[h.bdir[p]]
    BY <1>1 DEF StaysBefore
  <2>1. p[1] # s
    OBVIOUS
  <2>2. Dest(h, o) # NoDestination => h.bdir[p] # Dest(h, o).file
    BY <2>1, DestinationIs
  <2>3. h.bdir[p] \in BackupFiles
    BY HeapFields
  <2> QED BY <1>1, <2>2, <2>3
<1> QED BY <1>1, <1>2, <1>3, <1>4 DEF g

LEMMA TryToRemoveDestinationIsQuiet ==
  ASSUME NEW h, Tidy(h), NEW o \in h.live
  PROVE  LET g == TryToRemoveDestination(h, o)
         IN  /\ Tidy(g) /\ SameIdentity(h, g) /\ NoNewDestination(h, g)
             /\ OnlyObject(h, g, o)
             /\ h.objects[o].refs > 1 => Dest(g, o) = Dest(h, o)
<1> DEFINE g == TryToRemoveDestination(h, o)
<1>1. /\ Tidy(g) /\ OnlyObject(h, g, o)
      /\ g.live = h.live /\ g.table = h.table /\ SameFiles(h, g)
      /\ g.objects[o] = IF h.objects[o].refs > 1 THEN h.objects[o]
                        ELSE [h.objects[o] EXCEPT !.dest = NoDestination]
  BY TryToRemoveDestinationIs
<1> HIDE DEF g
<1>2. o \in Objects /\ h.objects[o] \in SourceFileType /\ h.live \subseteq Objects
  BY HeapFields
<1>3. /\ g.objects[o].name = h.objects[o].name
      /\ g.objects[o].refs = h.objects[o].refs
      /\ g.objects[o].unlinked = h.objects[o].unlinked
      /\ Dest(g, o) \in {Dest(h, o), NoDestination}
      /\ h.objects[o].refs > 1 => Dest(g, o) = Dest(h, o)
  BY <1>1, <1>2 DEF SourceFileType, Dest
<1>4. SameIdentity(h, g)
  BY <1>1, <1>3 DEF SameIdentity, OnlyObject
<1>5. NoNewDestination(h, g)
  <2>1. \A q \in h.live : q # o => Dest(g, q) = Dest(h, q)
    BY <1>1, <1>2 DEF OnlyObject, Dest
  <2> QED BY <1>1, <1>2, <1>3, <1>4, <2>1 DEF NoNewDestination, SameIdentity
<1> QED BY <1>1, <1>3, <1>4, <1>5 DEF g

LEMMA SameNameSameObject ==
  ASSUME NEW h, Tidy(h), NEW o \in h.live, NEW p \in h.live, o # p
  PROVE  h.objects[o].name # h.objects[p].name
  BY DEF Tidy

LEMMA GetOrCreateIsQuiet ==
  ASSUME NEW h, Tidy(h), NEW name \in Names, h.live # Objects
  PROVE  LET g == GetOrCreate(h, name)
             o == Lookup(g, name)
         IN  /\ Tidy(g) /\ NoNewDestination(h, g) /\ OnlyObject(h, g, o)
             /\ o \in g.live /\ o \in Objects /\ g.objects[o].name = name
             /\ g.live = h.live \cup {o}
             /\ o \in h.live => /\ h.objects[o].name = name
                                /\ g.objects[o].refs = h.objects[o].refs + 1
                                /\ g.objects[o].unlinked = h.objects[o].unlinked
                                /\ Dest(g, o) = Dest(h, o)
             /\ o \notin h.live => /\ g.objects[o].refs = 1
                                   /\ ~g.objects[o].unlinked
                                   /\ Dest(g, o) = NoDestination
                                   /\ \A p \in h.live : h.objects[p].name # name
<1> DEFINE g == GetOrCreate(h, name)
           o == Lookup(g, name)
<1>1. /\ Tidy(g) /\ o \in g.live /\ g.objects[o].name = name
      /\ g.live = h.live \cup {o} /\ SameFiles(h, g) /\ OnlyObject(h, g, o)
      /\ o \in h.live => g.objects[o] = WithReference(h.objects[o])
      /\ o \notin h.live =>
           /\ g.objects[o] = NewObject(name)
           /\ \A p \in h.live : h.objects[p].name # name
  BY GetOrCreateIs
<1> HIDE DEF g, o
<1>2. /\ g.live \subseteq Objects /\ h.live \subseteq Objects
      /\ \A p \in Objects : h.objects[p] \in SourceFileType
  BY <1>1, HeapFields
<1>3. ASSUME o \in h.live
      PROVE  /\ h.objects[o].name = name
             /\ g.objects[o].refs = h.objects[o].refs + 1
             /\ g.objects[o].unlinked = h.objects[o].unlinked
             /\ Dest(g, o) = Dest(h, o)
  BY <1>1, <1>2, <1>3 DEF SourceFileType, Dest, WithReference
<1>4. ASSUME o \notin h.live
      PROVE  /\ g.objects[o].refs = 1 /\ ~g.objects[o].unlinked
             /\ Dest(g, o) = NoDestination
  BY <1>1, <1>4 DEF NoObject, Dest, NewObject
<1>5. ASSUME NEW p \in g.live, Dest(g, p) # NoDestination
      PROVE  /\ p \in h.live /\ Dest(g, p) = Dest(h, p)
             /\ g.objects[p].name = h.objects[p].name
             /\ h.objects[p].unlinked => g.objects[p].unlinked
  <2>1. CASE p = o
    BY <1>1, <1>3, <1>4, <1>5, <2>1
  <2>2. CASE p # o
    BY <1>1, <1>2, <2>2 DEF OnlyObject, Dest
  <2> QED BY <2>1, <2>2
<1>6. NoNewDestination(h, g)
  BY <1>1, <1>5 DEF NoNewDestination
<1> QED BY <1>1, <1>2, <1>3, <1>4, <1>6 DEF g, o

LEMMA TryToRemoveIsQuiet ==
  ASSUME NEW h, Tidy(h), NEW o \in h.live, h.objects[o].refs >= 1
  PROVE  LET g == TryToRemove(h, o)
         IN  /\ Tidy(g) /\ NoNewDestination(h, g) /\ OnlyObject(h, g, o)
             /\ h.objects[o].refs > 1 =>
                  /\ g.live = h.live
                  /\ g.objects[o].name = h.objects[o].name
                  /\ g.objects[o].refs = h.objects[o].refs - 1
                  /\ g.objects[o].unlinked = h.objects[o].unlinked
                  /\ Dest(g, o) = Dest(h, o)
             /\ h.objects[o].refs = 1 =>
                  g.live = h.live \ {o} /\ g.objects[o] = NoObject
<1> DEFINE g == TryToRemove(h, o)
<1>1. /\ Tidy(g) /\ OnlyObject(h, g, o) /\ SameFiles(h, g)
      /\ h.objects[o].refs > 1 =>
           /\ g.live = h.live
           /\ g.objects[o] = [h.objects[o] EXCEPT !.refs = @ - 1]
      /\ h.objects[o].refs = 1 =>
           g.live = h.live \ {o} /\ g.objects[o] = NoObject
  BY TryToRemoveIs
<1> HIDE DEF g
<1>2. /\ o \in Objects /\ h.live \subseteq Objects /\ g.live \subseteq Objects
      /\ h.objects[o] \in SourceFileType /\ h.objects[o].refs \in Nat
  BY <1>1, HeapFields
<1>3. ASSUME h.objects[o].refs > 1
      PROVE  /\ g.objects[o].name = h.objects[o].name
             /\ g.objects[o].refs = h.objects[o].refs - 1
             /\ g.objects[o].unlinked = h.objects[o].unlinked
             /\ Dest(g, o) = Dest(h, o)
  BY <1>1, <1>2, <1>3 DEF SourceFileType, Dest
<1>4. h.objects[o].refs = 1 \/ h.objects[o].refs > 1
  BY <1>2
<1>5. ASSUME NEW p \in g.live
      PROVE  /\ p \in h.live /\ Dest(g, p) = Dest(h, p)
             /\ g.objects[p].name = h.objects[p].name
             /\ h.objects[p].unlinked => g.objects[p].unlinked
  <2>1. CASE p = o
    BY <1>1, <1>3, <1>4, <2>1
  <2>2. CASE p # o
    BY <1>1, <1>2, <1>4, <2>2 DEF OnlyObject, Dest
  <2> QED BY <2>1, <2>2
<1>6. NoNewDestination(h, g)
  BY <1>1, <1>5 DEF NoNewDestination
<1> QED BY <1>1, <1>3, <1>6 DEF g

(* The end of unlink: the mark, and the reference given back. *)
LEMMA MarkUnlinkedIs ==
  ASSUME NEW h, Tidy(h), NEW o \in h.live, h.objects[o].refs >= 1
  PROVE  LET g == MarkUnlinked(h, o)
         IN  /\ Tidy(g) /\ NoNewDestination(h, g) /\ OnlyObject(h, g, o)
             /\ h.objects[o].refs > 1 =>
                  /\ g.live = h.live
                  /\ g.objects[o].name = h.objects[o].name
                  /\ g.objects[o].refs = h.objects[o].refs - 1
                  /\ g.objects[o].unlinked
                  /\ Dest(g, o) = Dest(h, o)
             /\ h.objects[o].refs = 1 =>
                  g.live = h.live \ {o} /\ g.objects[o] = NoObject
<1> DEFINE e == [h.objects[o] EXCEPT !.unlinked = TRUE]
           k == [h EXCEPT !.objects[o] = e]
           l == TryToRemoveDestination(k, o)
           g == MarkUnlinked(h, o)
<1>1. /\ o \in Objects /\ h.live \subseteq Objects
      /\ h.objects[o] \in SourceFileType /\ h.objects[o].refs \in Nat
  BY HeapFields
<1>2. /\ e \in SourceFileType /\ e.name = h.objects[o].name
      /\ e.refs = h.objects[o].refs /\ e.unlinked /\ e.dest = h.objects[o].dest
  BY <1>1 DEF SourceFileType
<1>3. g = TryToRemove(l, o)
  BY DEF MarkUnlinked
<1> HIDE DEF e, g
<1>4. /\ Tidy(k) /\ k.objects[o] = e /\ OnlyObject(h, k, o)
      /\ k.live = h.live /\ SameFiles(h, k)
  BY <1>2, ChangeOfOneObject
<1> HIDE DEF k
<1>5. /\ Tidy(l) /\ SameIdentity(k, l) /\ NoNewDestination(k, l)
      /\ OnlyObject(k, l, o)
      /\ k.objects[o].refs > 1 => Dest(l, o) = Dest(k, o)
  BY <1>4, TryToRemoveDestinationIsQuiet
<1> HIDE DEF l
<1>6. /\ l.live = h.live /\ l.objects[o].name = h.objects[o].name
      /\ l.objects[o].refs = h.objects[o].refs /\ l.objects[o].unlinked
      /\ h.objects[o].refs > 1 => Dest(l, o) = Dest(h, o)
  BY <1>1, <1>2, <1>4, <1>5 DEF SameIdentity, Dest
<1>7. /\ Tidy(g) /\ NoNewDestination(l, g) /\ OnlyObject(l, g, o)
      /\ l.objects[o].refs > 1 =>
           /\ g.live = l.live
           /\ g.objects[o].name = l.objects[o].name
           /\ g.objects[o].refs = l.objects[o].refs - 1
           /\ g.objects[o].unlinked = l.objects[o].unlinked
           /\ Dest(g, o) = Dest(l, o)
      /\ l.objects[o].refs = 1 =>
           g.live = l.live \ {o} /\ g.objects[o] = NoObject
  <2>1. Tidy(l) /\ o \in l.live /\ l.objects[o].refs >= 1
    BY <1>5, <1>6
  <2> QED BY <1>3, <2>1, TryToRemoveIsQuiet
<1>8. OnlyObject(h, g, o)
  BY <1>4, <1>5, <1>7 DEF OnlyObject
<1>9. g.live \subseteq h.live
  <2>1. l.objects[o].refs = 1 \/ l.objects[o].refs > 1
    BY <1>1, <1>6
  <2> QED BY <1>6, <1>7, <2>1
<1>10. ASSUME NEW p \in g.live, Dest(g, p) # NoDestination
       PROVE  /\ Dest(g, p) = Dest(h, p)
              /\ g.objects[p].name = h.objects[p].name
              /\ h.objects[p].unlinked => g.objects[p].unlinked
  <2>1. CASE p = o
    <3>1. h.objects[o].refs > 1
      BY <1>1, <1>6, <1>7, <1>10, <2>1
    <3> QED BY <1>6, <1>7, <2>1, <3>1
  <2>2. CASE p # o
    BY <1>1, <1>8, <1>9, <2>2 DEF OnlyObject, Dest
  <2> QED BY <2>1, <2>2
<1>11. SameFiles(h, g)
  BY <1>4, <1>5, <1>7 DEF NoNewDestination, SameFiles
<1>12. NoNewDestination(h, g)
  BY <1>9, <1>10, <1>11 DEF NoNewDestination
<1> QED BY <1>6, <1>7, <1>8, <1>12 DEF g

(* An unlink in a session: the destination is there, or made unless the    *)
(* file was unlinked before, and loses its path.                           *)
LEMMA UnlinkInSession ==
  ASSUME NEW h, Tidy(h), NEW s \in 1..MaxSessions, FilesApart(h, s), NEW old,
         DestinationsIn(h, s, old), NEW o \in h.live, NEW n \in Names,
         h.objects[o].name = n, h.objects[o].refs >= 1
  PROVE  LET created == TryToCreateDestination(h, o, <<s, n>>)
             g == MarkUnlinked(UnlinkBackup(h, o, <<s, n>>), o)
         IN  /\ ~h.objects[o].unlinked => /\ Dest(created, o) # NoDestination
                                          /\ ~DestinationIsGone(created, o)
             /\ Unlinked(h, g, o) /\ FilesApart(g, s)
             /\ DestinationsIn(g, s, old) /\ StaysBefore(h, g, s, old)
<1> DEFINE c == TryToCreateDestination(h, o, <<s, n>>)
           k == UnlinkBackup(h, o, <<s, n>>)
           g == MarkUnlinked(k, o)
           path == Dest(c, o).path
<1>1. /\ Tidy(c) /\ OnlyObject(h, c, o) /\ SameIdentity(h, c)
      /\ FilesApart(c, s) /\ DestinationsIn(c, s, old) /\ StaysBefore(h, c, s, old)
      /\ Dest(h, o) # NoDestination => Dest(c, o) = Dest(h, o)
      /\ ~h.objects[o].unlinked => Dest(c, o) # NoDestination
  BY CreateInSession
<1>2. k = IF Dest(c, o) = NoDestination THEN c ELSE UnlinkDestination(c, o)
  BY DEF UnlinkBackup
<1> HIDE DEF c, k
<1>3. o \in Objects /\ h.live \subseteq Objects
  BY HeapFields
<1>4. /\ o \in c.live /\ c.live = h.live /\ c.objects[o].name = n
      /\ c.objects[o].unlinked = h.objects[o].unlinked
      /\ c.objects[o].refs = h.objects[o].refs
  BY <1>1, <1>3 DEF SameIdentity
<1>5. ~h.objects[o].unlinked => ~DestinationIsGone(c, o)
  BY <1>1, <1>4, DestinationIs DEF DestinationIsGone
<1>p. ASSUME Dest(c, o) # NoDestination
      PROVE  /\ path \in Paths /\ path[2] = n /\ (path[1] = s \/ path \in old)
             /\ Tidy(k) /\ k.objects = c.objects /\ k.live = c.live
             /\ k.bdata = c.bdata /\ k.bdir = [c.bdir EXCEPT ![path] = Null]
             /\ k.bdir[path] = Null
             /\ \A p \in Paths : p # path => k.bdir[p] = c.bdir[p]
  <2>1. path \in Paths /\ path[2] = n /\ (path[1] = s \/ path \in old)
    BY <1>1, <1>4, <1>p, DestinationIs, DestinationFields
  <2>2. /\ Tidy(k) /\ k.objects = c.objects /\ k.live = c.live
        /\ k.bdata = c.bdata /\ k.bdir = [c.bdir EXCEPT ![path] = Null]
    BY <1>1, <1>2, <1>4, <1>p, UnlinkDestinationIs
  <2> HIDE DEF path
  <2>3. DOMAIN c.bdir = Paths
    BY <1>1, HeapFields
  <2> QED BY <2>1, <2>2, <2>3
<1> HIDE DEF path
<1>6. /\ Tidy(k) /\ k.objects = c.objects /\ k.live = c.live /\ k.bdata = c.bdata
      /\ \A p \in Paths : k.bdir[p] \in {c.bdir[p], Null}
  BY <1>1, <1>2, <1>p
<1>7. FilesApart(k, s)
  BY <1>1, <1>6 DEF FilesApart
<1>8. /\ o \in k.live /\ k.objects[o].refs >= 1
  BY <1>4, <1>6
<1>9. /\ Tidy(g) /\ NoNewDestination(k, g) /\ OnlyObject(k, g, o)
      /\ k.objects[o].refs > 1 =>
           /\ g.live = k.live
           /\ g.objects[o].name = k.objects[o].name
           /\ g.objects[o].refs = k.objects[o].refs - 1
           /\ g.objects[o].unlinked
           /\ Dest(g, o) = Dest(k, o)
      /\ k.objects[o].refs = 1 =>
           g.live = k.live \ {o} /\ g.objects[o] = NoObject
  BY <1>6, <1>8, MarkUnlinkedIs
<1> HIDE DEF g
<1>11. FilesApart(g, s)
  BY <1>7, <1>9, QuietStep
<1>12. OnlyObject(h, g, o)
  BY <1>1, <1>6, <1>9 DEF OnlyObject
<1>13. /\ h.objects[o].refs > 1 =>
            /\ g.live = h.live
            /\ g.objects[o].name = n
            /\ g.objects[o].refs = h.objects[o].refs - 1
            /\ g.objects[o].unlinked
            /\ Dest(h, o) # NoDestination => Dest(g, o) = Dest(h, o)
       /\ h.objects[o].refs = 1 =>
            g.live = h.live \ {o} /\ g.objects[o] = NoObject
  BY <1>1, <1>4, <1>6, <1>9 DEF Dest
<1>14. h.objects[o].refs = 1 \/ h.objects[o].refs > 1
  <2>1. h.objects[o].refs \in Nat
    BY <1>3, HeapFields
  <2> QED BY <2>1
<1>15. SameFiles(k, g)
  BY <1>9 DEF NoNewDestination
<1>16. DestinationsIn(g, s, old)
  <2> SUFFICES ASSUME NEW q \in g.live, Dest(g, q) # NoDestination
               PROVE  DestinationOk(g.bdir, g.objects[q], s, old)
    BY DEF DestinationsIn
  <2>1. /\ q \in k.live /\ Dest(g, q) = Dest(k, q)
        /\ g.objects[q].name = k.objects[q].name
        /\ k.objects[q].unlinked => g.objects[q].unlinked
    BY <1>9 DEF NoNewDestination
  <2>2. /\ q \in c.live /\ Dest(g, q) = Dest(c, q)
        /\ g.objects[q].name = c.objects[q].name
        /\ c.objects[q].unlinked => g.objects[q].unlinked
    BY <1>6, <2>1 DEF Dest
  <2>3. /\ \A p \in Paths : c.bdir[p] = Dest(c, q).file => p = Dest(c, q).path
        /\ Dest(c, q).path[2] = c.objects[q].name
        /\ Dest(c, q).path[1] = s \/ Dest(c, q).path \in old
        /\ c.objects[q].unlinked \/ c.bdir[Dest(c, q).path] # Null
    <3>1. Dest(c, q) # NoDestination
      BY <2>2
    <3> QED BY <1>1, <2>2, <3>1, DestinationIs
  <2>4. Dest(c, q).path \in Paths /\ Dest(c, q).file # Null
    BY <1>1, <2>2, DestinationFields
  <2>5. \A p \in Paths : g.bdir[p] = Dest(g, q).file => p = Dest(g, q).path
    BY <1>6, <1>15, <2>2, <2>3, <2>4 DEF SameFiles
  <2>6. g.objects[q].unlinked \/ g.bdir[Dest(g, q).path] # Null
    <3>1. CASE q = o
      BY <1>13, <1>14, <3>1
    <3>2. CASE q # o
      <4>1. c.objects[q].name # n
        BY <1>1, <1>4, <2>2, <3>2, SameNameSameObject
      <4>2. k.bdir[Dest(c, q).path] = c.bdir[Dest(c, q).path]
        BY <1>2, <1>p, <2>3, <2>4, <4>1
      <4> QED BY <1>15, <2>2, <2>3, <4>2 DEF SameFiles
    <3> QED BY <3>1, <3>2
  <2> QED BY <2>2, <2>3, <2>5, <2>6 DEF DestinationOk, Dest
<1>17. StaysBefore(h, g, s, old)
  <2> SUFFICES ASSUME NEW p \in Paths \ old, p[1] < s
               PROVE  /\ g.bdir[p] = h.bdir[p]
                      /\ h.bdir[p] # Null => g.bdata[h.bdir[p]] = h.bdata[h.bdir[p]]
    BY DEF StaysBefore
  <2>1. k.bdir[p] = c.bdir[p]
    <3>1. p[1] # s
      OBVIOUS
    <3> QED BY <1>2, <1>p, <3>1
  <2> QED BY <1>1, <1>6, <1>15, <2>1 DEF StaysBefore, SameFiles
<1>18. Unlinked(h, g, o)
  BY <1>4, <1>9, <1>12, <1>13 DEF Unlinked
<1> QED BY <1>1, <1>5, <1>11, <1>16, <1>17, <1>18 DEF g, k, c

(* A rename in a session: source_file and backup file get the new name. *)
LEMMA RenameInSession ==
  ASSUME NEW h, Tidy(h), NEW s \in 1..MaxSessions, FilesApart(h, s), NEW old,
         DestinationsIn(h, s, old), NEW o \in h.live, NEW n \in Names, NEW to \in Names,
         h.objects[o].name = n, n # to, ~h.objects[o].unlinked,
         h.objects[o].refs >= 1, Dest(h, o) # NoDestination,
         h.objects[o].refs = 1
           \/ \A p \in h.live \ {o} : h.objects[p].name # to
  PROVE  LET g == TryToRemove(RenameObject(h, o, to, <<s, to>>), o)
         IN  /\ ~DestinationIsGone(h, o)
             /\ Tidy(g) /\ OnlyObject(h, g, o) /\ FilesApart(g, s)
             /\ DestinationsIn(g, s, old) /\ StaysBefore(h, g, s, old)
             /\ h.objects[o].refs > 1 =>
                  /\ g.live = h.live
                  /\ g.objects[o].name = to
                  /\ g.objects[o].refs = h.objects[o].refs - 1
                  /\ ~g.objects[o].unlinked
                  /\ Dest(g, o) # NoDestination
             /\ h.objects[o].refs = 1 =>
                  g.live = h.live \ {o} /\ g.objects[o] = NoObject
<1> DEFINE g == TryToRemove(RenameObject(h, o, to, <<s, to>>), o)
           from == Dest(h, o).path
           path == <<s, to>>
           b == h.bdir[from]
<1>1. /\ from[2] = n /\ (from[1] = s \/ from \in old) /\ ~DestinationIsGone(h, o)
      /\ \A p \in Paths : h.bdir[p] = Dest(h, o).file => p = from
  BY DestinationIs DEF DestinationIsGone
<1>2. /\ path \in Paths /\ path[1] = s /\ path[2] = to /\ from \in Paths
      /\ from # path
  BY <1>1, DestinationFields DEF Paths
<1>3. b # Null /\ b \in BackupFiles
  BY <1>1, <1>2, HeapFields DEF DestinationIsGone
<1>4. /\ o \in Objects /\ h.live \subseteq Objects
      /\ h.objects[o] \in SourceFileType /\ h.objects[o].refs \in Nat
      /\ h.bdir \in [Paths -> BackupFiles \cup {Null}]
  BY HeapFields
<1> HIDE DEF path, from
<1>5. /\ Tidy(g) /\ OnlyObject(h, g, o) /\ g.bdata = h.bdata
      /\ g.bdir = Moved(h.bdir, from, path)
      /\ h.objects[o].refs > 1 =>
           /\ g.live = h.live
           /\ g.objects[o] = Released(RenamedTo(h.objects[o], to, path))
      /\ h.objects[o].refs = 1 =>
           g.live = h.live \ {o} /\ g.objects[o] = NoObject
  BY <1>1, <1>2, RenameAndReleaseIs DEF from, path
<1> HIDE DEF g, b
<1>6. /\ g.bdir[path] = b /\ g.bdir[from] = Null
      /\ \A p \in Paths : p # path /\ p # from => g.bdir[p] = h.bdir[p]
  BY <1>2, <1>4, <1>5 DEF Moved, b
<1>7. ASSUME h.objects[o].refs > 1
      PROVE  /\ g.objects[o].name = to
             /\ g.objects[o].refs = h.objects[o].refs - 1
             /\ ~g.objects[o].unlinked
             /\ Dest(g, o) = [file |-> Dest(h, o).file, path |-> path]
             /\ Dest(g, o) # NoDestination
  <2>1. /\ g.objects[o].name = to
        /\ g.objects[o].refs = h.objects[o].refs - 1
        /\ g.objects[o].unlinked = h.objects[o].unlinked
        /\ Dest(g, o) = [file |-> Dest(h, o).file, path |-> path]
    BY <1>4, <1>5, <1>7 DEF Released, RenamedTo, SourceFileType, Dest
  <2>2. Dest(h, o).file # Null
    BY DestinationFields
  <2>3. Dest(g, o).file # Null
    BY <2>1, <2>2
  <2> QED BY <2>1, <2>3, NoDestinationIsNone
<1>8. \A p \in Paths : h.bdir[p] = b => p = from
  BY <1>2, <1>3 DEF FilesApart, b
<1>9. FilesApart(g, s)
  <2>1. \A p, q \in Paths : g.bdir[p] = g.bdir[q] /\ g.bdir[p] # Null => p = q
    BY <1>2, <1>3, <1>6, <1>8 DEF FilesApart
  <2>2. s <= s
    OBVIOUS
  <2>3. \A p \in Paths : g.bdir[p] # Null => p[1] <= s
    BY <1>2, <1>6, <2>2 DEF FilesApart
  <2> QED BY <2>1, <2>3 DEF FilesApart
<1>10. h.objects[o].refs = 1 \/ h.objects[o].refs > 1
  BY <1>4
<1>11. DestinationsIn(g, s, old)
  <2> SUFFICES ASSUME NEW q \in g.live, Dest(g, q) # NoDestination
               PROVE  DestinationOk(g.bdir, g.objects[q], s, old)
    BY DEF DestinationsIn
  <2>1. q \in h.live
    BY <1>5, <1>10
  <2>2. CASE q = o
    <3>1. h.objects[o].refs > 1
      BY <1>5, <1>10, <2>2
    <3>2. \A p \in Paths : g.bdir[p] = Dest(h, o).file => p = path
      <4>1. Dest(h, o).file # Null
        BY DestinationFields
      <4> QED BY <1>1, <1>2, <1>6, <4>1
    <3>3. Dest(g, o).path = path /\ Dest(g, o).file = Dest(h, o).file
      BY <1>7, <3>1
    <3>4. path[2] = g.objects[o].name
      BY <1>2, <1>7, <3>1
    <3> QED BY <1>2, <1>3, <1>6, <2>2, <3>2, <3>3, <3>4 DEF DestinationOk, Dest
  <2>3. CASE q # o
    <3>1. q \in Objects \ {o}
      BY <1>4, <2>1, <2>3
    <3>2. g.objects[q] = h.objects[q] /\ Dest(g, q) = Dest(h, q)
      BY <1>5, <3>1 DEF OnlyObject, Dest
    <3>3. Dest(h, q) # NoDestination
      BY <3>2
    <3>4. /\ \A p \in Paths : h.bdir[p] = Dest(h, q).file => p = Dest(h, q).path
          /\ Dest(h, q).path[2] = h.objects[q].name
          /\ Dest(h, q).path[1] = s \/ Dest(h, q).path \in old
          /\ h.objects[q].unlinked \/ h.bdir[Dest(h, q).path] # Null
      BY <2>1, <3>3, DestinationIs
    <3>6. Dest(h, q).path \in Paths /\ Dest(h, q).file # Null
      BY <2>1, <3>3, DestinationFields
    <3>7. Dest(h, q).path # from
      <4>1. h.objects[q].name # n
        BY <2>1, <2>3, SameNameSameObject
      <4> QED BY <1>1, <3>4, <4>1
    <3>5. \A p \in Paths : g.bdir[p] = Dest(h, q).file => p = Dest(h, q).path
      <4>1. b # Dest(h, q).file
        BY <1>2, <3>4, <3>7 DEF b
      <4> QED BY <1>6, <3>4, <3>6, <4>1
    <3>8. h.bdir[Dest(h, q).path] # Null => g.bdir[Dest(h, q).path] # Null
      BY <1>3, <1>6, <3>6, <3>7
    <3> QED BY <3>2, <3>4, <3>5, <3>8 DEF DestinationOk, Dest
  <2> QED BY <2>2, <2>3
<1>12. StaysBefore(h, g, s, old)
  <2> SUFFICES ASSUME NEW p \in Paths \ old, p[1] < s
               PROVE  /\ g.bdir[p] = h.bdir[p]
                      /\ h.bdir[p] # Null => g.bdata[h.bdir[p]] = h.bdata[h.bdir[p]]
    BY DEF StaysBefore
  <2>1. p # path /\ p # from
    <3>1. p[1] # s
      OBVIOUS
    <3> QED BY <1>1, <1>2, <3>1
  <2> QED BY <1>5, <1>6, <2>1
<1> QED BY <1>1, <1>5, <1>7, <1>9, <1>11, <1>12 DEF g

LEMMA InjectionExists ==
  ASSUME NEW S, IsFiniteSet(S), NEW T, IsFiniteSet(T),
         Cardinality(S) <= Cardinality(T)
  PROVE  \E f : f \in Injection(S, T)
<1> DEFINE m == Cardinality(S)
           n == Cardinality(T)
<1>1. m \in Nat /\ n \in Nat /\ m <= n
  BY FS_CardinalityType
<1>2. PICK f : f \in Bijection(1..m, S)
  BY FS_CardinalityType DEF ExistsBijection
<1>3. PICK g : g \in Bijection(1..n, T)
  BY FS_CardinalityType DEF ExistsBijection
<1> HIDE DEF m, n
<1>4. \A x \in S : \E i \in 1..m : f[i] = x
  BY <1>2 DEF Bijection, Surjection
<1> DEFINE index == [x \in S |-> CHOOSE i \in 1..m : f[i] = x]
           c == [x \in S |-> g[index[x]]]
<1>5. \A x \in S : index[x] \in 1..m /\ f[index[x]] = x
  BY <1>4
<1>6. \A x \in S : index[x] \in 1..n
  BY <1>1, <1>5
<1> HIDE DEF index
<1>7. /\ g \in [1..n -> T]
      /\ \A i, j \in 1..n : g[i] = g[j] => i = j
  BY <1>3 DEF Bijection, Injection, IsInjective
<1>8. c \in [S -> T]
  BY <1>6, <1>7
<1>9. \A x, y \in S : c[x] = c[y] => x = y
  BY <1>5, <1>6, <1>7
<1>10. c \in Injection(S, T)
  BY <1>8, <1>9 DEF Injection, IsInjective
<1> QED BY <1>10

LEMMA PrepareIs ==
  ASSUME NEW h, Tidy(h), NEW s \in 1..MaxSessions, FilesApart(h, s - 1),
         NEW old, DestinationsIn(h, 0, old), NEW last, Mapped(last) \subseteq h.live
  PROVE  LET g == Prepare(h, s, last)
         IN  /\ Tidy(g) /\ SameIdentity(h, g)
             /\ FilesApart(g, s) /\ DestinationsIn(g, s, old)
             /\ StaysBefore(h, g, s, old) /\ Prepared(h, g, s, last, old)
<1> DEFINE bare == {o \in Mapped(last) : NeedsDestination(h, o)}
           names == {h.objects[o].name : o \in bare}
           free == FreeBackupFiles(h)
           file == CHOOSE f \in Injection(names, free) : TRUE
           bdir == [p \in Paths |-> IF p[1] = s /\ p[2] \in names
                                    THEN file[p[2]] ELSE h.bdir[p]]
           bdata == [b \in BackupFiles |-> IF b \in Range(file) THEN {}
                                           ELSE h.bdata[b]]
           objects == [o \in Objects |->
                         IF o \in bare
                         THEN WithDestination(h.objects[o],
                                              file[h.objects[o].name],
                                              <<s, h.objects[o].name>>)
                         ELSE h.objects[o]]
           g == Prepare(h, s, last)
<1>1. /\ h.live \subseteq Objects /\ h \in HeapType
      /\ h.bdir \in [Paths -> BackupFiles \cup {Null}]
      /\ h.bdata \in [BackupFiles -> SUBSET (Inodes \X Nat)]
      /\ \A o \in Objects : h.objects[o] \in SourceFileType
  BY HeapFields DEF Tidy
<1>2. /\ bare \in SUBSET h.live
      /\ \A o \in bare : /\ Dest(h, o) = NoDestination /\ ~h.objects[o].unlinked
                         /\ o \in Mapped(last)
      /\ \A o \in Mapped(last) :
           ~h.objects[o].unlinked => o \in bare \/ Dest(h, o) # NoDestination
  BY DEF NeedsDestination
<1>3. names \subseteq Names
  BY <1>2 DEF Tidy
<1>4. /\ file \in [names -> free]
      /\ \A m, n \in names : file[m] = file[n] => m = n
  <2>1. /\ IsFiniteSet(free) /\ IsFiniteSet(bare)
        /\ Cardinality(bare) <= Cardinality(free)
    BY <1>2, EnoughBackupFiles
  <2> HIDE DEF bare, free
  <2> DEFINE name == [o \in bare |-> h.objects[o].name]
  <2>2. names = {name[o] : o \in bare} /\ DOMAIN name = bare
    OBVIOUS
  <2> HIDE DEF name, names
  <2>3. IsFiniteSet(names) /\ Cardinality(names) <= Cardinality(bare)
    BY <2>1, <2>2, ImageIsNotLarger
  <2>4. /\ Cardinality(names) \in Nat /\ Cardinality(bare) \in Nat
        /\ Cardinality(free) \in Nat
    BY <2>1, <2>3, FS_CardinalityType
  <2>5. Cardinality(names) <= Cardinality(free)
    BY <2>1, <2>3, <2>4
  <2>6. \E f : f \in Injection(names, free)
    BY <2>1, <2>3, <2>5, InjectionExists
  <2>7. file \in Injection(names, free)
    BY <2>6
  <2> HIDE DEF file
  <2> QED BY <2>7 DEF Injection, IsInjective
<1>5. /\ free \subseteq BackupFiles \ Range(h.bdir)
      /\ \A o \in h.live : Dest(h, o).file \notin free
  BY DEF FreeBackupFiles
<1>6. g = [h EXCEPT !.bdir = bdir, !.bdata = bdata, !.objects = objects]
  BY <1>1 DEF Prepare, HeapType, WithDestination
<1> HIDE DEF bare, names, free, file, g
<1>7. /\ \A o \in bare : h.objects[o].name \in names
      /\ \A n \in names : \E o \in bare : h.objects[o].name = n
  BY DEF names
<1>8. /\ bdir \in [Paths -> BackupFiles \cup {Null}]
      /\ bdata \in [BackupFiles -> SUBSET (Inodes \X Nat)]
  BY <1>1, <1>4, <1>5
<1>9. /\ \A p \in Paths : p[1] = s /\ p[2] \in names => bdir[p] = file[p[2]]
      /\ \A p \in Paths : ~(p[1] = s /\ p[2] \in names) => bdir[p] = h.bdir[p]
      /\ \A b \in BackupFiles :
           bdata[b] = IF b \in Range(file) THEN {} ELSE h.bdata[b]
  OBVIOUS
<1>10. \A o \in bare :
         /\ objects[o].name = h.objects[o].name
         /\ objects[o].refs = h.objects[o].refs
         /\ objects[o].unlinked = h.objects[o].unlinked
         /\ objects[o].dest = [file |-> file[h.objects[o].name],
                               path |-> <<s, h.objects[o].name>>]
         /\ objects[o] \in SourceFileType
  <2> SUFFICES ASSUME NEW o \in bare
               PROVE  /\ objects[o].name = h.objects[o].name
                      /\ objects[o].refs = h.objects[o].refs
                      /\ objects[o].unlinked = h.objects[o].unlinked
                      /\ objects[o].dest = [file |-> file[h.objects[o].name],
                                            path |-> <<s, h.objects[o].name>>]
                      /\ objects[o] \in SourceFileType
    OBVIOUS
  <2> DEFINE n == h.objects[o].name
             d == [file |-> file[n], path |-> <<s, n>>]
  <2>1. o \in Objects /\ h.objects[o] \in SourceFileType
    BY <1>1, <1>2
  <2>2. objects[o] = [h.objects[o] EXCEPT !.dest = d]
    BY <2>1 DEF WithDestination
  <2>3. d \in Destinations
    BY <1>3, <1>4, <1>5, <1>7 DEF Destinations, Paths
  <2> HIDE DEF d, objects, n
  <2>4. /\ objects[o].name = h.objects[o].name
        /\ objects[o].refs = h.objects[o].refs
        /\ objects[o].unlinked = h.objects[o].unlinked
        /\ objects[o].dest = d /\ objects[o] \in SourceFileType
    BY <2>1, <2>2, <2>3 DEF SourceFileType
  <2> QED BY <2>4 DEF d, n
<1>11. \A o \in Objects \ bare : objects[o] = h.objects[o]
  OBVIOUS
<1>f. ASSUME NEW o \in bare PROVE objects[o].dest.file = file[h.objects[o].name]
  <2>1. objects[o].dest = [file |-> file[h.objects[o].name],
                           path |-> <<s, h.objects[o].name>>]
    BY <1>10
  <2> HIDE DEF objects
  <2> QED BY <2>1
<1>12. objects \in [Objects -> SourceFileType]
  <2>1. \A o \in Objects : objects[o] \in SourceFileType
    BY <1>1, <1>10, <1>11
  <2>2. DOMAIN objects = Objects /\ objects = [o \in Objects |-> objects[o]]
    OBVIOUS
  <2> HIDE DEF objects
  <2> QED BY <2>1, <2>2
<1> HIDE DEF objects, bdir, bdata
<1>13. /\ g.objects = objects /\ g.bdir = bdir /\ g.bdata = bdata
       /\ g.live = h.live /\ g.table = h.table /\ g \in HeapType
  BY <1>1, <1>6, <1>8, <1>12 DEF HeapType
<1>14. SameIdentity(h, g)
  BY <1>10, <1>11, <1>13 DEF SameIdentity
<1>15. Tidy(g)
  <2>1. \A o \in g.live : g.objects[o].name = h.objects[o].name
    BY <1>1, <1>13, <1>14 DEF SameIdentity
  <2>2. Distinct(g.table) /\ Entries(g.table) = g.live
    BY <1>13 DEF Tidy
  <2>3. /\ \A o \in g.live : g.objects[o].name \in Names
        /\ \A o, p \in g.live : g.objects[o].name = g.objects[p].name => o = p
    BY <1>13, <2>1 DEF Tidy
  <2>4. \A o \in Objects \ g.live : g.objects[o] = NoObject
    BY <1>2, <1>11, <1>13 DEF Tidy
  <2> QED BY <1>13, <2>2, <2>3, <2>4 DEF Tidy
<1>16. \A p \in Paths : h.bdir[p] # Null => p[1] # s
  <2> SUFFICES ASSUME NEW p \in Paths, h.bdir[p] # Null PROVE p[1] # s
    OBVIOUS
  <2>1. p[1] <= s - 1 /\ p[1] \in 1..MaxSessions
    BY DEF FilesApart, Paths
  <2>2. s \in Int /\ p[1] \in Int
    BY <2>1
  <2> QED BY <2>1, <2>2
<1>17. \A p \in Paths : h.bdir[p] \notin free
  BY <1>1, <1>5 DEF Range
<1>18. \A n \in names : file[n] \in free /\ file[n] # Null /\ file[n] \in BackupFiles
  BY <1>4, <1>5, NoDestinationIsNone
<1>19. FilesApart(g, s)
  <2>1. ASSUME NEW p \in Paths, NEW q \in Paths, g.bdir[p] = g.bdir[q], g.bdir[p] # Null
        PROVE  p = q
    <3>0. p = <<p[1], p[2]>> /\ q = <<q[1], q[2]>>
      BY DEF Paths
    <3>1. CASE p[1] = s /\ p[2] \in names
      <4>1. g.bdir[q] \in free
        BY <1>9, <1>13, <1>18, <2>1, <3>1
      <4>2. q[1] = s /\ q[2] \in names
        BY <1>9, <1>13, <1>17, <4>1
      <4> QED BY <1>4, <1>9, <1>13, <2>1, <3>0, <3>1, <4>2
    <3>2. CASE q[1] = s /\ q[2] \in names
      <4>1. g.bdir[p] \in free
        BY <1>9, <1>13, <1>18, <2>1, <3>2
      <4>2. p[1] = s /\ p[2] \in names
        BY <1>9, <1>13, <1>17, <4>1
      <4> QED BY <1>4, <1>9, <1>13, <2>1, <3>0, <3>2, <4>2
    <3>3. CASE ~(p[1] = s /\ p[2] \in names) /\ ~(q[1] = s /\ q[2] \in names)
      <4>1. h.bdir[p] = h.bdir[q] /\ h.bdir[p] # Null
        BY <1>9, <1>13, <2>1, <3>3
      <4> QED BY <4>1 DEF FilesApart
    <3> QED BY <3>1, <3>2, <3>3
  <2>2. ASSUME NEW p \in Paths, g.bdir[p] # Null PROVE p[1] <= s
    <3>1. CASE p[1] = s
      <4>1. s \in Int
        OBVIOUS
      <4> QED BY <3>1, <4>1
    <3>2. CASE p[1] # s
      <4>1. h.bdir[p] # Null
        BY <1>9, <1>13, <2>2, <3>2
      <4>2. p[1] <= s - 1 /\ p[1] \in 1..MaxSessions
        BY <4>1 DEF FilesApart, Paths
      <4>3. s \in Int /\ p[1] \in Int
        BY <4>2
      <4> QED BY <4>2, <4>3
    <3> QED BY <3>1, <3>2
  <2> QED BY <2>1, <2>2 DEF FilesApart
<1>o. ASSUME NEW o \in g.live, Dest(g, o) # NoDestination, o \notin bare
      PROVE  /\ g.objects[o] = h.objects[o]
             /\ \A p \in Paths : h.bdir[p] = Dest(h, o).file => p = Dest(h, o).path
             /\ Dest(h, o).path[2] = h.objects[o].name
             /\ Dest(h, o).path \in old /\ Dest(h, o).path \in Paths
             /\ h.objects[o].unlinked \/ h.bdir[Dest(h, o).path] # Null
             /\ Dest(h, o).file \notin free /\ Dest(h, o).file # Null
  <2>1. /\ o \in h.live /\ o \in Objects /\ g.objects[o] = h.objects[o]
        /\ Dest(h, o) # NoDestination
    BY <1>1, <1>11, <1>13, <1>o DEF Dest
  <2>2. /\ \A p \in Paths : h.bdir[p] = Dest(h, o).file => p = Dest(h, o).path
        /\ Dest(h, o).path[2] = h.objects[o].name
        /\ Dest(h, o).path[1] = 0 \/ Dest(h, o).path \in old
        /\ h.objects[o].unlinked \/ h.bdir[Dest(h, o).path] # Null
    BY <2>1, DestinationIs
  <2>3. Dest(h, o).path \in Paths /\ Dest(h, o).file # Null
    BY <2>1, DestinationFields
  <2>4. Dest(h, o).path[1] # 0
    BY <2>3 DEF Paths
  <2> QED BY <1>5, <2>1, <2>2, <2>3, <2>4
<1>20. DestinationsIn(g, s, old)
  <2> SUFFICES ASSUME NEW o \in g.live, Dest(g, o) # NoDestination
               PROVE  DestinationOk(g.bdir, g.objects[o], s, old)
    BY DEF DestinationsIn
  <2>o. CASE o \notin bare
    <3>1. \A p \in Paths : g.bdir[p] = Dest(h, o).file => p = Dest(h, o).path
      BY <1>9, <1>13, <1>18, <1>o, <2>o
    <3>2. h.bdir[Dest(h, o).path] # Null => g.bdir[Dest(h, o).path] # Null
      BY <1>9, <1>13, <1>18, <1>o, <2>o
    <3> QED BY <1>o, <2>o, <3>1, <3>2 DEF DestinationOk, Dest
  <2>2. SUFFICES ASSUME o \in bare
                 PROVE  DestinationOk(g.bdir, g.objects[o], s, old)
    BY <2>o
  <2> DEFINE n == h.objects[o].name
  <2>3. /\ n \in names /\ n \in Names /\ g.objects[o].name = n
        /\ Dest(g, o).file = file[n] /\ Dest(g, o).path = <<s, n>>
    <3>1. n \in names /\ n \in Names
      BY <1>3, <1>7, <2>2
    <3>2. /\ objects[o].name = n
          /\ objects[o].dest = [file |-> file[n], path |-> <<s, n>>]
      BY <1>10, <2>2
    <3>3. Dest(g, o) = objects[o].dest /\ g.objects[o] = objects[o]
      BY <1>13 DEF Dest
    <3> QED BY <3>1, <3>2, <3>3
  <2> HIDE DEF n
  <2>4. \A p \in Paths : g.bdir[p] = file[n] => p = <<s, n>>
    <3>1. \A p \in Paths : p = <<p[1], p[2]>>
      BY DEF Paths
    <3> QED BY <1>4, <1>9, <1>13, <1>17, <1>18, <2>3, <3>1
  <2>5. g.bdir[<<s, n>>] # Null
    <3>1. <<s, n>> \in Paths
      BY <2>3 DEF Paths
    <3> QED BY <1>9, <1>13, <1>18, <2>3, <3>1
  <2> QED BY <2>3, <2>4, <2>5 DEF DestinationOk, Dest
<1>21. StaysBefore(h, g, s, old)
  <2> SUFFICES ASSUME NEW p \in Paths, p[1] < s
               PROVE  /\ g.bdir[p] = h.bdir[p]
                      /\ h.bdir[p] # Null => g.bdata[h.bdir[p]] = h.bdata[h.bdir[p]]
    BY DEF StaysBefore
  <2>1. p[1] # s
    <3>1. s \in Int
      OBVIOUS
    <3> QED BY <3>1
  <2>2. h.bdir[p] \notin Range(file)
    <3>1. Range(file) \subseteq free
      BY <1>4 DEF Range
    <3> QED BY <1>17, <3>1
  <2>3. h.bdir[p] # Null => h.bdir[p] \in BackupFiles
    BY <1>1
  <2> QED BY <1>9, <1>13, <2>1, <2>2, <2>3
<1>22. /\ \A n \in names : g.bdir[<<s, n>>] = file[n]
       /\ \A n \in Names \ names : g.bdir[<<s, n>>] = Null
  <2>1. \A n \in Names : <<s, n>> \in Paths
    BY DEF Paths
  <2> QED BY <1>3, <1>9, <1>13, <1>16, <2>1
<1>23. OnePath(g, s)
  BY <1>4, <1>22 DEF OnePath
<1>24. ASSUME NEW o \in bare
       PROVE  Dest(g, o).file = file[h.objects[o].name]
  <2>3. Dest(g, o) = objects[o].dest
    BY <1>13 DEF Dest
  <2>4. objects[o].dest.file = file[h.objects[o].name]
    BY <1>f
  <2> QED BY <2>3, <2>4
<1>25. ASSUME NEW n \in Names \ {p[2] : p \in old}, NEW o \in g.live,
              Dest(g, o) # NoDestination
       PROVE  Dest(g, o).file = g.bdir[<<s, n>>]
                <=> g.objects[o].name = n /\ ~g.objects[o].unlinked
  <2>o. CASE o \notin bare
    <3>1. g.objects[o] = h.objects[o] /\ h.objects[o].name # n
      BY <1>25, <1>o, <2>o
    <3>2. Dest(h, o).file # g.bdir[<<s, n>>]
      BY <1>18, <1>22, <1>25, <1>o, <2>o
    <3> QED BY <3>1, <3>2 DEF Dest
  <2>b. SUFFICES ASSUME o \in bare
                 PROVE  Dest(g, o).file = g.bdir[<<s, n>>]
                          <=> g.objects[o].name = n /\ ~g.objects[o].unlinked
    BY <2>o
  <2>1. o \in bare /\ Dest(g, o).file = file[h.objects[o].name]
    BY <1>24, <2>b
  <2>2. /\ g.objects[o].name = h.objects[o].name
        /\ g.objects[o].unlinked = h.objects[o].unlinked
    BY <1>10, <1>13, <2>1
  <2>3. h.objects[o].name \in names /\ ~h.objects[o].unlinked
    BY <1>2, <1>7, <2>1
  <2> QED BY <1>4, <1>18, <1>22, <2>1, <2>2, <2>3
<1>26. \A n \in Names \ {p[2] : p \in old} : DestAgrees(g, s, n)
  BY <1>25 DEF DestAgrees
<1>27. ASSUME NEW o \in Mapped(last), ~h.objects[o].unlinked
       PROVE  Dest(g, o) # NoDestination
  <2>o. CASE o \notin bare
    BY <1>1, <1>2, <1>11, <1>13, <1>27, <2>o DEF Dest
  <2>1. SUFFICES ASSUME o \in bare PROVE Dest(g, o) # NoDestination
    BY <2>o
  <2>2. Dest(g, o).file = file[h.objects[o].name]
    <3>1. Dest(g, o) = objects[o].dest
      BY <1>13 DEF Dest
    <3>2. objects[o].dest.file = file[h.objects[o].name]
      BY <1>f, <2>1
    <3> QED BY <3>1, <3>2
  <2> QED BY <1>7, <1>18, <2>1, <2>2, NoDestinationIsNone
<1>28. ASSUME NEW n \in Names, g.bdir[<<s, n>>] # Null
       PROVE  /\ g.bdata[g.bdir[<<s, n>>]] = {}
              /\ \E o \in Mapped(last) :
                   h.objects[o].name = n /\ ~h.objects[o].unlinked
  <2>1. n \in names /\ g.bdir[<<s, n>>] = file[n]
    BY <1>22, <1>28
  <2>2. file[n] \in Range(file) /\ file[n] \in BackupFiles
    BY <1>4, <1>18, <2>1 DEF Range
  <2> QED BY <1>2, <1>7, <1>9, <1>13, <2>1, <2>2
<1>29. Prepared(h, g, s, last, old)
  BY <1>23, <1>26, <1>27, <1>28 DEF Prepared
<1> QED BY <1>14, <1>15, <1>19, <1>20, <1>21, <1>29 DEF g

(* When the session ends the source_files that only a descriptor uses lose *)
(* their destinations.                                                     *)
LEMMA DisableDescriptionsIs ==
  ASSUME NEW h, Tidy(h), Mapped(MaxFds) \subseteq h.live
  PROVE  LET g == DisableDescriptions(h)
         IN  /\ Tidy(g) /\ SameIdentity(h, g) /\ NoNewDestination(h, g)
             /\ \A o \in Mapped(MaxFds) :
                  h.objects[o].refs <= 1 => Dest(g, o) = NoDestination
             /\ \A o \in h.live \ Mapped(MaxFds) : Dest(g, o) = Dest(h, o)
<1> DEFINE g == DisableDescriptions(h)
           new(o) == TryToRemoveDestination(h, o).objects[o]
           objects == [o \in Objects |-> IF o \in Mapped(MaxFds) THEN new(o)
                                         ELSE h.objects[o]]
<1>1. /\ h.live \subseteq Objects /\ h \in HeapType
      /\ \A o \in Objects : h.objects[o] \in SourceFileType
      /\ \A o \in Objects : h.objects[o].refs \in Nat
  BY HeapFields DEF Tidy
<1>2. ASSUME NEW o \in Mapped(MaxFds)
      PROVE  /\ o \in h.live /\ o \in Objects
             /\ new(o) = IF h.objects[o].refs > 1 THEN h.objects[o]
                         ELSE [h.objects[o] EXCEPT !.dest = NoDestination]
  BY <1>1, TryToRemoveDestinationIs
<1> HIDE DEF new
<1>3. ASSUME NEW o \in Mapped(MaxFds)
      PROVE  /\ objects[o] \in SourceFileType
             /\ objects[o].name = h.objects[o].name
             /\ objects[o].refs = h.objects[o].refs
             /\ objects[o].unlinked = h.objects[o].unlinked
             /\ objects[o].dest \in {NoDestination, h.objects[o].dest}
             /\ h.objects[o].refs <= 1 => objects[o].dest = NoDestination
  <2>1. objects[o] = new(o)
    BY <1>2
  <2>2. o \in Objects /\ h.objects[o] \in SourceFileType /\ h.objects[o].refs \in Nat
    BY <1>1, <1>2
  <2> HIDE DEF objects
  <2>3. CASE h.objects[o].refs > 1
    BY <1>2, <2>1, <2>2, <2>3
  <2>4. CASE ~(h.objects[o].refs > 1)
    BY <1>2, <2>1, <2>2, <2>4, NoDestinationIsNone DEF SourceFileType
  <2> QED BY <2>3, <2>4
<1>4. \A o \in Objects \ Mapped(MaxFds) : objects[o] = h.objects[o]
  OBVIOUS
<1>5. objects \in [Objects -> SourceFileType]
  <2>1. \A o \in Objects : objects[o] \in SourceFileType
    BY <1>1, <1>3, <1>4
  <2>2. objects = [o \in Objects |-> objects[o]]
    OBVIOUS
  <2> HIDE DEF objects
  <2> QED BY <2>1, <2>2
<1>6. g = [h EXCEPT !.objects = objects]
  BY <1>1 DEF DisableDescriptions, HeapType, new
<1> HIDE DEF objects, g
<1>7. /\ g.objects = objects /\ g.bdir = h.bdir /\ g.bdata = h.bdata
      /\ g.live = h.live /\ g.table = h.table /\ g \in HeapType
  BY <1>1, <1>5, <1>6 DEF HeapType
<1>8. SameIdentity(h, g)
  BY <1>3, <1>4, <1>7 DEF SameIdentity
<1>9. Tidy(g)
  <2>1. \A o \in g.live : g.objects[o].name = h.objects[o].name
    BY <1>1, <1>7, <1>8 DEF SameIdentity
  <2>2. Distinct(g.table) /\ Entries(g.table) = g.live
    BY <1>7 DEF Tidy
  <2>3. /\ \A o \in g.live : g.objects[o].name \in Names
        /\ \A o, p \in g.live : g.objects[o].name = g.objects[p].name => o = p
    BY <1>7, <2>1 DEF Tidy
  <2>4. \A o \in Objects \ g.live : g.objects[o] = NoObject
    BY <1>4, <1>7 DEF Tidy
  <2> QED BY <1>7, <2>2, <2>3, <2>4 DEF Tidy
<1>10. \A o \in h.live : Dest(g, o) \in {NoDestination, Dest(h, o)}
  BY <1>1, <1>3, <1>4, <1>7 DEF Dest
<1>11. NoNewDestination(h, g)
  <2>1. SameFiles(h, g)
    BY <1>7 DEF SameFiles
  <2> QED BY <1>1, <1>7, <1>8, <1>10, <2>1 DEF NoNewDestination, SameIdentity
<1> QED BY <1>1, <1>3, <1>4, <1>7, <1>8, <1>9, <1>11 DEF g, Dest

----------------------------------------------------------------------------
(*               What the operations do to the backup's files              *)

LEMMA StillStep ==
  ASSUME NEW h, NEW g, Still(h, g), NEW s
  PROVE  /\ OnePath(h, s) => OnePath(g, s)
         /\ \A n : DestAgrees(h, s, n) => DestAgrees(g, s, n)
         /\ \A n : BackupSame(h, g, s, n)
<1>1. g.bdir = h.bdir /\ g.bdata = h.bdata
  BY DEF Still, SameFiles
<1>2. OnePath(h, s) => OnePath(g, s)
  BY <1>1 DEF OnePath
<1>3. \A n : BackupSame(h, g, s, n)
  BY <1>1 DEF BackupSame
<1>4. ASSUME NEW n, DestAgrees(h, s, n) PROVE DestAgrees(g, s, n)
  BY <1>1, <1>4 DEF DestAgrees, Still
<1> QED BY <1>2, <1>3, <1>4

LEMMA SameHeapIsStill == ASSUME NEW h PROVE Still(h, h)
  BY DEF Still, SameFiles

(* What a look-up by name says of a backup's files. *)
LEMMA TargetIsPath ==
  ASSUME NEW s \in 1..MaxSessions, NEW n \in Names PROVE <<s, n>> \in Paths
  BY DEF Paths

LEMMA BackupFileOf ==
  ASSUME NEW h, Tidy(h), NEW s \in 1..MaxSessions, NEW n \in Names
  PROVE  h.bdir[<<s, n>>] \in BackupFiles \cup {Null}
  BY HeapFields, TargetIsPath

(* The files that a backup has are not free, nor are destinations. *)
LEMMA FreeFiles ==
  ASSUME NEW h, Tidy(h), NEW b \in FreeBackupFiles(h)
  PROVE  /\ b # Null /\ b \in BackupFiles
         /\ \A p \in Paths : h.bdir[p] # b
         /\ \A o \in h.live : Dest(h, o).file # b
<1>1. b \in BackupFiles /\ b \notin Range(h.bdir)
      /\ \A o \in h.live : Dest(h, o).file # b
  BY DEF FreeBackupFiles
<1>2. DOMAIN h.bdir = Paths
  BY HeapFields
<1>3. \A p \in Paths : h.bdir[p] # b
  BY <1>1, <1>2 DEF Range
<1> QED BY <1>1, <1>3, NoDestinationIsNone

LEMMA CreateKeepsBackup ==
  ASSUME NEW h, Tidy(h), NEW s \in 1..MaxSessions, NEW o \in h.live,
         NEW n \in Names, h.objects[o].name = n \/ ~NeedsDestination(h, o),
         OnePath(h, s)
  PROVE  BackupCreated(h, TryToCreateDestination(h, o, <<s, n>>), s, n)
<1> DEFINE g == TryToCreateDestination(h, o, <<s, n>>)
<1>1. CASE ~NeedsDestination(h, o)
  <2>1. g = h
    BY <1>1 DEF TryToCreateDestination
  <2> QED BY <2>1 DEF BackupSame, BackupCreated
<1>2. CASE NeedsDestination(h, o)
  <2>1. PICK b \in BackupFiles : DestinationCreated(h, g, o, <<s, n>>, b)
    BY <1>2, TargetIsPath, TryToCreateDestinationIs
  <2>2. /\ g.live = h.live /\ OnlyObject(h, g, o) /\ o \in Objects
        /\ g.bdir = [h.bdir EXCEPT ![<<s, n>>] = b]
        /\ \A c \in BackupFiles : c = b \/ g.bdata[c] = h.bdata[c]
        /\ h.objects[o] \in SourceFileType
        /\ g.objects[o] = [h.objects[o] EXCEPT
                             !.dest = [file |-> b, path |-> <<s, n>>]]
        /\ h.bdir \in [Paths -> BackupFiles \cup {Null}] /\ b # Null
        /\ h.live \subseteq Objects
    BY <2>1, HeapFields, NoDestinationIsNone DEF DestinationCreated
  <2>3. /\ g.bdir[<<s, n>>] = b
        /\ \A m \in Names \ {n} : g.bdir[<<s, m>>] = h.bdir[<<s, m>>]
    BY <2>2, TargetIsPath
  <2>4. \A m \in Names \ {n} : h.bdir[<<s, m>>] # b
    <3>1. CASE h.bdir[<<s, n>>] # Null
      <4>1. b = h.bdir[<<s, n>>]
        BY <2>1, <3>1 DEF DestinationCreated
      <4> QED BY <3>1, <4>1 DEF OnePath
    <3>2. CASE h.bdir[<<s, n>>] = Null
      <4>1. b \in FreeBackupFiles(h)
        BY <2>1, <3>2 DEF DestinationCreated
      <4> QED BY <4>1, FreeFiles, TargetIsPath
    <3> QED BY <3>1, <3>2
  <2>5. OnePath(g, s)
    BY <2>3, <2>4 DEF OnePath
  <2>6. /\ h.objects[o].name = n /\ ~h.objects[o].unlinked
        /\ Dest(h, o) = NoDestination
    BY <1>2 DEF NeedsDestination
  <2>7. /\ g.objects[o].name = n /\ ~g.objects[o].unlinked
        /\ Dest(g, o).file = b
    BY <2>2, <2>6 DEF Dest, SourceFileType
  <2>8. ASSUME NEW m \in Names, DestAgrees(h, s, m), NEW p \in g.live,
               Dest(g, p) # NoDestination
        PROVE  Dest(g, p).file = g.bdir[<<s, m>>]
                 <=> g.objects[p].name = m /\ ~g.objects[p].unlinked
    <3>1. CASE p = o
      BY <2>3, <2>4, <2>7, <3>1
    <3>2. CASE p # o
      <4>1. p \in h.live /\ g.objects[p] = h.objects[p]
        BY <2>2, <3>2 DEF OnlyObject
      <4>2. /\ Dest(h, p) # NoDestination /\ Dest(g, p) = Dest(h, p)
            /\ Dest(h, p).file = h.bdir[<<s, m>>]
                 <=> h.objects[p].name = m /\ ~h.objects[p].unlinked
        BY <2>8, <4>1 DEF DestAgrees, Dest
      <4>3. CASE m # n \/ h.bdir[<<s, n>>] # Null
        <5>1. g.bdir[<<s, m>>] = h.bdir[<<s, m>>]
          BY <2>1, <2>3, <4>3 DEF DestinationCreated
        <5> QED BY <4>1, <4>2, <5>1
      <4>4. CASE m = n /\ h.bdir[<<s, n>>] = Null
        <5>1. b \in FreeBackupFiles(h)
          BY <2>1, <4>4 DEF DestinationCreated
        <5>2. Dest(h, p).file # b
          BY <4>1, <5>1, FreeFiles
        <5>3. h.objects[p].name # n
          BY <2>6, <3>2, <4>1, SameNameSameObject
        <5> QED BY <2>3, <4>1, <4>2, <4>4, <5>2, <5>3
      <4> QED BY <4>3, <4>4
    <3> QED BY <3>1, <3>2
  <2>9. \A m \in Names : DestAgrees(h, s, m) => DestAgrees(g, s, m)
    BY <2>8 DEF DestAgrees
  <2>10. ASSUME NEW m \in Names
         PROVE  \/ BackupSame(h, g, s, m)
                \/ /\ m = n /\ h.bdir[<<s, m>>] = Null
                   /\ g.bdir[<<s, m>>] # Null /\ g.bdata[g.bdir[<<s, m>>]] = {}
    <3>1. CASE m # n
      <4>1. h.bdir[<<s, m>>] \in BackupFiles \cup {Null}
        BY BackupFileOf
      <4> QED BY <2>2, <2>3, <2>4, <3>1, <4>1 DEF BackupSame
    <3>2. CASE m = n /\ h.bdir[<<s, n>>] # Null
      <4>1. b = h.bdir[<<s, n>>] /\ g.bdata = h.bdata
        BY <2>1, <3>2 DEF DestinationCreated
      <4> QED BY <2>3, <3>2, <4>1 DEF BackupSame
    <3>3. CASE m = n /\ h.bdir[<<s, n>>] = Null
      <4>1. g.bdata[b] = {}
        BY <2>1, <3>3 DEF DestinationCreated
      <4>2. g.bdir[<<s, m>>] = b /\ h.bdir[<<s, m>>] = Null
        BY <2>3, <3>3
      <4> QED BY <2>2, <3>3, <4>1, <4>2
    <3> QED BY <3>1, <3>2, <3>3
  <2> HIDE DEF g
  <2>11. BackupCreated(h, g, s, n)
    BY <2>5, <2>9, <2>10 DEF BackupCreated
  <2> QED BY <2>11 DEF g
<1> QED BY <1>1, <1>2

(* A write: the file that is written to has the content in addition. *)
LEMMA WriteKeepsBackup ==
  ASSUME NEW h, Tidy(h), NEW s \in 1..MaxSessions, NEW o \in h.live,
         NEW content \in SUBSET (Inodes \X Nat)
  PROVE  LET g == WriteDestination(h, o, content)
         IN  /\ g.live = h.live /\ g.objects = h.objects
             /\ OnePath(h, s) => OnePath(g, s)
             /\ \A m \in Names : DestAgrees(h, s, m) => DestAgrees(g, s, m)
             /\ \A m \in Names : g.bdir[<<s, m>>] = h.bdir[<<s, m>>]
             /\ \A m \in Names : h.bdir[<<s, m>>] # Null =>
                  g.bdata[h.bdir[<<s, m>>]] =
                    IF Dest(h, o) # NoDestination
                         /\ h.bdir[<<s, m>>] = Dest(h, o).file
                    THEN h.bdata[h.bdir[<<s, m>>]] \cup content
                    ELSE h.bdata[h.bdir[<<s, m>>]]
<1> DEFINE g == WriteDestination(h, o, content)
<1>1. /\ g.objects = h.objects /\ g.live = h.live /\ g.bdir = h.bdir
      /\ \A c \in BackupFiles :
           g.bdata[c] = IF Dest(h, o) # NoDestination /\ c = Dest(h, o).file
                        THEN h.bdata[c] \cup content ELSE h.bdata[c]
  BY WriteDestinationIs
<1> HIDE DEF g
<1>2. OnePath(h, s) => OnePath(g, s)
  BY <1>1 DEF OnePath
<1>3. \A m \in Names : DestAgrees(h, s, m) => DestAgrees(g, s, m)
  BY <1>1 DEF DestAgrees, Dest
<1>4. \A m \in Names : h.bdir[<<s, m>>] # Null => h.bdir[<<s, m>>] \in BackupFiles
  BY BackupFileOf
<1> QED BY <1>1, <1>2, <1>3, <1>4 DEF g

(* The unlink of a file whose source_file has a destination: the name goes *)
(* from the backup, and the source_file is marked.                         *)
LEMMA MarkKeepsBackup ==
  ASSUME NEW h, Tidy(h), NEW s \in 1..MaxSessions, NEW o \in h.live,
         NEW n \in Names, h.objects[o].name = n, ~h.objects[o].unlinked,
         h.objects[o].refs >= 1, Dest(h, o) # NoDestination,
         Dest(h, o).path[2] = n, OnePath(h, s)
  PROVE  LET g == MarkUnlinked(UnlinkDestination(h, o), o)
         IN  /\ OnePath(g, s)
             /\ Dest(h, o).path = <<s, n>> =>
                  DestAgrees(g, s, n) /\ g.bdir[<<s, n>>] = Null
             /\ \A m \in Names \ {n} :
                  /\ BackupSame(h, g, s, m)
                  /\ DestAgrees(h, s, m) => DestAgrees(g, s, m)
<1> DEFINE k == UnlinkDestination(h, o)
           g == MarkUnlinked(k, o)
           path == Dest(h, o).path
<1>0. path \in Paths
  BY DestinationFields
<1>1. /\ Tidy(k) /\ k.objects = h.objects /\ k.live = h.live /\ k.bdata = h.bdata
      /\ k.bdir = [h.bdir EXCEPT ![path] = Null]
  BY UnlinkDestinationIs
<1> HIDE DEF k
<1>2. /\ Tidy(g) /\ NoNewDestination(k, g) /\ OnlyObject(k, g, o)
      /\ k.objects[o].refs > 1 =>
           /\ g.live = k.live
           /\ g.objects[o].name = k.objects[o].name
           /\ g.objects[o].refs = k.objects[o].refs - 1
           /\ g.objects[o].unlinked
           /\ Dest(g, o) = Dest(k, o)
      /\ k.objects[o].refs = 1 =>
           g.live = k.live \ {o} /\ g.objects[o] = NoObject
  BY <1>1, MarkUnlinkedIs
<1> HIDE DEF g
<1>3. h.objects[o].refs = 1 \/ h.objects[o].refs > 1
  <2>1. h.objects[o].refs \in Nat
    BY HeapFields
  <2> QED BY <2>1
<1>4. g.bdata = h.bdata /\ g.bdir = [h.bdir EXCEPT ![path] = Null]
  BY <1>1, <1>2 DEF NoNewDestination, SameFiles
<1>5. /\ path = <<s, n>> => g.bdir[<<s, n>>] = Null
      /\ g.bdir[<<s, n>>] \in {h.bdir[<<s, n>>], Null}
      /\ \A m \in Names \ {n} : g.bdir[<<s, m>>] = h.bdir[<<s, m>>]
  <2>1. DOMAIN h.bdir = Paths
    BY HeapFields
  <2>2. \A m \in Names \ {n} : <<s, m>> # path
    OBVIOUS
  <2> HIDE DEF path
  <2> QED BY <1>0, <1>4, <2>1, <2>2, TargetIsPath
<1>6. OnePath(g, s)
  BY <1>5 DEF OnePath
<1>7. ASSUME NEW p \in g.live, Dest(g, p) # NoDestination
      PROVE  /\ p \in h.live /\ Dest(g, p) = Dest(h, p)
             /\ g.objects[p].name = h.objects[p].name
             /\ Dest(g, p).file # Null
             /\ p = o => g.objects[p].unlinked
             /\ p # o => g.objects[p].unlinked = h.objects[p].unlinked
  <2>1. /\ p \in h.live /\ Dest(g, p) = Dest(h, p)
        /\ g.objects[p].name = h.objects[p].name
    BY <1>1, <1>2, <1>7 DEF NoNewDestination, Dest
  <2>2. Dest(g, p).file # Null
    BY <1>7, <2>1, DestinationFields
  <2>3. p = o => g.objects[p].unlinked
    BY <1>1, <1>2, <1>3
  <2>4. p # o => g.objects[p].unlinked = h.objects[p].unlinked
    <3>1. p \in Objects
      BY <2>1, HeapFields
    <3> QED BY <1>1, <1>2, <3>1 DEF OnlyObject
  <2> QED BY <2>1, <2>2, <2>3, <2>4
<1>8. ASSUME NEW p \in g.live, Dest(g, p) # NoDestination
      PROVE  g.objects[p].name = n => g.objects[p].unlinked
  BY <1>7, <1>8, SameNameSameObject
<1>9. path = <<s, n>> => DestAgrees(g, s, n)
  BY <1>5, <1>7, <1>8 DEF DestAgrees
<1>10. ASSUME NEW m \in Names \ {n}, DestAgrees(h, s, m) PROVE DestAgrees(g, s, m)
  <2> SUFFICES ASSUME NEW p \in g.live, Dest(g, p) # NoDestination
               PROVE  Dest(g, p).file = g.bdir[<<s, m>>]
                        <=> g.objects[p].name = m /\ ~g.objects[p].unlinked
    BY DEF DestAgrees
  <2>1. /\ p \in h.live /\ Dest(g, p) = Dest(h, p)
        /\ g.objects[p].name = h.objects[p].name
        /\ p # o => g.objects[p].unlinked = h.objects[p].unlinked
    BY <1>7
  <2>2. Dest(h, p).file = h.bdir[<<s, m>>]
          <=> h.objects[p].name = m /\ ~h.objects[p].unlinked
    BY <1>10, <2>1 DEF DestAgrees
  <2>3. g.bdir[<<s, m>>] = h.bdir[<<s, m>>]
    BY <1>5
  <2> QED BY <2>1, <2>2, <2>3
<1>11. \A m \in Names \ {n} : BackupSame(h, g, s, m)
  BY <1>4, <1>5 DEF BackupSame
<1> QED BY <1>5, <1>6, <1>9, <1>10, <1>11 DEF g, k

LEMMA SameTogether ==
  ASSUME NEW h, NEW k, NEW g, NEW s, NEW n, BackupSame(h, k, s, n), BackupSame(k, g, s, n)
  PROVE  BackupSame(h, g, s, n)
  BY DEF BackupSame

(* unlink in a session *)
LEMMA UnlinkKeepsBackup ==
  ASSUME NEW h, Tidy(h), NEW s \in 1..MaxSessions, FilesApart(h, s),
         NEW old, DestinationsIn(h, s, old), NEW o \in h.live, NEW n \in Names,
         h.objects[o].name = n, ~h.objects[o].unlinked, h.objects[o].refs >= 1,
         OnePath(h, s)
  PROVE  LET g == MarkUnlinked(UnlinkBackup(h, o, <<s, n>>), o)
         IN  /\ OnePath(g, s)
             /\ n \notin {p[2] : p \in old} =>
                  DestAgrees(g, s, n) /\ g.bdir[<<s, n>>] = Null
             /\ \A m \in Names \ {n} :
                  /\ BackupSame(h, g, s, m)
                  /\ DestAgrees(h, s, m) => DestAgrees(g, s, m)
<1> DEFINE c == TryToCreateDestination(h, o, <<s, n>>)
           g == MarkUnlinked(UnlinkDestination(c, o), o)
<1>1. /\ Tidy(c) /\ SameIdentity(h, c) /\ DestinationsIn(c, s, old)
      /\ Dest(c, o) # NoDestination
  BY CreateInSession
<1>2. UnlinkBackup(h, o, <<s, n>>) = UnlinkDestination(c, o)
  BY <1>1 DEF UnlinkBackup
<1>c. BackupCreated(h, c, s, n)
  BY CreateKeepsBackup
<1> HIDE DEF c
<1>3. /\ OnePath(c, s)
      /\ \A m \in Names : DestAgrees(h, s, m) => DestAgrees(c, s, m)
      /\ \A m \in Names \ {n} : BackupSame(h, c, s, m)
  BY <1>c DEF BackupCreated
<1>4. /\ o \in c.live /\ c.objects[o].name = n
      /\ ~c.objects[o].unlinked /\ c.objects[o].refs >= 1
  BY <1>1, HeapFields DEF SameIdentity
<1>5. /\ Dest(c, o).path[2] = n
      /\ n \notin {p[2] : p \in old} => Dest(c, o).path = <<s, n>>
  <2>1. /\ Dest(c, o).path[2] = n /\ Dest(c, o).path \in Paths
        /\ Dest(c, o).path[1] = s \/ Dest(c, o).path \in old
    BY <1>1, <1>4, DestinationIs, DestinationFields
  <2> QED BY <2>1 DEF Paths
<1>6. /\ OnePath(g, s)
      /\ Dest(c, o).path = <<s, n>> =>
           DestAgrees(g, s, n) /\ g.bdir[<<s, n>>] = Null
      /\ \A m \in Names \ {n} :
           /\ BackupSame(c, g, s, m)
           /\ DestAgrees(c, s, m) => DestAgrees(g, s, m)
  BY <1>1, <1>3, <1>4, <1>5, MarkKeepsBackup
<1> HIDE DEF g
<1>7. \A m \in Names \ {n} :
        /\ BackupSame(h, g, s, m)
        /\ DestAgrees(h, s, m) => DestAgrees(g, s, m)
  BY <1>3, <1>6, SameTogether
<1> QED BY <1>2, <1>5, <1>6, <1>7 DEF g

LEMMA MoveKeepsBackup ==
  ASSUME NEW h, Tidy(h), NEW s \in 1..MaxSessions, FilesApart(h, s),
         NEW old, DestinationsIn(h, s, old), NEW o \in h.live,
         NEW n \in Names, NEW to \in Names,
         h.objects[o].name = n, n # to, ~h.objects[o].unlinked,
         h.objects[o].refs >= 1, Dest(h, o) # NoDestination,
         h.objects[o].refs = 1
           \/ \A p \in h.live \ {o} : h.objects[p].name # to,
         OnePath(h, s)
  PROVE  LET g == TryToRemove(RenameObject(h, o, to, <<s, to>>), o)
         IN  BackupRenamed(h, g, s, n, to)
<1> DEFINE g == TryToRemove(RenameObject(h, o, to, <<s, to>>), o)
           from == Dest(h, o).path
<1>1. from[2] = n /\ from \in Paths /\ ~DestinationIsGone(h, o)
  BY DestinationIs, DestinationFields DEF DestinationIsGone
<1>2. <<s, to>> \in Paths /\ from # <<s, to>>
  BY <1>1 DEF Paths
<1> HIDE DEF from
<1>3. /\ OnlyObject(h, g, o) /\ g.bdata = h.bdata
      /\ g.bdir = Moved(h.bdir, from, <<s, to>>)
      /\ h.objects[o].refs > 1 =>
           /\ g.live = h.live
           /\ g.objects[o] = Released(RenamedTo(h.objects[o], to, <<s, to>>))
      /\ h.objects[o].refs = 1 =>
           g.live = h.live \ {o} /\ g.objects[o] = NoObject
  BY <1>1, <1>2, RenameAndReleaseIs DEF from
<1> HIDE DEF g
<1>4. /\ h.bdir \in [Paths -> BackupFiles \cup {Null}]
      /\ h.objects[o] \in SourceFileType /\ h.objects[o].refs \in Nat
      /\ h.live \subseteq Objects
  BY HeapFields
<1>5. \A m \in Names \ {n, to} : g.bdir[<<s, m>>] = h.bdir[<<s, m>>]
  <2>1. \A m \in Names \ {n, to} :
          <<s, m>> \in Paths /\ <<s, m>> # from /\ <<s, m>> # <<s, to>>
    BY <1>1 DEF Paths
  <2> QED BY <1>1, <1>2, <1>3, <1>4, <2>1 DEF Moved
<1>6. OnePath(g, s)
  <2>1. FilesApart(g, s)
    BY RenameInSession DEF g
  <2> QED BY <2>1, TargetIsPath DEF FilesApart, OnePath
<1>7. \A m \in Names \ {n, to} : BackupSame(h, g, s, m)
  BY <1>3, <1>5 DEF BackupSame
<1>8. ASSUME NEW m \in Names \ {n, to}, DestAgrees(h, s, m) PROVE DestAgrees(g, s, m)
  <2> SUFFICES ASSUME NEW p \in g.live, Dest(g, p) # NoDestination
               PROVE  Dest(g, p).file = g.bdir[<<s, m>>]
                        <=> g.objects[p].name = m /\ ~g.objects[p].unlinked
    BY DEF DestAgrees
  <2>1. p \in h.live /\ (p = o => h.objects[o].refs > 1)
    BY <1>3, <1>4
  <2>2. CASE p = o
    <3>0. g.objects[o] = Released(RenamedTo(h.objects[o], to, <<s, to>>))
      BY <1>3, <2>1, <2>2
    <3> DEFINE path == <<s, to>>
               file == h.objects[o].dest.file
    <3> HIDE DEF path, file
    <3>1. g.objects[o].name = to /\ Dest(g, o).file = Dest(h, o).file
      <4>1. /\ g.objects[o].name = to
            /\ g.objects[o].dest = [file |-> file, path |-> path]
        BY <1>4, <3>0 DEF Released, RenamedTo, SourceFileType, path, file
      <4>2. g.objects[o].dest.file = file
        BY <4>1
      <4> QED BY <4>1, <4>2 DEF Dest, file
    <3>2. Dest(h, o).file # h.bdir[<<s, m>>]
      BY <1>8 DEF DestAgrees
    <3> QED BY <1>5, <2>2, <3>1, <3>2
  <2>3. CASE p # o
    <3>1. g.objects[p] = h.objects[p]
      BY <1>3, <1>4, <2>1, <2>3 DEF OnlyObject
    <3> QED BY <1>5, <1>8, <2>1, <3>1 DEF DestAgrees, Dest
  <2> QED BY <2>2, <2>3
<1>9. BackupRenamed(h, g, s, n, to)
  BY <1>6, <1>7, <1>8 DEF BackupRenamed
<1> QED BY <1>9 DEF g

----------------------------------------------------------------------------
(*                          Users and references                           *)

LEMMA ActorsAreFinite ==
  /\ IsFiniteSet(Actors) /\ Cardinality(Actors) \in Nat
  /\ Cardinality(Actors) <= MaxFds + Cardinality(Threads) + 1
<1> DEFINE A == {"fd"} \X Fds
           B == {"call"} \X Threads
           C == {<<"copier">>}
<1>1. MaxFds \in Nat /\ IsFiniteSet(Threads) /\ Cardinality(Threads) \in Nat
  BY FileTableAssumption, FS_CardinalityType DEF FileTableAssumption
<1>2. IsFiniteSet(Fds) /\ Cardinality(Fds) = MaxFds
  BY <1>1, FS_Interval DEF Fds
<1>3. /\ IsFiniteSet({"fd"}) /\ Cardinality({"fd"}) = 1
      /\ IsFiniteSet({"call"}) /\ Cardinality({"call"}) = 1
      /\ IsFiniteSet(C) /\ Cardinality(C) = 1
  BY FS_Singleton
<1>4. IsFiniteSet(A) /\ Cardinality(A) = MaxFds
  <2>1. IsFiniteSet(A) /\ Cardinality(A) = 1 * MaxFds
    BY <1>2, <1>3, FS_Product
  <2> QED BY <1>1, <2>1
<1>5. IsFiniteSet(B) /\ Cardinality(B) = Cardinality(Threads)
  <2>1. IsFiniteSet(B) /\ Cardinality(B) = 1 * Cardinality(Threads)
    BY <1>1, <1>3, FS_Product
  <2> QED BY <1>1, <2>1
<1> HIDE DEF A, B, C
<1>6. /\ IsFiniteSet(A \cup B) /\ Cardinality(A \cup B) \in Nat
      /\ Cardinality(A \cup B) <= MaxFds + Cardinality(Threads)
  <2>1. /\ IsFiniteSet(A \cup B) /\ IsFiniteSet(A \cap B)
        /\ Cardinality(A \cup B) = Cardinality(A) + Cardinality(B) - Cardinality(A \cap B)
    BY <1>4, <1>5, FS_Union, FS_Intersection
  <2>2. Cardinality(A \cap B) \in Nat /\ Cardinality(A \cup B) \in Nat
    BY <2>1, FS_CardinalityType
  <2> QED BY <1>1, <1>4, <1>5, <2>1, <2>2
<1>7. /\ IsFiniteSet((A \cup B) \cup C) /\ IsFiniteSet((A \cup B) \cap C)
      /\ Cardinality((A \cup B) \cup C)
           = Cardinality(A \cup B) + Cardinality(C) - Cardinality((A \cup B) \cap C)
  BY <1>3, <1>6, FS_Union, FS_Intersection
<1>8. /\ Cardinality((A \cup B) \cap C) \in Nat
      /\ Cardinality((A \cup B) \cup C) \in Nat
  BY <1>7, FS_CardinalityType
<1>9. Cardinality((A \cup B) \cup C) <= MaxFds + Cardinality(Threads) + 1
  BY <1>1, <1>3, <1>6, <1>7, <1>8
<1> QED BY <1>7, <1>8, <1>9 DEF Actors, A, B, C

LEMMA UsersAreActors ==
  ASSUME NEW o \in Objects
  PROVE  /\ Users(o) \in SUBSET Actors /\ IsFiniteSet(Users(o))
         /\ Cardinality(Users(o)) \in Nat
<1>1. Users(o) \in SUBSET Actors
  BY DEF Users, Actors
<1>2. IsFiniteSet(Users(o))
  BY <1>1, ActorsAreFinite, FS_Subset
<1> QED BY <1>1, <1>2, FS_CardinalityType

(* Who uses a source_file. *)
LEMMA UserIs ==
  ASSUME NEW o \in Objects
  PROVE  /\ \A fd : <<"fd", fd>> \in Users(o) <=> fd \in Fds /\ map[fd] = o
         /\ \A t : <<"call", t>> \in Users(o) <=> t \in Threads /\ call[t].object = o
         /\ <<"copier">> \in Users(o) <=> copying.object = o
         /\ \A a \in Users(o) : \/ \E fd \in Fds : a = <<"fd", fd>>
                                \/ \E t \in Threads : a = <<"call", t>>
                                \/ a = <<"copier">>
<1>2. \A fd : <<"fd", fd>> \in Users(o) <=> fd \in Fds /\ map[fd] = o
  BY DEF Users
<1>3. \A t : <<"call", t>> \in Users(o) <=> t \in Threads /\ call[t].object = o
  BY DEF Users
<1>4. <<"copier">> \in Users(o) <=> copying.object = o
  BY DEF Users
<1>5. \A a \in Users(o) : \/ \E fd \in Fds : a = <<"fd", fd>>
                          \/ \E t \in Threads : a = <<"call", t>>
                          \/ a = <<"copier">>
  BY DEF Users
<1> QED BY <1>2, <1>3, <1>4, <1>5

LEMMA UsersAreDisjoint ==
  ASSUME NEW o \in Objects, NEW p \in Objects, NEW a \in Users(o), a \in Users(p)
  PROVE  o = p
<1>1. CASE \E fd \in Fds : a = <<"fd", fd>>
  BY <1>1, UserIs
<1>2. CASE \E t \in Threads : a = <<"call", t>>
  BY <1>2, UserIs
<1>3. CASE a = <<"copier">>
  BY <1>3, UserIs
<1> QED BY <1>1, <1>2, <1>3, UserIs

(* A source_file is live if it is used, and has a reference for each user. *)
LEMMA UsedIsLive ==
  ASSUME RefsInv, NEW o \in Objects, NEW a \in Users(o)
  PROVE  /\ o \in heap.live /\ heap.objects[o].refs \in Nat
         /\ heap.objects[o].refs >= 1
         /\ \A b \in Users(o) : a # b => heap.objects[o].refs > 1
<1>1. /\ o \in heap.live /\ heap.objects[o].refs = Cardinality(Users(o))
  BY DEF RefsInv, ReferencesMatchUsers
<1>2. IsFiniteSet(Users(o)) /\ Cardinality(Users(o)) \in Nat
  BY UsersAreActors
<1>3. Cardinality(Users(o)) # 0
  BY <1>2, FS_EmptySet
<1>4. ASSUME NEW b \in Users(o), a # b PROVE Cardinality(Users(o)) > 1
  <2>1. /\ IsFiniteSet(Users(o) \ {a})
        /\ Cardinality(Users(o) \ {a}) = Cardinality(Users(o)) - 1
    BY <1>2, FS_RemoveElement
  <2>2. Cardinality(Users(o) \ {a}) # 0
    BY <1>4, <2>1, FS_EmptySet
  <2> QED BY <1>2, <1>3, <2>1, <2>2
<1> QED BY <1>1, <1>2, <1>3, <1>4

LEMMA OnlyUser ==
  ASSUME RefsInv, NEW o \in Objects, NEW a, Users(o) = {a}
  PROVE  heap.objects[o].refs = 1
  BY FS_Singleton DEF RefsInv, ReferencesMatchUsers

(* Who has no source_file can get a new one. *)
LEMMA RoomForOne ==
  ASSUME RefsInv, EnoughObjects, NEW a \in Actors, \A o \in Objects : a \notin Users(o)
  PROVE  heap.live # Objects
<1> SUFFICES ASSUME heap.live = Objects PROVE FALSE
  OBVIOUS
<1> DEFINE user == [o \in Objects |-> CHOOSE u \in Users(o) : TRUE]
           T == Actors \ {a}
<1>1. \A o \in Objects : Users(o) # {}
  BY DEF RefsInv, ReferencesMatchUsers
<1>2. \A o \in Objects : user[o] \in Users(o)
  BY <1>1
<1> HIDE DEF user
<1>3. \A o \in Objects : user[o] \in T
  BY <1>2, UsersAreActors
<1>4. /\ IsFiniteSet(T) /\ Cardinality(T) = Cardinality(Actors) - 1
  BY ActorsAreFinite, FS_RemoveElement
<1>5. Cardinality(T) < Cardinality(Objects) /\ IsFiniteSet(Objects)
  <2>1. Cardinality(Threads) \in Nat /\ MaxFds \in Nat
    BY FileTableAssumption, FS_CardinalityType DEF FileTableAssumption
  <2>2. Cardinality(Objects) = MaxObjects /\ IsFiniteSet(Objects) /\ MaxObjects \in Nat
    BY BackupFilesAreFinite
  <2>3. Cardinality(T) \in Nat
    BY <1>4, FS_CardinalityType
  <2> HIDE DEF T
  <2> QED BY <1>4, <2>1, <2>2, <2>3, ActorsAreFinite DEF EnoughObjects
<1>6. user \in [Objects -> T]
  BY <1>3 DEF user
<1> HIDE DEF T
<1>7. PICK x, y \in Objects : x # y /\ user[x] = user[y]
  BY <1>4, <1>5, <1>6, FS_PigeonHole
<1> QED BY <1>2, <1>7, UsersAreDisjoint

(* A new user. *)
LEMMA UserComes ==
  ASSUME RefsInv, Tidy(heap), NEW o \in Objects, NEW a, a \notin Users(o),
         Users(o)' = Users(o) \cup {a},
         \A p \in Objects \ {o} : Users(p)' = Users(p),
         heap'.live = heap.live \cup {o}, OnlyObject(heap, heap', o),
         o \in heap.live => heap'.objects[o].refs = heap.objects[o].refs + 1,
         o \notin heap.live => heap'.objects[o].refs = 1
  PROVE  RefsInv'
<1>1. IsFiniteSet(Users(o)) /\ Cardinality(Users(o)) \in Nat
  BY UsersAreActors
<1>2. Cardinality(Users(o) \cup {a}) = Cardinality(Users(o)) + 1
  BY <1>1, FS_AddElement
<1>3. /\ heap.objects[o].refs = Cardinality(Users(o))
      /\ o \in heap.live <=> Users(o) # {}
  BY DEF RefsInv, ReferencesMatchUsers
<1>4. o \notin heap.live => Cardinality(Users(o)) = 0
  BY <1>3, FS_EmptySet
<1>5. /\ heap'.objects[o].refs = Cardinality(Users(o)')
      /\ o \in heap'.live /\ Users(o)' # {}
  BY <1>1, <1>2, <1>3, <1>4
<1>6. ASSUME NEW p \in Objects, p # o
      PROVE  /\ heap'.objects[p].refs = Cardinality(Users(p)')
             /\ p \in heap'.live <=> Users(p)' # {}
  <2>1. /\ heap.objects[p].refs = Cardinality(Users(p))
        /\ p \in heap.live <=> Users(p) # {}
    BY DEF RefsInv, ReferencesMatchUsers
  <2>2. Users(p)' = Users(p)
    BY <1>6
  <2>3. heap'.objects[p] = heap.objects[p] /\ (p \in heap'.live <=> p \in heap.live)
    BY <1>6 DEF OnlyObject
  <2> QED BY <2>1, <2>2, <2>3
<1> QED BY <1>5, <1>6 DEF RefsInv, ReferencesMatchUsers

(* A user gives its reference back. *)
LEMMA UserGoes ==
  ASSUME RefsInv, Tidy(heap), NEW o \in Objects, NEW a \in Users(o),
         Users(o)' = Users(o) \ {a},
         \A p \in Objects \ {o} : Users(p)' = Users(p),
         OnlyObject(heap, heap', o),
         heap.objects[o].refs > 1 =>
           /\ heap'.live = heap.live
           /\ heap'.objects[o].refs = heap.objects[o].refs - 1,
         heap.objects[o].refs = 1 =>
           heap'.live = heap.live \ {o} /\ heap'.objects[o] = NoObject
  PROVE  RefsInv'
<1>1. IsFiniteSet(Users(o)) /\ Cardinality(Users(o)) \in Nat
  BY UsersAreActors
<1>2. /\ IsFiniteSet(Users(o) \ {a})
      /\ Cardinality(Users(o) \ {a}) = Cardinality(Users(o)) - 1
  BY <1>1, FS_RemoveElement
<1>3. /\ heap.objects[o].refs = Cardinality(Users(o)) /\ o \in heap.live
      /\ heap.objects[o].refs >= 1
  BY UsedIsLive DEF RefsInv, ReferencesMatchUsers
<1>4. heap.objects[o].refs = 1 \/ heap.objects[o].refs > 1
  BY <1>1, <1>3
<1>5. /\ heap'.objects[o].refs = Cardinality(Users(o)')
      /\ o \in heap'.live <=> Users(o)' # {}
  <2>1. CASE heap.objects[o].refs = 1
    <3>1. Cardinality(Users(o) \ {a}) = 0
      BY <1>2, <1>3, <2>1
    <3>2. Users(o)' = {}
      BY <1>2, <3>1, FS_EmptySet
    <3>3. NoObject.refs = 0
      BY DEF NoObject
    <3> QED BY <2>1, <3>1, <3>2, <3>3
  <2>2. CASE heap.objects[o].refs > 1
    <3>1. Cardinality(Users(o) \ {a}) # 0
      BY <1>1, <1>2, <1>3, <2>2
    <3>2. Users(o) \ {a} # {}
      BY <3>1, FS_EmptySet
    <3> QED BY <1>2, <1>3, <2>2, <3>2
  <2> QED BY <1>4, <2>1, <2>2
<1>6. ASSUME NEW p \in Objects, p # o
      PROVE  /\ heap'.objects[p].refs = Cardinality(Users(p)')
             /\ p \in heap'.live <=> Users(p)' # {}
  <2>1. /\ heap.objects[p].refs = Cardinality(Users(p))
        /\ p \in heap.live <=> Users(p) # {}
    BY DEF RefsInv, ReferencesMatchUsers
  <2>2. Users(p)' = Users(p)
    BY <1>6
  <2>3. heap'.objects[p] = heap.objects[p] /\ (p \in heap'.live <=> p \in heap.live)
    BY <1>4, <1>6 DEF OnlyObject
  <2> QED BY <2>1, <2>2, <2>3
<1> QED BY <1>5, <1>6 DEF RefsInv, ReferencesMatchUsers

(* A reference passes from one user to another. *)
LEMMA UserPassesOn ==
  ASSUME RefsInv, NEW o \in Objects, NEW a \in Users(o), NEW b, b \notin Users(o),
         Users(o)' = (Users(o) \ {a}) \cup {b},
         \A p \in Objects \ {o} : Users(p)' = Users(p),
         SameIdentity(heap, heap')
  PROVE  RefsInv'
<1>1. IsFiniteSet(Users(o)) /\ Cardinality(Users(o)) \in Nat
  BY UsersAreActors
<1>2. /\ IsFiniteSet(Users(o) \ {a})
      /\ Cardinality(Users(o) \ {a}) = Cardinality(Users(o)) - 1
  BY <1>1, FS_RemoveElement
<1>3. Cardinality((Users(o) \ {a}) \cup {b}) = Cardinality(Users(o) \ {a}) + 1
  BY <1>2, FS_AddElement
<1>4. Cardinality(Users(o)') = Cardinality(Users(o)) /\ Users(o)' # {}
  BY <1>1, <1>2, <1>3
<1> QED BY <1>4 DEF RefsInv, ReferencesMatchUsers, SameIdentity

LEMMA UsersStay ==
  ASSUME RefsInv, SameIdentity(heap, heap'),
         \A o \in Objects : Users(o)' = Users(o)
  PROVE  RefsInv'
  BY DEF RefsInv, ReferencesMatchUsers, SameIdentity

(* The users of all source_files, by what changes. *)
LEMMA SameUsers ==
  ASSUME map' = map, copying'.object = copying.object,
         \A u \in Threads : call'[u].object = call[u].object
  PROVE  \A o \in Objects : Users(o)' = Users(o)
  BY DEF Users

LEMMA CallTakes ==
  ASSUME NEW t \in Threads, NEW o \in Objects, call[t].object = Null,
         call'[t].object = o, map' = map, copying'.object = copying.object,
         \A u \in Threads \ {t} : call'[u].object = call[u].object
  PROVE  /\ <<"call", t>> \notin Users(o)
         /\ Users(o)' = Users(o) \cup {<<"call", t>>}
         /\ \A p \in Objects \ {o} : Users(p)' = Users(p)
<1>1. Null \notin Objects
  BY NullIsNoObject
<1>2. <<"call", t>> \notin Users(o)
  BY <1>1, UserIs
<1>3. {u \in Threads : call'[u].object = o} = {u \in Threads : call[u].object = o} \cup {t}
  OBVIOUS
<1>4. Users(o)' = Users(o) \cup {<<"call", t>>}
  BY <1>3 DEF Users
<1>5. ASSUME NEW p \in Objects \ {o} PROVE Users(p)' = Users(p)
  <2>1. {u \in Threads : call'[u].object = p} = {u \in Threads : call[u].object = p}
    BY <1>1
  <2> QED BY <2>1 DEF Users
<1> QED BY <1>2, <1>4, <1>5

LEMMA CallReturns ==
  ASSUME NEW t \in Threads, NEW o \in Objects, call[t].object = o,
         call'[t].object = Null, map' = map, copying'.object = copying.object,
         \A u \in Threads \ {t} : call'[u].object = call[u].object
  PROVE  /\ <<"call", t>> \in Users(o)
         /\ Users(o)' = Users(o) \ {<<"call", t>>}
         /\ \A p \in Objects \ {o} : Users(p)' = Users(p)
<1>1. Null \notin Objects
  BY NullIsNoObject
<1>2. <<"call", t>> \in Users(o)
  BY UserIs
<1>3. {u \in Threads : call'[u].object = o} = {u \in Threads : call[u].object = o} \ {t}
  BY <1>1
<1>4. Users(o)' = Users(o) \ {<<"call", t>>}
  BY <1>3 DEF Users
<1>5. ASSUME NEW p \in Objects \ {o} PROVE Users(p)' = Users(p)
  <2>1. {u \in Threads : call'[u].object = p} = {u \in Threads : call[u].object = p}
    BY <1>1
  <2> QED BY <2>1 DEF Users
<1> QED BY <1>2, <1>4, <1>5

LEMMA CopierTakes ==
  ASSUME NEW o \in Objects, copying.object = Null, copying'.object = o,
         map' = map, call' = call
  PROVE  /\ <<"copier">> \notin Users(o)
         /\ Users(o)' = Users(o) \cup {<<"copier">>}
         /\ \A p \in Objects \ {o} : Users(p)' = Users(p)
<1>1. Null \notin Objects
  BY NullIsNoObject
<1>2. <<"copier">> \notin Users(o)
  BY <1>1, UserIs
<1>3. Users(o)' = Users(o) \cup {<<"copier">>}
  BY <1>1 DEF Users
<1>4. \A p \in Objects \ {o} : Users(p)' = Users(p)
  BY <1>1 DEF Users
<1> QED BY <1>2, <1>3, <1>4

LEMMA CopierReturns ==
  ASSUME NEW o \in Objects, copying.object = o, copying'.object = Null,
         map' = map, call' = call
  PROVE  /\ <<"copier">> \in Users(o)
         /\ Users(o)' = Users(o) \ {<<"copier">>}
         /\ \A p \in Objects \ {o} : Users(p)' = Users(p)
<1>1. Null \notin Objects
  BY NullIsNoObject
<1>2. <<"copier">> \in Users(o)
  BY UserIs
<1>3. Users(o)' = Users(o) \ {<<"copier">>}
  <2>1. \A a \in Users(o) : a = <<"copier">> \/ a \in Users(o)'
    BY DEF Users
  <2>2. <<"copier">> \notin Users(o)'
    BY <1>1 DEF Users
  <2>3. Users(o)' \subseteq Users(o)
    BY <1>1 DEF Users
  <2> QED BY <2>1, <2>2, <2>3
<1>4. \A p \in Objects \ {o} : Users(p)' = Users(p)
  BY <1>1 DEF Users
<1> QED BY <1>2, <1>3, <1>4

(* From the call to the table of descriptors, and back. *)
LEMMA CallToDescriptor ==
  ASSUME NEW t \in Threads, NEW o \in Objects, NEW fd \in Fds,
         map[fd] = Null,
         call[t].object = o, call'[t].object = Null,
         map'[fd] = o, \A gd \in Fds \ {fd} : map'[gd] = map[gd],
         copying'.object = copying.object,
         \A u \in Threads \ {t} : call'[u].object = call[u].object
  PROVE  /\ <<"call", t>> \in Users(o) /\ <<"fd", fd>> \notin Users(o)
         /\ Users(o)' = (Users(o) \ {<<"call", t>>}) \cup {<<"fd", fd>>}
         /\ \A p \in Objects \ {o} : Users(p)' = Users(p)
<1>1. Null \notin Objects
  BY NullIsNoObject
<1>2. <<"call", t>> \in Users(o) /\ <<"fd", fd>> \notin Users(o)
  BY <1>1, UserIs
<1>3. {u \in Threads : call'[u].object = o} = {u \in Threads : call[u].object = o} \ {t}
  BY <1>1
<1>4. {f \in Fds : map'[f] = o} = {f \in Fds : map[f] = o} \cup {fd}
  OBVIOUS
<1>5. Users(o)' = (Users(o) \ {<<"call", t>>}) \cup {<<"fd", fd>>}
  BY <1>3, <1>4 DEF Users
<1>6. ASSUME NEW p \in Objects \ {o} PROVE Users(p)' = Users(p)
  <2>1. /\ {u \in Threads : call'[u].object = p} = {u \in Threads : call[u].object = p}
        /\ {f \in Fds : map'[f] = p} = {f \in Fds : map[f] = p}
    BY <1>1
  <2> QED BY <2>1 DEF Users
<1> QED BY <1>2, <1>5, <1>6

LEMMA DescriptorToCall ==
  ASSUME NEW t \in Threads, NEW o \in Objects, NEW fd \in Fds,
         map[fd] = o,
         call[t].object = Null, call'[t].object = o,
         map'[fd] = Null, \A gd \in Fds \ {fd} : map'[gd] = map[gd],
         copying'.object = copying.object,
         \A u \in Threads \ {t} : call'[u].object = call[u].object
  PROVE  /\ <<"fd", fd>> \in Users(o) /\ <<"call", t>> \notin Users(o)
         /\ Users(o)' = (Users(o) \ {<<"fd", fd>>}) \cup {<<"call", t>>}
         /\ \A p \in Objects \ {o} : Users(p)' = Users(p)
<1>1. Null \notin Objects
  BY NullIsNoObject
<1>2. <<"fd", fd>> \in Users(o) /\ <<"call", t>> \notin Users(o)
  BY <1>1, UserIs
<1>3. {u \in Threads : call'[u].object = o} = {u \in Threads : call[u].object = o} \cup {t}
  OBVIOUS
<1>4. {f \in Fds : map'[f] = o} = {f \in Fds : map[f] = o} \ {fd}
  BY <1>1
<1>5. Users(o)' = (Users(o) \ {<<"fd", fd>>}) \cup {<<"call", t>>}
  BY <1>3, <1>4 DEF Users
<1>6. ASSUME NEW p \in Objects \ {o} PROVE Users(p)' = Users(p)
  <2>1. /\ {u \in Threads : call'[u].object = p} = {u \in Threads : call[u].object = p}
        /\ {f \in Fds : map'[f] = p} = {f \in Fds : map[f] = p}
    BY <1>1
  <2> QED BY <2>1 DEF Users
<1> QED BY <1>2, <1>5, <1>6

----------------------------------------------------------------------------
(*                     The invariant, step by step                         *)

(* The body of FinishedBackupsStay. *)
FinishedStay == \A p \in Paths \ kept : Finished(p) => SameInBackup(p)

LEMMA SessionStepStays ==
  ASSUME running, StaysBefore(heap, heap', session, kept)
  PROVE  FinishedStay
  BY DEF StaysBefore, FinishedStay, Finished, SameInBackup

(* Out of a session the paths of finished backups are those up to session. *)
LEMMA BetweenStays ==
  ASSUME TypeInv, StaysBefore(heap, heap', session + 1, kept)
  PROVE  FinishedStay
<1>1. \A p \in Paths : Finished(p) => p[1] < session + 1
  BY DEF Finished, Paths, TypeInv
<1> QED BY <1>1 DEF StaysBefore, FinishedStay, SameInBackup

LEMMA SameFilesStay ==
  ASSUME SameFiles(heap, heap') PROVE FinishedStay
  BY DEF SameFiles, FinishedStay, SameInBackup

LEMMA SameHeapIsQuiet ==
  ASSUME heap' = heap
  PROVE  /\ SameFiles(heap, heap') /\ NoNewDestination(heap, heap')
         /\ SameIdentity(heap, heap')
  BY DEF SameFiles, NoNewDestination, SameIdentity

(* Backups are not affected by a step that makes no destination. *)
LEMMA QuietBackups ==
  ASSUME BackupInv, NoNewDestination(heap, heap'),
         session' = session, running' = running, kept' = kept
  PROVE  BackupInv' /\ FinishedStay
<1>1. SameFiles(heap, heap')
  BY DEF NoNewDestination
<1>2. FilesApart(heap', session)
  BY QuietStep DEF BackupInv
<1>3. DestinationsIn(heap', Current, kept)
  BY QuietStep DEF BackupInv
<1>4. Current' = Current
  BY DEF Current
<1>5. BackupInv'
  BY <1>2, <1>3, <1>4 DEF BackupInv
<1> QED BY <1>1, <1>5, SameFilesStay

LEMMA SessionBackups ==
  ASSUME BackupInv, running, session' = session, running' = running,
         kept' = kept, FilesApart(heap', session),
         DestinationsIn(heap', session, kept),
         StaysBefore(heap, heap', session, kept)
  PROVE  BackupInv' /\ FinishedStay
<1>1. BackupInv'
  BY DEF BackupInv, Current
<1> QED BY <1>1, SessionStepStays

(* Whatever is in hand is live. *)
LEMMA InHandIsLive ==
  ASSUME TypeInv, RefsInv
  PROVE  /\ \A fd \in Fds : map[fd] # Null => map[fd] \in Objects /\ map[fd] \in heap.live
         /\ \A t \in Threads : call[t].object # Null =>
              call[t].object \in Objects /\ call[t].object \in heap.live
         /\ copying.object # Null =>
              copying.object \in Objects /\ copying.object \in heap.live
<1>1. /\ \A fd \in Fds : map[fd] # Null => map[fd] \in Objects
      /\ \A t \in Threads : call[t].object # Null => call[t].object \in Objects
      /\ copying.object # Null => copying.object \in Objects
  BY DEF TypeInv, CallType
<1>2. ASSUME NEW fd \in Fds, map[fd] # Null PROVE map[fd] \in heap.live
  <2>1. map[fd] \in Objects /\ <<"fd", fd>> \in Users(map[fd])
    BY <1>1, <1>2, UserIs
  <2> QED BY <2>1, UsedIsLive
<1>3. ASSUME NEW t \in Threads, call[t].object # Null PROVE call[t].object \in heap.live
  <2>1. /\ call[t].object \in Objects
        /\ <<"call", t>> \in Users(call[t].object)
    BY <1>1, <1>3, UserIs
  <2> QED BY <2>1, UsedIsLive
<1>4. ASSUME copying.object # Null PROVE copying.object \in heap.live
  <2>1. copying.object \in Objects /\ <<"copier">> \in Users(copying.object)
    BY <1>1, <1>4, UserIs
  <2> QED BY <2>1, UsedIsLive
<1> QED BY <1>1, <1>2, <1>3, <1>4

LEMMA InHand == TypeInv /\ RefsInv => InHandLive
  BY InHandIsLive DEF InHandLive

LEMMA InHandStays == TypeInv' /\ RefsInv' => InHandLive'
  BY InHand, PTL

LEMMA CallFields ==
  ASSUME TypeInv, NEW t \in Threads
  PROVE  /\ call[t] \in CallType /\ call[t].at \in Steps
         /\ call[t].name \in Names \cup {NoName} /\ call[t].to \in Names \cup {NoName}
         /\ call[t].fd \in Fds \cup {0} /\ call[t].object \in Objects \cup {Null}
         /\ call[t].locked \in BOOLEAN
  BY DEF TypeInv, CallType

(* A step of the copier or of a call that only changes destinations. *)
LEMMA DestinationStep ==
  ASSUME IInv, SameIdentity(heap, heap'),
         UNCHANGED <<dir, fds, map, call, ghosts>>,
         running => running' \/ ~TableLocked, copying'.object = copying.object
  PROVE  /\ CallInv' /\ ApartInv' /\ RefsInv' /\ HeldInv'
         /\ UnlinkInv' /\ RenameInv'
<1>0. /\ TypeInv /\ RefsInv /\ CallInv /\ Tidy(heap) /\ HeldInv
      /\ UnlinkInv /\ RenameInv /\ ApartInv
  BY DEF IInv
<1>1. \A o \in Objects : /\ heap'.objects[o].name = heap.objects[o].name
                         /\ heap'.objects[o].unlinked = heap.objects[o].unlinked
  BY DEF SameIdentity
<1>2. heap'.live = heap.live /\ heap.live \subseteq Objects
  BY <1>0, HeapFields DEF SameIdentity
<1>3. \A t \in Threads : call[t].object # Null => call[t].object \in Objects
  BY <1>0, InHandIsLive
<1>4. \A fd \in Fds : map[fd] # Null => map[fd] \in Objects
  BY <1>0, InHandIsLive
<1>5. \A t \in Threads : call[t].at \in HoldsFd => call[t].fd \in Fds
  BY <1>0, CallFields DEF CallInv, CallOk
<1>6. \A t \in Threads : /\ call[t].at \in HoldsObject => call[t].object # Null
                         /\ call[t].at \in {"open capture", "open translate"} =>
                              call[t].fd \in Fds /\ map[call[t].fd] # Null
  BY <1>0, <1>5 DEF CallInv, CallOk, HoldsFd, OpenSteps
<1>r. \A t \in Threads : call[t].at = "open translate" => running'
  BY <1>0 DEF CallInv, CallOk, TableLocked
<1>7. CallInv'
  <2> SUFFICES ASSUME NEW t \in Threads
               PROVE  /\ call[t].at \in {"open map", "unlink capture"} =>
                           NameOf(call[t].object)' = call[t].name
                      /\ call[t].at \in {"open capture", "open translate"} =>
                           NameOf(map[call[t].fd])' = call[t].name
    BY <1>0, <1>r DEF CallInv, CallOk
  <2>1. call[t].at \in {"open map", "unlink capture"} =>
          NameOf(call[t].object)' = call[t].name
    BY <1>0, <1>1, <1>3, <1>6 DEF CallInv, CallOk, NameOf, HoldsObject
  <2>2. call[t].at \in {"open capture", "open translate"} =>
          NameOf(map[call[t].fd])' = call[t].name
    BY <1>0, <1>1, <1>4, <1>6 DEF CallInv, CallOk, NameOf
  <2> QED BY <2>1, <2>2
<1>8. ApartInv'
  BY <1>0 DEF ApartInv
<1>9. RefsInv'
  BY <1>0, SameUsers, UsersStay
<1>11. HeldInv'
  <2> SUFFICES ASSUME Tame PROVE AllHeld'
    BY DEF HeldInv
  <2>0. AllHeld
    BY <1>0 DEF HeldInv
  <2>1. \A n : Unlinking(n)' = Unlinking(n)
    BY DEF Unlinking
  <2>2. \A fd \in Fds, o \in Objects : Held(fd, o)' = Held(fd, o)
    BY <1>1, <2>1 DEF Held, NameOf
  <2>3. \A fd \in Fds : map[fd] # Null => Held(fd, map[fd])'
    BY <2>0, <1>4, <2>2 DEF AllHeld
  <2>4. \A t \in Threads : call[t].at \in {"open map", "close table"} =>
          Held(call[t].fd, call[t].object)'
    BY <2>0, <1>3, <1>5, <1>6, <2>2 DEF AllHeld, HoldsFd, HoldsObject, OpenSteps
  <2> QED BY <2>0, <2>3, <2>4 DEF AllHeld
<1>12. UnlinkInv'
  <2> SUFFICES ASSUME NoRecreation PROVE UnlinkedAreGone'
    BY DEF UnlinkInv
  <2>0. UnlinkedAreGone
    BY <1>0 DEF UnlinkInv
  <2>1. \A o \in heap'.live :
          /\ o \in heap.live /\ NameOf(o)' = NameOf(o)
          /\ heap'.objects[o].unlinked = heap.objects[o].unlinked
    BY <1>1, <1>2 DEF NameOf
  <2> QED BY <2>0, <2>1 DEF UnlinkedAreGone
<1>13. RenameInv'
  <2>1. \A o \in heap'.live :
          /\ o \in heap.live /\ NameOf(o)' = NameOf(o)
          /\ heap'.objects[o].unlinked = heap.objects[o].unlinked
    BY <1>1, <1>2 DEF NameOf
  <2> QED BY <1>0, <2>1 DEF RenameInv
<1> QED BY <1>7, <1>8, <1>9, <1>11, <1>12, <1>13

LEMMA InitImpliesInv == ASSUME Init PROVE IInv
<1> USE DEF Init
<1>1. /\ MaxSessions \in Nat /\ MaxCalls \in Nat /\ NoName \notin Names
      /\ MaxObjects \in Nat /\ MaxFds \in Nat
  BY FileTableAssumption DEF FileTableAssumption
<1>2. TypeInv
  <2>1. /\ dir \in [Names -> Inodes \cup {None}]
        /\ fds \in [Fds -> Inodes \cup {None}]
        /\ map \in [Fds -> Objects \cup {Null}]
    <3>1. \A n \in Names : n \in Inodes
      BY DEF Inodes
    <3> QED BY <3>1
  <2>2. data \in [Inodes -> Nat]
    OBVIOUS
  <2>3. call \in [Threads -> CallType]
    <3>1. Idle \in CallType
      BY DEF CallType, Idle, Null, Steps
    <3> QED BY <3>1
  <2>4. copying \in [name : Names \cup {NoName}, object : Objects \cup {Null},
                    inode : Inodes \cup {None}]
    BY DEF NothingToCopy
  <2>5. /\ lastInode \in 0..MaxCalls /\ callsLeft \in 0..MaxCalls
        /\ lastInode + callsLeft <= MaxCalls /\ session \in 0..MaxSessions
    BY <1>1
  <2> QED BY <2>1, <2>2, <2>3, <2>4, <2>5 DEF TypeInv
<1>3. Tidy(heap)
  <2>1. heap \in HeapType
    BY DEF HeapType, EmptyHeap, SourceFileType, NoObject, Destinations
  <2>2. heap.live = {} /\ heap.table = <<>> /\ \A o \in Objects : heap.objects[o] = NoObject
    BY DEF EmptyHeap
  <2>3. Entries(heap.table) = {} /\ Distinct(heap.table)
    BY <2>2 DEF Entries, Distinct
  <2> QED BY <2>1, <2>2, <2>3 DEF Tidy
<1>4. CallInv
  BY DEF CallInv, CallOk, Idle, HoldsObject, HoldsFd, OpenSteps, Locks, Null
<1>5. ApartInv
  BY DEF ApartInv, Idle
<1>6. CopierInv
  BY DEF CopierInv, CopierHolds, NothingToCopy
<1>7. RefsInv
  <2>1. \A o \in Objects : Users(o) = {}
    BY NullIsNoObject DEF Users, Idle, NothingToCopy
  <2>2. \A o \in Objects : heap.objects[o].refs = 0 /\ o \notin heap.live
    BY DEF EmptyHeap, NoObject
  <2> QED BY <2>1, <2>2, FS_EmptySet DEF RefsInv, ReferencesMatchUsers
<1>9. HeldInv /\ UnlinkInv /\ RenameInv
  BY DEF HeldInv, AllHeld, UnlinkInv, UnlinkedAreGone, RenameInv, BeforeTable, Idle,
         EmptyHeap
<1>10. BackupInv
  <2>1. heap.live = {} /\ \A p \in Paths : heap.bdir[p] = Null
    BY DEF EmptyHeap
  <2> QED BY <2>1 DEF BackupInv, FilesApart, DestinationsIn
<1>11. CopyInv /\ CrashInv
  BY DEF CopyInv, CrashInv
<1> QED BY <1>2, <1>3, <1>4, <1>5, <1>6, <1>7, <1>9, <1>10, <1>11 DEF IInv

LEMMA InvParts ==
  ASSUME IInv
  PROVE  /\ TypeInv /\ Tidy(heap) /\ CallInv /\ ApartInv /\ CopierInv /\ RefsInv
         /\ HeldInv /\ UnlinkInv /\ RenameInv /\ BackupInv /\ CopyInv
         /\ CrashInv
  BY DEF IInv

(* The steps of the backup thread. *)

LEMMA ListDirectoryKeepsInv ==
  ASSUME IInv, ListDirectory PROVE IInv' /\ FinishedStay
<1> USE InvParts
<1>1. /\ cpc = "list" /\ cpc' = "next"
      /\ todo' = todo \cup {n \in Names : dir[n] # None}
      /\ UNCHANGED <<dir, lastInode, data, fds, map, heap, call, callsLeft,
                     session, running, failed, copying, renamed, wrong, ghosts,
                     kept, crashed>>
  BY DEF ListDirectory, sourceVars
<1>2. TypeInv'
  BY <1>1 DEF TypeInv
<1>3. BackupInv' /\ FinishedStay
  BY <1>1, SameHeapIsQuiet, QuietBackups
<1>4. /\ CallInv' /\ ApartInv' /\ RefsInv' /\ HeldInv'
      /\ UnlinkInv' /\ RenameInv'
  BY <1>1, SameHeapIsQuiet, DestinationStep
<1>5. CopierInv' /\ CopyInv' /\ CrashInv'
  BY <1>1 DEF CopierInv, CopyInv, CrashInv, CopierHolds
<1> QED BY <1>1, <1>2, <1>3, <1>4, <1>5 DEF IInv

LEMMA CopyNextKeepsInv ==
  ASSUME IInv, CopyNext PROVE IInv' /\ FinishedStay
<1> USE InvParts
<1> DEFINE Effect ==
      /\ cpc = "next" /\ cpc' \in {"next", "lookup", "stop"} /\ todo' \subseteq todo
      /\ copying'.object = copying.object /\ copying'.inode = copying.inode
      /\ copying'.name = copying.name \/ copying'.name \in Names
      /\ copying' \in [name : Names \cup {NoName}, object : Objects \cup {Null},
                       inode : Inodes \cup {None}]
      /\ cpc' = "lookup" => copying'.name \in Names
      /\ UNCHANGED <<dir, lastInode, data, fds, map, heap, call, callsLeft,
                     session, running, failed, renamed, wrong, ghosts, kept,
                     crashed>>
<1>1. Effect
  <2>1. copying \in [name : Names \cup {NoName}, object : Objects \cup {Null},
                     inode : Inodes \cup {None}]
        /\ todo \subseteq Names \cup {Elsewhere}
    BY DEF TypeInv
  <2>2. CASE cpc' = "stop" /\ UNCHANGED <<todo, copying>>
    BY <2>1, <2>2 DEF CopyNext, sourceVars
  <2>3. ASSUME NEW n \in todo, todo' = todo \ {n},
               IF n = Elsewhere \/ dir[n] = None
               THEN UNCHANGED <<cpc, copying>>
               ELSE cpc' = "lookup" /\ copying' = [copying EXCEPT !.name = n]
        PROVE  Effect
    <3>1. CASE n = Elsewhere \/ dir[n] = None
      BY <2>1, <2>3, <3>1 DEF CopyNext, sourceVars
    <3>2. CASE ~(n = Elsewhere \/ dir[n] = None)
      <4>1. n \in Names /\ cpc' = "lookup" /\ copying' = [copying EXCEPT !.name = n]
        BY <2>1, <2>3, <3>2
      <4> QED BY <2>1, <2>3, <4>1 DEF CopyNext, sourceVars
    <3> QED BY <3>1, <3>2
  <2> QED BY <2>2, <2>3 DEF CopyNext
<1>2. TypeInv'
  BY <1>1 DEF TypeInv
<1>3. BackupInv' /\ FinishedStay
  BY <1>1, SameHeapIsQuiet, QuietBackups
<1>4. /\ CallInv' /\ ApartInv' /\ RefsInv' /\ HeldInv'
      /\ UnlinkInv' /\ RenameInv'
  BY <1>1, SameHeapIsQuiet, DestinationStep
<1>5. CopierInv' /\ CopyInv' /\ CrashInv'
  BY <1>1 DEF CopierInv, CopyInv, CrashInv, CopierHolds
<1> QED BY <1>1, <1>2, <1>3, <1>4, <1>5 DEF IInv

LEMMA CopyOpenSourceKeepsInv ==
  ASSUME IInv, CopyOpenSource PROVE IInv' /\ FinishedStay
<1> USE InvParts
<1>1. /\ cpc = "open" /\ copying' = [copying EXCEPT !.inode = dir[copying.name]]
      /\ cpc' = IF dir[copying.name] = None THEN "release" ELSE "create"
      /\ UNCHANGED <<dir, lastInode, data, fds, map, heap, call, callsLeft,
                     session, running, todo, failed, renamed, wrong, ghosts,
                     kept, crashed>>
  BY DEF CopyOpenSource, CopierVarsUnchanged, sourceVars
<1>2. /\ copying \in [name : Names \cup {NoName}, object : Objects \cup {Null},
                      inode : Inodes \cup {None}]
      /\ copying.name \in Names /\ dir[copying.name] \in Inodes \cup {None}
  BY <1>1 DEF TypeInv, CopierInv, CopierHolds
<1>3. /\ copying'.object = copying.object /\ copying'.name = copying.name
      /\ copying'.inode = dir[copying.name]
      /\ copying' \in [name : Names \cup {NoName}, object : Objects \cup {Null},
                       inode : Inodes \cup {None}]
  BY <1>1, <1>2
<1>4. TypeInv'
  BY <1>1, <1>3 DEF TypeInv, CopierHolds
<1>5. BackupInv' /\ FinishedStay
  BY <1>1, SameHeapIsQuiet, QuietBackups
<1>6. /\ CallInv' /\ ApartInv' /\ RefsInv' /\ HeldInv'
      /\ UnlinkInv' /\ RenameInv'
  BY <1>1, <1>3, SameHeapIsQuiet, DestinationStep
<1>7. CopierInv' /\ CrashInv'
  BY <1>1, <1>3 DEF CopierInv, CrashInv, CopierHolds
<1>8. CopyInv'
  BY <1>1, <1>3 DEF CopyInv, NameOf
<1> QED BY <1>1, <1>4, <1>5, <1>6, <1>7, <1>8 DEF IInv

LEMMA SessionNumber ==
  ASSUME TypeInv, BackupInv, running PROVE session \in 1..MaxSessions
<1>1. session \in 0..MaxSessions /\ session > 0
  BY DEF TypeInv, BackupInv
<1> QED BY <1>1

LEMMA CopyCreateKeepsInv ==
  ASSUME IInv, CopyCreate PROVE IInv' /\ FinishedStay
<1> USE InvParts
<1> DEFINE o == copying.object
           n == copying.name
           exists == dir[n] # None
<1>1. /\ cpc = "create" /\ cpc' \in {"data", "close", "give up"}
      /\ cpc' = "data" => Dest(heap', o) # NoDestination
      /\ heap' = heap \/ heap' = TryToCreateDestination(heap, o, <<session, n>>)
      /\ UNCHANGED <<dir, lastInode, data, fds, map, call, callsLeft, session,
                     running, todo, failed, copying, renamed, wrong, ghosts,
                     kept, crashed>>
  BY DEF CopyCreate, CopierVarsUnchanged, sourceVars, Target
<1>2. /\ running /\ session \in 1..MaxSessions /\ n \in Names /\ o \in heap.live
      /\ NameOf(o) = n \/ ~NeedsDestination(heap, o)
  <2>1. running /\ n \in Names /\ o # Null
    BY <1>1 DEF CopierInv, CopierHolds
  <2>2. NameOf(o) = n \/ ~NeedsDestination(heap, o)
    BY <1>1 DEF CopyInv
  <2> QED BY <2>1, <2>2, SessionNumber, InHandIsLive
<1>3. /\ Tidy(heap') /\ SameIdentity(heap, heap') /\ FilesApart(heap', session)
      /\ DestinationsIn(heap', session, kept)
      /\ StaysBefore(heap, heap', session, kept)
  <2>1. FilesApart(heap, session) /\ DestinationsIn(heap, session, kept)
    BY <1>2 DEF BackupInv, Current
  <2>2. CASE heap' = heap
    BY <2>1, <2>2 DEF SameIdentity, StaysBefore
  <2>3. CASE heap' = TryToCreateDestination(heap, o, <<session, n>>)
    <3> HIDE DEF o, n
    <3> QED BY <1>2, <2>1, <2>3, CreateInSession DEF NameOf
  <2> QED BY <1>1, <2>2, <2>3
<1>4. TypeInv'
  BY <1>1 DEF TypeInv, CopierHolds
<1>5. BackupInv' /\ FinishedStay
  BY <1>1, <1>2, <1>3, SessionBackups
<1>6. /\ CallInv' /\ ApartInv' /\ RefsInv' /\ HeldInv'
      /\ UnlinkInv' /\ RenameInv'
  BY <1>1, <1>3, DestinationStep
<1>7. CopierInv' /\ CrashInv'
  BY <1>1 DEF CopierInv, CrashInv, CopierHolds
<1>8. CopyInv'
  BY <1>1 DEF CopyInv
<1> QED BY <1>3, <1>4, <1>5, <1>6, <1>7, <1>8 DEF IInv

LEMMA CopyDataKeepsInv ==
  ASSUME IInv, CopyData PROVE IInv' /\ FinishedStay
<1> USE InvParts
<1> DEFINE o == copying.object
<1>1. /\ cpc = "data" /\ cpc' = "close"
      /\ crashed' = IF Dest(heap, o) = NoDestination THEN "copy" ELSE crashed
      /\ \/ heap' = heap
         \/ heap' = WriteDestination(heap, o, Content(copying.inode))
      /\ UNCHANGED <<dir, lastInode, data, fds, map, call, callsLeft, session,
                     running, todo, failed, copying, renamed, wrong, ghosts,
                     kept>>
  BY DEF CopyData, CopierVarsUnchanged, sourceVars, CrashIf
<1>2. /\ running /\ session \in 1..MaxSessions /\ o \in heap.live
      /\ Content(copying.inode) \in SUBSET (Inodes \X Nat)
  <2>1. running /\ o # Null /\ copying.inode # None
    BY <1>1 DEF CopierInv, CopierHolds
  <2>2. copying.inode \in Inodes /\ data[copying.inode] \in Nat
    BY <2>1 DEF TypeInv
  <2>3. \A k \in 1..data[copying.inode] : k \in Nat
    BY <2>2
  <2>4. Content(copying.inode) \in SUBSET (Inodes \X Nat)
    BY <2>2, <2>3 DEF Content
  <2> QED BY <2>1, <2>4, SessionNumber, InHandIsLive
<1>3. /\ Tidy(heap') /\ SameIdentity(heap, heap') /\ FilesApart(heap', session)
      /\ DestinationsIn(heap', session, kept)
      /\ StaysBefore(heap, heap', session, kept)
  <2>1. FilesApart(heap, session) /\ DestinationsIn(heap, session, kept)
    BY <1>2 DEF BackupInv, Current
  <2>2. CASE heap' = heap
    BY <2>1, <2>2 DEF SameIdentity, StaysBefore
  <2>3. CASE heap' = WriteDestination(heap, o, Content(copying.inode))
    <3> HIDE DEF o
    <3>1. /\ Tidy(heap') /\ heap'.objects = heap.objects /\ heap'.live = heap.live
          /\ FilesApart(heap', session) /\ DestinationsIn(heap', session, kept)
          /\ StaysBefore(heap, heap', session, kept)
      BY <1>2, <2>1, <2>3, WriteInSession
    <3> QED BY <3>1 DEF SameIdentity
  <2> QED BY <1>1, <2>2, <2>3
<1>4. crashed' = crashed
  BY <1>1 DEF CopyInv, TypeInv
<1>5. TypeInv'
  BY <1>1, <1>4 DEF TypeInv, CopierHolds
<1>6. BackupInv' /\ FinishedStay
  BY <1>1, <1>2, <1>3, SessionBackups
<1>7. /\ CallInv' /\ ApartInv' /\ RefsInv' /\ HeldInv'
      /\ UnlinkInv' /\ RenameInv'
  BY <1>1, <1>3, DestinationStep
<1>8. CopierInv' /\ CrashInv' /\ CopyInv'
  BY <1>1, <1>4 DEF CopierInv, CrashInv, CopierHolds, CopyInv
<1> QED BY <1>3, <1>5, <1>6, <1>7, <1>8 DEF IInv

LEMMA CopyRemoveDestinationKeepsInv ==
  ASSUME IInv, CopyRemoveDestination PROVE IInv' /\ FinishedStay
<1> USE InvParts
<1>1. /\ cpc = "close" /\ cpc' = "release"
      /\ heap' = TryToRemoveDestination(heap, copying.object)
      /\ UNCHANGED <<dir, lastInode, data, fds, map, call, callsLeft, session,
                     running, todo, failed, copying, renamed, wrong, ghosts,
                     kept, crashed>>
  BY DEF CopyRemoveDestination, CopierVarsUnchanged, sourceVars
<1>2. copying.object \in heap.live
  BY <1>1, InHandIsLive DEF CopierInv, CopierHolds
<1>3. Tidy(heap') /\ SameIdentity(heap, heap') /\ NoNewDestination(heap, heap')
  BY <1>1, <1>2, TryToRemoveDestinationIsQuiet
<1>4. TypeInv'
  BY <1>1 DEF TypeInv, CopierHolds
<1>5. BackupInv' /\ FinishedStay
  BY <1>1, <1>3, QuietBackups
<1>6. /\ CallInv' /\ ApartInv' /\ RefsInv' /\ HeldInv'
      /\ UnlinkInv' /\ RenameInv'
  BY <1>1, <1>3, DestinationStep
<1>7. CopierInv' /\ CrashInv' /\ CopyInv'
  BY <1>1 DEF CopierInv, CrashInv, CopierHolds, CopyInv
<1> QED BY <1>3, <1>4, <1>5, <1>6, <1>7 DEF IInv

(* A step of the copier that takes or returns a source_file. *)
LEMMA ReferenceStep ==
  ASSUME IInv, Tidy(heap'), TypeInv', RefsInv', NamesStay(heap, heap'),
         UNCHANGED <<dir, fds, map, call, running, ghosts>>
  PROVE  /\ CallInv' /\ ApartInv' /\ HeldInv' /\ UnlinkInv' /\ RenameInv'
<1> USE InvParts
<1>1. InHandLive'
  BY InHandStays
<1>2. \A fd \in Fds : map[fd] # Null =>
        /\ map[fd] \in heap.live
        /\ NameOf(map[fd])' = NameOf(map[fd])
        /\ heap'.objects[map[fd]].unlinked = heap.objects[map[fd]].unlinked
  BY <1>1, InHandIsLive DEF InHandLive, NamesStay, NameOf
<1>3. \A t \in Threads : call[t].object # Null =>
        /\ call[t].object \in heap.live
        /\ NameOf(call[t].object)' = NameOf(call[t].object)
        /\ heap'.objects[call[t].object].unlinked
             = heap.objects[call[t].object].unlinked
  BY <1>1, InHandIsLive DEF InHandLive, NamesStay, NameOf
<1>4. \A t \in Threads : /\ call[t].at \in HoldsObject => call[t].object # Null
                         /\ call[t].at \in {"open capture", "open translate"} =>
                              call[t].fd \in Fds /\ map[call[t].fd] # Null
  BY CallFields DEF CallInv, CallOk, HoldsFd, OpenSteps
<1>5. CallInv'
  <2> SUFFICES ASSUME NEW t \in Threads
               PROVE  /\ call[t].at \in {"open map", "unlink capture"} =>
                           NameOf(call[t].object)' = call[t].name
                      /\ call[t].at \in {"open capture", "open translate"} =>
                           NameOf(map[call[t].fd])' = call[t].name
    BY DEF CallInv, CallOk
  <2>1. call[t].at \in {"open map", "unlink capture"} =>
          NameOf(call[t].object)' = call[t].name
    BY <1>3, <1>4 DEF CallInv, CallOk, HoldsObject
  <2>2. call[t].at \in {"open capture", "open translate"} =>
          NameOf(map[call[t].fd])' = call[t].name
    BY <1>2, <1>4 DEF CallInv, CallOk
  <2> QED BY <2>1, <2>2
<1>6. ApartInv'
  BY DEF ApartInv
<1>8. HeldInv'
  <2> SUFFICES ASSUME Tame PROVE AllHeld'
    BY DEF HeldInv
  <2>0. AllHeld
    BY DEF HeldInv
  <2>1. \A n : Unlinking(n)' = Unlinking(n)
    BY DEF Unlinking
  <2>2. \A fd \in Fds : map[fd] # Null => Held(fd, map[fd])'
    BY <1>2, <2>0, <2>1 DEF AllHeld, Held
  <2>3. \A t \in Threads : call[t].at \in {"open map", "close table"} =>
          Held(call[t].fd, call[t].object)'
    BY <1>3, <1>4, <2>0, <2>1 DEF AllHeld, Held, HoldsObject
  <2> QED BY <2>0, <2>2, <2>3 DEF AllHeld
<1>9. UnlinkInv'
  <2> SUFFICES ASSUME NoRecreation PROVE UnlinkedAreGone'
    BY DEF UnlinkInv
  <2>0. UnlinkedAreGone
    BY DEF UnlinkInv
  <2>1. \A o \in heap'.live :
          \/ ~heap'.objects[o].unlinked
          \/ /\ o \in heap.live /\ NameOf(o)' = NameOf(o)
             /\ heap'.objects[o].unlinked = heap.objects[o].unlinked
    BY DEF NamesStay, NameOf
  <2> QED BY <2>0, <2>1 DEF UnlinkedAreGone
<1>10. RenameInv'
  <2> SUFFICES ASSUME NEW t \in Threads, call[t].at = "rename capture",
                      NEW o \in heap'.live, NameOf(o)' \in {call[t].name, call[t].to}
               PROVE  /\ ~heap'.objects[o].unlinked
                      /\ \A fd \in Fds : map[fd] # o
                      /\ \A u \in Threads : call[u].object # o
    BY DEF RenameInv
  <2>1. CASE o \in heap.live
    <3>1. /\ NameOf(o)' = NameOf(o)
          /\ heap'.objects[o].unlinked = heap.objects[o].unlinked
      BY <2>1 DEF NamesStay, NameOf
    <3> QED BY <2>1, <3>1 DEF RenameInv
  <2>2. CASE o \notin heap.live
    <3>1. o # Null
      BY NullIsNoObject, HeapFields
    <3> QED BY <1>2, <1>3, <2>2, <3>1 DEF NamesStay
  <2> QED BY <2>1, <2>2
<1> QED BY <1>5, <1>6, <1>8, <1>9, <1>10

LEMMA GetOrCreateTakes ==
  ASSUME NEW h, Tidy(h), NEW n \in Names, h.live # Objects
  PROVE  \E o \in Objects : Takes(h, GetOrCreate(h, n), n, o)
<1> DEFINE g == GetOrCreate(h, n)
           o == Lookup(g, n)
<1>2. /\ Tidy(g) /\ NoNewDestination(h, g) /\ OnlyObject(h, g, o)
      /\ o \in g.live /\ o \in Objects /\ g.objects[o].name = n
      /\ g.live = h.live \cup {o}
      /\ o \in h.live => /\ h.objects[o].name = n
                         /\ g.objects[o].refs = h.objects[o].refs + 1
                         /\ g.objects[o].unlinked = h.objects[o].unlinked
                         /\ Dest(g, o) = Dest(h, o)
      /\ o \notin h.live => /\ g.objects[o].refs = 1
                            /\ ~g.objects[o].unlinked
  BY GetOrCreateIsQuiet
<1>0. o = Lookup(g, n)
  OBVIOUS
<1> HIDE DEF o, g
<1>3. \A p \in h.live : p # o => g.objects[p] = h.objects[p]
  BY <1>2, HeapFields DEF OnlyObject
<1>4. \A p \in h.live : /\ g.objects[p].name = h.objects[p].name
                        /\ g.objects[p].unlinked = h.objects[p].unlinked
                        /\ Dest(g, p) = Dest(h, p)
  BY <1>2, <1>3 DEF Dest
<1>5. NamesStay(h, g)
  BY <1>2, <1>4 DEF NamesStay
<1>6. Takes(h, g, n, o)
  BY <1>0, <1>2, <1>4, <1>5 DEF Takes
<1> QED BY <1>2, <1>6 DEF g

LEMMA CopyLookupKeepsInv ==
  ASSUME IInv, EnoughObjects, CopyLookup PROVE IInv' /\ FinishedStay
<1> USE InvParts
<1>1. /\ cpc = "lookup" /\ cpc' = "open" /\ heap' = GetOrCreate(heap, copying.name)
      /\ copying' = [copying EXCEPT !.object = Lookup(heap', copying.name)]
      /\ dir' = dir /\ fds' = fds /\ map' = map /\ call' = call
      /\ UNCHANGED <<lastInode, data, callsLeft, session, running, todo, failed,
                     renamed, wrong, ghosts, kept, crashed>>
  BY DEF CopyLookup, CopierVarsUnchanged, sourceVars
<1>2. /\ copying.name \in Names /\ copying.object = Null
      /\ copying \in [name : Names \cup {NoName}, object : Objects \cup {Null},
                      inode : Inodes \cup {None}]
  BY <1>1 DEF CopierInv, CopierHolds, TypeInv
<1>3. heap.live # Objects
  <2>1. <<"copier">> \in Actors /\ \A p \in Objects : <<"copier">> \notin Users(p)
    BY <1>2, UserIs, NullIsNoObject DEF Actors
  <2> QED BY <2>1, RoomForOne
<1>n. PICK n \in Names : n = copying.name
  BY <1>2
<1>4. PICK o \in Objects : Takes(heap, heap', n, o)
  <2>1. heap' = GetOrCreate(heap, n)
    BY <1>1, <1>n
  <2> QED BY <1>3, <2>1, GetOrCreateTakes
<1>5. /\ copying'.object = o /\ copying'.name = n
      /\ copying' \in [name : Names \cup {NoName}, object : Objects \cup {Null},
                       inode : Inodes \cup {None}]
  <2>1. Lookup(heap', n) = o
    BY <1>4 DEF Takes
  <2>2. copying' = [copying EXCEPT !.object = o]
    BY <1>1, <1>n, <2>1
  <2> QED BY <1>2, <1>n, <2>2
<1>6. TypeInv'
  BY <1>1, <1>5 DEF TypeInv, CopierHolds
<1>7. RefsInv'
  <2>1. /\ <<"copier">> \notin Users(o)
        /\ Users(o)' = Users(o) \cup {<<"copier">>}
        /\ \A p \in Objects \ {o} : Users(p)' = Users(p)
    BY <1>1, <1>2, <1>5, CopierTakes
  <2>2. /\ heap'.live = heap.live \cup {o} /\ OnlyObject(heap, heap', o)
        /\ o \in heap.live => heap'.objects[o].refs = heap.objects[o].refs + 1
        /\ o \notin heap.live => heap'.objects[o].refs = 1
    BY <1>4 DEF Takes
  <2> QED BY <2>1, <2>2, UserComes
<1>t. Tidy(heap') /\ NoNewDestination(heap, heap') /\ NamesStay(heap, heap')
  BY <1>4 DEF Takes
<1>8. BackupInv' /\ FinishedStay
  BY <1>1, <1>t, QuietBackups
<1>9. /\ CallInv' /\ ApartInv' /\ HeldInv' /\ UnlinkInv' /\ RenameInv'
  BY <1>1, <1>t, <1>6, <1>7, ReferenceStep
<1>10. CopierInv' /\ CrashInv'
  BY <1>1, <1>2, <1>5, NullIsNoObject DEF CopierInv, CrashInv, CopierHolds
<1>11. CopyInv'
  <2>1. heap'.objects[o].name = n
    BY <1>4 DEF Takes
  <2> QED BY <1>1, <1>5, <2>1 DEF CopyInv, NameOf
<1> QED BY <1>t, <1>6, <1>7, <1>8, <1>9, <1>10, <1>11 DEF IInv

LEMMA TryToRemoveReturns ==
  ASSUME RefsInv, Tidy(heap), NEW o \in Objects, NEW a \in Users(o)
  PROVE  Returns(heap, TryToRemove(heap, o), o)
<1> DEFINE g == TryToRemove(heap, o)
<1>2. /\ o \in heap.live /\ heap.objects[o].refs \in Nat
      /\ heap.objects[o].refs >= 1
  BY UsedIsLive
<1>3. /\ Tidy(g) /\ NoNewDestination(heap, g) /\ OnlyObject(heap, g, o)
      /\ heap.objects[o].refs > 1 =>
           /\ g.live = heap.live
           /\ g.objects[o].name = heap.objects[o].name
           /\ g.objects[o].refs = heap.objects[o].refs - 1
           /\ g.objects[o].unlinked = heap.objects[o].unlinked
           /\ Dest(g, o) = Dest(heap, o)
      /\ heap.objects[o].refs = 1 =>
           g.live = heap.live \ {o} /\ g.objects[o] = NoObject
  BY <1>2, TryToRemoveIsQuiet
<1> HIDE DEF g
<1>4. heap.objects[o].refs = 1 \/ heap.objects[o].refs > 1
  BY <1>2
<1>5. g.live \subseteq heap.live /\ heap.live \subseteq Objects
  BY <1>3, <1>4, HeapFields
<1>6. \A p \in g.live : p # o => g.objects[p] = heap.objects[p]
  BY <1>3, <1>5 DEF OnlyObject
<1>7. NamesStay(heap, g)
  BY <1>2, <1>3, <1>4, <1>5, <1>6 DEF NamesStay
<1>8. \A p \in g.live : p \in heap.live /\ Dest(g, p) = Dest(heap, p)
  BY <1>3, <1>4, <1>5, <1>6 DEF Dest
<1>9. Returns(heap, g, o)
  BY <1>3, <1>7, <1>8 DEF Returns
<1> QED BY <1>9 DEF g

LEMMA CopyReleaseKeepsInv ==
  ASSUME IInv, CopyRelease PROVE IInv' /\ FinishedStay
<1> USE InvParts
<1>1. /\ cpc \in {"release", "give up"} /\ heap' = TryToRemove(heap, copying.object)
      /\ copying' = NothingToCopy /\ failed' = (failed \/ cpc = "give up")
      /\ cpc' = IF cpc = "release" THEN "next" ELSE "stop"
      /\ dir' = dir /\ fds' = fds /\ map' = map /\ call' = call
      /\ UNCHANGED <<lastInode, data, callsLeft, session, running, todo,
                     renamed, wrong, ghosts, kept, crashed>>
  BY DEF CopyRelease, CopierVarsUnchanged, sourceVars
<1>2. copying.object \in Objects /\ copying'.object = Null
  BY <1>1 DEF CopierInv, CopierHolds, TypeInv, NothingToCopy
<1>o. PICK o \in Objects : o = copying.object
  BY <1>2
<1>3. /\ <<"copier">> \in Users(o)
      /\ Users(o)' = Users(o) \ {<<"copier">>}
      /\ \A p \in Objects \ {o} : Users(p)' = Users(p)
  BY <1>1, <1>2, <1>o, CopierReturns
<1>4. Returns(heap, heap', o)
  <2>1. heap' = TryToRemove(heap, o)
    BY <1>1, <1>o
  <2> QED BY <1>3, <2>1, TryToRemoveReturns
<1>t. Tidy(heap') /\ NoNewDestination(heap, heap') /\ NamesStay(heap, heap')
  BY <1>4 DEF Returns
<1>5. TypeInv'
  <2>1. copying' \in [name : Names \cup {NoName}, object : Objects \cup {Null},
                      inode : Inodes \cup {None}]
    BY <1>1 DEF NothingToCopy
  <2> QED BY <1>1, <2>1 DEF TypeInv, CopierHolds
<1>6. RefsInv'
  <2>1. /\ OnlyObject(heap, heap', o)
        /\ heap.objects[o].refs > 1 =>
             /\ heap'.live = heap.live
             /\ heap'.objects[o].refs = heap.objects[o].refs - 1
        /\ heap.objects[o].refs = 1 =>
             heap'.live = heap.live \ {o} /\ heap'.objects[o] = NoObject
    BY <1>4 DEF Returns
  <2> QED BY <1>3, <2>1, UserGoes
<1>7. BackupInv' /\ FinishedStay
  BY <1>1, <1>t, QuietBackups
<1>8. /\ CallInv' /\ ApartInv' /\ HeldInv' /\ UnlinkInv' /\ RenameInv'
  BY <1>1, <1>t, <1>5, <1>6, ReferenceStep
<1>9. CopierInv' /\ CrashInv' /\ CopyInv'
  BY <1>1, <1>2 DEF CopierInv, CrashInv, CopierHolds, CopyInv
<1> QED BY <1>t, <1>5, <1>6, <1>7, <1>8, <1>9 DEF IInv

LEMMA MappedIsLive ==
  ASSUME TypeInv, RefsInv, NEW last, last \in 0..MaxFds
  PROVE  Mapped(last) \subseteq heap.live
<1>1. \A fd \in 1..last : fd \in Fds
  BY FileTableAssumption DEF FileTableAssumption, Fds
<1> QED BY <1>1, InHandIsLive DEF Mapped

LEMMA StartBackupKeepsInv ==
  ASSUME IInv, StartBackup PROVE IInv' /\ FinishedStay
<1> USE InvParts
<1>0. MaxFds \in Nat /\ MaxSessions \in Nat
  BY FileTableAssumption DEF FileTableAssumption
<1>1. /\ cpc = "idle" /\ session < MaxSessions /\ session' = session + 1
      /\ running' = TRUE /\ renamed' = {} /\ wrong' = {}
      /\ failed' \in BOOLEAN /\ cpc' \in {"list", "stop"}
      /\ UNCHANGED <<dir, lastInode, data, fds, map, call, callsLeft, copying,
                     todo, ghosts, kept, crashed>>
  BY DEF StartBackup, sourceVars
<1>2. PICK last \in 0..MaxFds : heap' = Prepare(heap, session + 1, last)
  <2>1. CASE heap' = Prepare(heap, session + 1, MaxFds)
    <3>1. MaxFds \in 0..MaxFds
      BY <1>0
    <3> QED BY <2>1, <3>1
  <2>2. ASSUME NEW fd \in Fds, heap' = Prepare(heap, session + 1, fd - 1)
        PROVE  \E last \in 0..MaxFds : heap' = Prepare(heap, session + 1, last)
    <3>1. fd - 1 \in 0..MaxFds
      BY <1>0 DEF Fds
    <3> QED BY <2>2, <3>1
  <2> QED BY <2>1, <2>2 DEF StartBackup
<1>3. ~running /\ DestinationsIn(heap, 0, kept) /\ FilesApart(heap, session)
  BY <1>1 DEF CopierInv, BackupInv, Current
<1>4. session \in 0..MaxSessions
  BY DEF TypeInv
<1>5. PICK s \in 1..MaxSessions : s = session + 1 /\ s - 1 = session
  BY <1>0, <1>1, <1>4
<1>6. /\ Tidy(heap') /\ SameIdentity(heap, heap') /\ FilesApart(heap', s)
      /\ DestinationsIn(heap', s, kept) /\ StaysBefore(heap, heap', s, kept)
  <2>1. Mapped(last) \subseteq heap.live
    BY MappedIsLive
  <2>2. heap' = Prepare(heap, s, last) /\ FilesApart(heap, s - 1)
    BY <1>2, <1>3, <1>5
  <2> QED BY <1>3, <2>1, <2>2, PrepareIs
<1>7. TypeInv'
  <2>1. session' \in 0..MaxSessions
    BY <1>1, <1>5
  <2> QED BY <1>1, <2>1 DEF TypeInv
<1>8. BackupInv'
  <2>1. session' = s /\ s > 0 /\ running' /\ kept' = kept
    BY <1>1, <1>5
  <2>2. \A p \in kept : p[1] \in Int /\ p[1] <= session
    BY DEF BackupInv, TypeInv, Paths
  <2>3. \A p \in kept : p[1] <= s /\ p[1] < s
    BY <1>4, <1>5, <2>2
  <2> QED BY <1>6, <2>1, <2>3 DEF BackupInv, Current
<1>9. FinishedStay
  BY <1>5, <1>6, BetweenStays
<1>10. /\ CallInv' /\ ApartInv' /\ RefsInv' /\ HeldInv'
       /\ UnlinkInv' /\ RenameInv'
  BY <1>1, <1>6, DestinationStep
<1>11. CopierInv' /\ CopyInv' /\ CrashInv'
  BY <1>1 DEF CopierInv, CopyInv, CrashInv, CopierHolds
<1> QED BY <1>6, <1>7, <1>8, <1>9, <1>10, <1>11 DEF IInv

(* Who has a destination when its session is over is open more than once   *)
(* or in the hands of a call.                                              *)
LEMMA SurvivorIsKept ==
  ASSUME TypeInv, Tidy(heap), RefsInv, copying.object = Null,
         NEW o \in heap.live, o \in Mapped(MaxFds) => heap.objects[o].refs > 1
  PROVE  NameOf(o) \in KeptNames
<1>1. o \in Objects /\ Null \notin Objects /\ NameOf(o) \in Names
  BY HeapFields, NullIsNoObject DEF Tidy, NameOf
<1>2. NoName \notin Names
  BY FileTableAssumption DEF FileTableAssumption
<1>3. ASSUME NEW t \in Threads, call[t].object = o PROVE NameOf(o) \in KeptNames
  <2>1. NameOf(o) \in Unsettled
    BY <1>1, <1>3 DEF Unsettled, NameOf
  <2> QED BY <1>1, <1>2, <2>1 DEF KeptNames
<1>4. ASSUME NEW fd \in Fds, NEW gd \in Fds, fd # gd, map[fd] = o, map[gd] = o
      PROVE  NameOf(o) \in KeptNames
  <2>1. NameOf(o) \in Shared
    BY <1>1, <1>4 DEF Shared, NameOf
  <2> QED BY <1>1, <1>2, <2>1 DEF KeptNames
<1>5. <<"copier">> \notin Users(o)
  BY <1>1, UserIs
<1>6. PICK a \in Users(o) : TRUE
  BY <1>1 DEF RefsInv, ReferencesMatchUsers
<1>7. CASE \E t \in Threads : a = <<"call", t>>
  BY <1>1, <1>3, <1>7, UserIs
<1>8. ASSUME NEW fd \in Fds, a = <<"fd", fd>> PROVE NameOf(o) \in KeptNames
  <2>1. map[fd] = o
    BY <1>1, <1>8, UserIs
  <2>2. heap.objects[o].refs > 1
    BY <1>1, <2>1 DEF Mapped, Fds
  <2>3. PICK b \in Users(o) : b # a
    <3>1. Users(o) # {a}
      BY <1>1, <2>2, OnlyUser
    <3> QED BY <3>1
  <2>4. CASE \E t \in Threads : b = <<"call", t>>
    BY <1>1, <1>3, <2>4, UserIs
  <2>5. ASSUME NEW gd \in Fds, b = <<"fd", gd>> PROVE NameOf(o) \in KeptNames
    BY <1>1, <1>4, <1>8, <2>1, <2>3, <2>5, UserIs
  <2> QED BY <1>1, <1>5, <2>4, <2>5, UserIs
<1> QED BY <1>1, <1>5, <1>7, <1>8, UserIs

LEMMA StopBackupKeepsInv ==
  ASSUME IInv, StopBackup PROVE IInv' /\ FinishedStay
<1> USE InvParts
<1>1. /\ cpc = "stop" /\ cpc' = "idle" /\ running' = FALSE /\ failed' = FALSE
      /\ heap' = DisableDescriptions(heap) /\ todo' = {} /\ ~TableLocked
      /\ kept' = kept \cup {Target(n) : n \in KeptNames}
      /\ UNCHANGED <<dir, lastInode, data, fds, map, call, callsLeft, session,
                     copying, renamed, ghosts, crashed>>
  BY DEF StopBackup, sourceVars
<1>2. wrong' \subseteq Names
  BY DEF StopBackup
<1>3. /\ Tidy(heap') /\ SameIdentity(heap, heap') /\ NoNewDestination(heap, heap')
      /\ \A o \in Mapped(MaxFds) :
           heap.objects[o].refs <= 1 => Dest(heap', o) = NoDestination
  <2>1. MaxFds \in 0..MaxFds
    BY FileTableAssumption DEF FileTableAssumption
  <2>2. Mapped(MaxFds) \subseteq heap.live
    BY <2>1, MappedIsLive
  <2> QED BY <1>1, <2>2, DisableDescriptionsIs
<1>r. running /\ session \in 1..MaxSessions
  <2>1. running
    BY <1>1 DEF CopierInv
  <2> QED BY <2>1, SessionNumber
<1>4. TypeInv'
  <2>1. KeptNames \subseteq Names
    <3>1. ASSUME NEW o \in heap.live PROVE heap.objects[o].name \in Names
      BY DEF Tidy
    <3>2. Shared \subseteq Names
      BY <3>1, InHandIsLive DEF Shared
    <3>3. Unsettled \subseteq Names \cup {NoName}
      BY <3>1, InHandIsLive, CallFields DEF Unsettled
    <3> QED BY <3>2, <3>3 DEF KeptNames
  <2>2. kept' \subseteq Paths
    <3>1. \A n \in Names : Target(n) \in Paths
      BY <1>r DEF Target, Paths
    <3> QED BY <1>1, <2>1, <3>1 DEF TypeInv
  <2> QED BY <1>1, <1>2, <2>2 DEF TypeInv
<1>5. SameFiles(heap, heap')
  BY <1>3 DEF NoNewDestination
<1>6. BackupInv'
  <2>1. FilesApart(heap', session)
    BY <1>3, QuietStep DEF BackupInv
  <2>2. DestinationsIn(heap', session, kept)
    BY <1>3, <1>r, QuietStep DEF BackupInv, Current
  <2>3. DestinationsIn(heap', 0, kept')
    <3> SUFFICES ASSUME NEW o \in heap'.live, Dest(heap', o) # NoDestination
                 PROVE  DestinationOk(heap'.bdir, heap'.objects[o], 0, kept')
      BY DEF DestinationsIn
    <3> DEFINE path == Dest(heap', o).path
    <3>1. DestinationOk(heap'.bdir, heap'.objects[o], session, kept)
      BY <2>2 DEF DestinationsIn
    <3>2. path \in kept'
      <4>1. CASE path \in kept
        BY <1>1, <4>1
      <4>2. CASE path[1] = session
        <5>1. o \in heap.live /\ heap'.objects[o].name = NameOf(o)
          BY <1>3 DEF NoNewDestination, NameOf
        <5>2. o \in Mapped(MaxFds) => heap.objects[o].refs > 1
          <6>1. heap.objects[o].refs \in Nat
            BY <5>1, HeapFields DEF SourceFileType
          <6> QED BY <1>3, <6>1
        <5>3. copying.object = Null
          BY <1>1 DEF CopierInv, CopierHolds
        <5>4. NameOf(o) \in KeptNames
          BY <5>1, <5>2, <5>3, SurvivorIsKept
        <5>5. path[2] = NameOf(o) /\ path \in Paths
          BY <1>3, <3>1, <5>1, DestinationFields DEF DestinationOk, Dest
        <5>6. path = Target(NameOf(o))
          BY <4>2, <5>5 DEF Paths, Target
        <5> QED BY <1>1, <5>4, <5>6
      <4> QED BY <3>1, <4>1, <4>2 DEF DestinationOk, Dest
    <3> QED BY <3>1, <3>2 DEF DestinationOk, Dest
  <2>4. \A p \in kept' : p[1] <= session
    <3>1. session <= session
      BY <1>r
    <3> QED BY <1>1, <3>1 DEF BackupInv, Target
  <2> QED BY <1>1, <2>1, <2>3, <2>4 DEF BackupInv, Current
<1>7. FinishedStay
  BY <1>5, SameFilesStay
<1>8. /\ CallInv' /\ ApartInv' /\ RefsInv' /\ HeldInv'
      /\ UnlinkInv' /\ RenameInv'
  BY <1>1, <1>3, DestinationStep
<1>9. CopierInv' /\ CopyInv' /\ CrashInv'
  BY <1>1 DEF CopierInv, CopyInv, CrashInv, CopierHolds
<1> QED BY <1>3, <1>4, <1>6, <1>7, <1>8, <1>9 DEF IInv

----------------------------------------------------------------------------
(*                 The calls of the application, step by step              *)

LEMMA NoDescriptorIsZero == \A fd \in Fds : fd # 0
  BY DEF Fds

LEMMA TameParts ==
  ASSUME IInv, Tame
  PROVE  /\ Orderly /\ NoRecreation
         /\ AllHeld /\ UnlinkedAreGone
  BY DEF IInv, HeldInv, UnlinkInv, Tame

LEMMA NotInUse ==
  ASSUME IInv, NEW n \in Names, ~InUse(n)
  PROVE  /\ \A fd \in Fds : map[fd] # Null => NameOf(map[fd]) # n
         /\ \A fd \in Fds : fds[fd] # None => fds[fd] # dir[n]
         /\ \A u \in Threads : call[u].name # n /\ call[u].to # n
         /\ \A o \in heap.live : NameOf(o) = n => ~heap.objects[o].unlinked
         /\ \A u \in Threads : call[u].object # Null => NameOf(call[u].object) # n
         /\ ~Unlinking(n)
<1> USE InvParts
<1>1. /\ \A fd \in Fds : map[fd] # Null => NameOf(map[fd]) # n
      /\ \A fd \in Fds : fds[fd] # None => fds[fd] # dir[n]
      /\ \A u \in Threads : call[u].name # n /\ call[u].to # n
      /\ Lookup(heap, n) # Null => ~heap.objects[Lookup(heap, n)].unlinked
  BY DEF InUse, NameOf
<1>2. \A o \in heap.live : NameOf(o) = n => ~heap.objects[o].unlinked
  <2> SUFFICES ASSUME NEW o \in heap.live, heap.objects[o].name = n
               PROVE  ~heap.objects[o].unlinked
    BY DEF NameOf
  <2>1. /\ Lookup(heap, n) # Null /\ Lookup(heap, n) \in heap.live
        /\ heap.objects[Lookup(heap, n)].name = n
    BY LookupIs
  <2>2. Lookup(heap, n) = o
    BY <2>1 DEF Tidy
  <2> QED BY <1>1, <2>1, <2>2
<1>3. ~Unlinking(n)
  BY <1>1 DEF Unlinking
<1>4. \A u \in Threads : call[u].object # Null => NameOf(call[u].object) # n
  BY DEF InUse, NameOf
<1> QED BY <1>1, <1>2, <1>3, <1>4

LEMMA HandsKeep ==
  ASSUME TypeInv, RefsInv, TypeInv', RefsInv', NamesStay(heap, heap'), map' = map,
         NEW t \in Threads, OthersWait(t)
  PROVE  InHandKept(t)
<1>1. InHandLive'
  BY InHandStays
<1>2. \A fd \in Fds : map[fd] # Null => map[fd] \in heap.live /\ map[fd] \in heap'.live
  BY <1>1, InHandIsLive DEF InHandLive
<1>3. \A u \in Threads \ {t} : call[u].object # Null =>
        call[u].object \in heap.live /\ call[u].object \in heap'.live
  BY <1>1, InHandIsLive DEF InHandLive, OthersWait
<1> QED BY <1>2, <1>3 DEF InHandKept, Kept, NamesStay

LEMMA SameHeapKeeps ==
  ASSUME TypeInv, RefsInv, Tidy(heap), heap' = heap, NEW t
  PROVE  InHandKept(t) /\ NamesStay(heap, heap') /\ Tidy(heap')
  BY InHandIsLive DEF InHandKept, Kept, NamesStay

LEMMA CallsStay ==
  ASSUME IInv, NEW t \in Threads, OthersWait(t), InHandKept(t),
         OtherDescriptorsKept(t), CallOk(t)', running' = running
  PROVE  CallInv'
<1> USE InvParts
<1> SUFFICES ASSUME NEW u \in Threads \ {t} PROVE CallOk(u)'
  BY DEF CallInv
<1>1. CallOk(u) /\ call'[u] = call[u]
  BY DEF CallInv, OthersWait
<1>2. call[u].fd \in Fds =>
        map'[call[u].fd] = map[call[u].fd] /\ fds'[call[u].fd] = fds[call[u].fd]
  BY DEF OtherDescriptorsKept
<1>3. call[u].at \in HoldsFd => call[u].fd \in Fds
  BY <1>1, CallFields DEF CallOk
<1>4. call[u].at \in HoldsFd => fds'[call[u].fd] # None
  BY <1>1, <1>2, <1>3 DEF CallOk
<1>5. /\ call[u].at \in {"open realpath", "open table", "open map", "close table"} =>
           map'[call[u].fd] = Null
      /\ call[u].at \in {"open capture", "open translate", "close map"} =>
           map'[call[u].fd] # Null
  BY <1>1, <1>2, <1>3 DEF CallOk, HoldsFd, OpenSteps
<1>6. call[u].at \in {"open map", "unlink capture"} =>
        heap'.objects[call[u].object].name = call[u].name
  BY <1>1 DEF CallOk, HoldsObject, InHandKept, Kept, NameOf
<1>7. call[u].at \in {"open capture", "open translate"} =>
        heap'.objects[map'[call[u].fd]].name = call[u].name
  BY <1>1, <1>2, <1>3 DEF CallOk, HoldsFd, OpenSteps, InHandKept, Kept, NameOf
<1> QED BY <1>1, <1>4, <1>5, <1>6, <1>7 DEF CallOk, NameOf

LEMMA ApartStays ==
  ASSUME ApartInv, NEW t \in Threads, OthersWait(t),
         call'[t].fd = 0 \/ \A u \in Threads \ {t} : call[u].fd # call'[t].fd,
         call'[t].locked => \A u \in Threads \ {t} : ~call[u].locked,
         \A fd \in Fds : fds'[fd] = None => map'[fd] = Null
  PROVE  ApartInv'
<1> SUFFICES ASSUME NEW u \in Threads, NEW v \in Threads, u # v
             PROVE  /\ call'[u].fd # 0 => call'[u].fd # call'[v].fd
                    /\ ~(call'[u].locked /\ call'[v].locked)
  BY DEF ApartInv
<1>1. CASE u = t
  BY <1>1 DEF OthersWait, ApartInv
<1>2. CASE v = t
  BY <1>2 DEF OthersWait, ApartInv
<1>3. CASE u # t /\ v # t
  BY <1>3 DEF OthersWait, ApartInv
<1> QED BY <1>1, <1>2, <1>3

(* A thread that has no new lock and no new descriptor. *)
LEMMA ApartAsBefore ==
  ASSUME ApartInv, NEW t \in Threads, OthersWait(t),
         call'[t].fd \in {0, call[t].fd}, call'[t].locked => call[t].locked,
         \A fd \in Fds : fds'[fd] = None => map'[fd] = Null
  PROVE  ApartInv'
<1>1. call'[t].fd = 0 \/ \A u \in Threads \ {t} : call[u].fd # call'[t].fd
  BY DEF ApartInv
<1>2. call'[t].locked => \A u \in Threads \ {t} : ~call[u].locked
  BY DEF ApartInv
<1> QED BY <1>1, <1>2, ApartStays

LEMMA CopierStays ==
  ASSUME IInv, UNCHANGED <<cpc, copying, running, crashed>>
  PROVE  CopierInv' /\ CrashInv'
  BY InvParts DEF CopierInv, CrashInv

LEMMA CopyStays ==
  ASSUME IInv, cpc' = cpc, copying' = copying, NamesStay(heap, heap'),
         TypeInv', RefsInv',
         copying.object # Null /\ Dest(heap, copying.object) # NoDestination =>
           Dest(heap', copying.object) # NoDestination
  PROVE  CopyInv'
<1> USE InvParts
<1>1. InHandLive'
  BY InHandStays
<1> SUFFICES ASSUME copying.object # Null PROVE CopyInv'
  BY DEF CopyInv, CopierInv, CopierHolds
<1>2. copying.object \in heap.live /\ copying.object \in heap'.live
  BY <1>1, InHandIsLive DEF InHandLive
<1>3. /\ heap'.objects[copying.object].name = heap.objects[copying.object].name
      /\ heap'.objects[copying.object].unlinked = heap.objects[copying.object].unlinked
  BY <1>2 DEF NamesStay
<1>4. cpc = "data" => Dest(heap', copying.object) # NoDestination
  BY DEF CopyInv
<1>5. ~NeedsDestination(heap, copying.object) => ~NeedsDestination(heap', copying.object)
  BY <1>3 DEF NeedsDestination
<1> QED BY <1>3, <1>4, <1>5 DEF CopyInv, NameOf

LEMMA HeldStays ==
  ASSUME IInv, Tame, NEW t \in Threads, OthersWait(t), InHandKept(t),
         OtherDescriptorsKept(t), ghosts \subseteq ghosts',
         \A fd \in Fds : map'[fd] # Null =>
           \/ map'[fd] = map[fd] /\ fds'[fd] = fds[fd] /\ Steady(NameOf(map[fd]))
           \/ Held(fd, map[fd])',
         \A u \in Threads \ {t} :
           /\ call[u].object # Null =>
                \/ Steady(NameOf(call[u].object))
                \/ heap'.objects[call[u].object].unlinked
           /\ call[u].at \in BeforeTable =>
                dir'[call[u].name] \in {dir[call[u].name], None},
         call'[t].at \in {"open map", "close table"} =>
           Held(call[t].fd, call[t].object)',
         call'[t].at \in BeforeTable =>
           dir'[call'[t].name] \in {fds'[call'[t].fd], None}
  PROVE  AllHeld'
<1> USE InvParts, TameParts
<1>1. \A fd \in Fds, o \in Objects :
        /\ Held(fd, o) /\ Kept(o) /\ fds'[fd] = fds[fd] /\ Steady(NameOf(o))
        => Held(fd, o)'
  BY DEF Held, Kept, Steady, NameOf
<1>2. ASSUME NEW fd \in Fds, map'[fd] # Null PROVE Held(fd, map[fd])'
  <2>1. CASE map'[fd] = map[fd] /\ fds'[fd] = fds[fd] /\ Steady(NameOf(map[fd]))
    <3>1. PICK o \in Objects : o = map[fd]
      BY <1>2, <2>1, InHandIsLive
    <3>2. Held(fd, o) /\ Kept(o) /\ Steady(NameOf(o))
      BY <1>2, <2>1, <3>1 DEF AllHeld, InHandKept
    <3>3. Held(fd, o)'
      BY <1>1, <2>1, <3>2
    <3>4. o = map'[fd]
      BY <2>1, <3>1
    <3> QED BY <3>3, <3>4 DEF Held, NameOf
  <2> QED BY <1>2, <2>1
<1>3. ASSUME NEW u \in Threads \ {t}
      PROVE  /\ call'[u].at \in {"open map", "close table"} =>
                  Held(call[u].fd, call[u].object)'
             /\ call'[u].at \in BeforeTable =>
                  dir'[call'[u].name] \in {fds'[call'[u].fd], None}
  <2>1. call'[u] = call[u]
    BY DEF OthersWait
  <2>2. call[u].at \in HoldsFd =>
          call[u].fd \in Fds /\ fds'[call[u].fd] = fds[call[u].fd]
    BY CallFields DEF OtherDescriptorsKept, CallInv, CallOk
  <2>3. ASSUME call[u].at \in {"open map", "close table"}
        PROVE  Held(call[u].fd, call[u].object)'
    <3>1. call[u].object # Null /\ call[u].fd \in Fds
      BY <2>2, <2>3 DEF CallInv, CallOk, HoldsObject, HoldsFd, OpenSteps,
                                         BeforeTable
    <3>2. PICK o \in Objects : o = call[u].object
      BY <3>1, InHandIsLive
    <3>3. PICK fd \in Fds : fd = call[u].fd
      BY <3>1
    <3>4. Held(fd, o)
      BY <2>3, <3>2, <3>3 DEF AllHeld
    <3>5. /\ Kept(o) /\ fds'[fd] = fds[fd]
          /\ Steady(NameOf(o)) \/ heap'.objects[o].unlinked
      BY <2>2, <2>3, <3>1, <3>2, <3>3 DEF InHandKept, HoldsFd, OpenSteps,
                                         BeforeTable
    <3>6. Held(fd, o)'
      BY <1>1, <3>4, <3>5 DEF Held
    <3> QED BY <2>1, <3>2, <3>3, <3>6 DEF Held, NameOf
  <2>4. ASSUME call[u].at \in BeforeTable
        PROVE  dir'[call[u].name] \in {fds'[call[u].fd], None}
    BY <2>2, <2>4 DEF AllHeld, HoldsFd, OpenSteps,
                                         BeforeTable
  <2> QED BY <2>1, <2>3, <2>4
<1> QED BY <1>2, <1>3 DEF AllHeld

LEMMA UnlinkStays ==
  ASSUME UnlinkInv, dir' = dir, NamesStay(heap, heap'),
         \A u \in Threads : call'[u].at \in {"unlink table", "unlink capture"} =>
           /\ call[u].at \in {"unlink table", "unlink capture"}
           /\ call'[u].name = call[u].name
  PROVE  UnlinkInv'
<1> SUFFICES ASSUME NoRecreation, UnlinkedAreGone PROVE UnlinkedAreGone'
  BY DEF UnlinkInv
<1>1. \A o \in heap'.live : heap'.objects[o].unlinked =>
        /\ o \in heap.live /\ heap.objects[o].unlinked
        /\ heap'.objects[o].name = heap.objects[o].name
  BY DEF NamesStay
<1> QED BY ZenonT(60), <1>1 DEF UnlinkedAreGone, NameOf

LEMMA RenameStays ==
  ASSUME IInv, Tidy(heap'), NamesStay(heap, heap'),
         \A u \in Threads : call'[u].at = "rename capture" => call'[u] = call[u],
         \A fd \in Fds : map'[fd] # Null =>
           map'[fd] = map[fd] \/ \E v \in Threads : call[v].object = map'[fd],
         \A v \in Threads : call'[v].object # Null =>
           \/ \E w \in Threads : call[w].object = call'[v].object
           \/ \E fd \in Fds : map[fd] = call'[v].object
           \/ ~Renaming(heap'.objects[call'[v].object].name),
         \A v \in Threads : call'[v].at \in BeforeTable =>
           \/ call[v].at \in BeforeTable /\ call'[v].name = call[v].name
           \/ ~Renaming(call'[v].name)
  PROVE  RenameInv'
<1> USE InvParts
<1> SUFFICES ASSUME NEW u \in Threads, call'[u].at = "rename capture"
             PROVE  LET names == {call[u].name, call[u].to} IN
                     /\ \A o \in heap'.live : heap'.objects[o].name \in names =>
                          /\ ~heap'.objects[o].unlinked
                          /\ \A fd \in Fds : map'[fd] # o
                          /\ \A v \in Threads : call'[v].object # o
                     /\ \A v \in Threads : call'[v].at \in BeforeTable =>
                          call'[v].name \notin names
  BY DEF RenameInv, NameOf
<1> DEFINE names == {call[u].name, call[u].to}
<1>1. call[u].at = "rename capture" /\ \A n \in names : Renaming(n)
  BY DEF Renaming
<1>2. ASSUME NEW o \in heap'.live, heap'.objects[o].name \in names
      PROVE  /\ ~heap'.objects[o].unlinked
             /\ \A fd \in Fds : map[fd] # o
             /\ \A v \in Threads : call[v].object # o
             /\ o # Null
  <2>1. CASE o \in heap.live
    BY ZenonT(60), <1>1, <1>2, <2>1, HeapFields, NullIsNoObject DEF NamesStay, RenameInv, NameOf
  <2>2. CASE o \notin heap.live
    <3>1. \A v \in Threads : call[v].object = Null \/ call[v].object # o
      BY <2>2, InHandIsLive
    <3>2. o \notin heap.live => ~heap'.objects[o].unlinked
      BY DEF NamesStay
    <3>3. o # Null
      BY HeapFields, NullIsNoObject
    <3> QED BY <2>2, <3>1, <3>2, <3>3, InHandIsLive
  <2> QED BY <2>1, <2>2
<1>3. \A o \in heap'.live : heap'.objects[o].name \in names =>
        /\ ~heap'.objects[o].unlinked
        /\ \A fd \in Fds : map'[fd] # o
        /\ \A v \in Threads : call'[v].object # o
  BY <1>1, <1>2
<1>4. \A v \in Threads : call'[v].at \in BeforeTable => call'[v].name \notin names
  BY <1>1 DEF RenameInv
<1> QED BY <1>3, <1>4

LEMMA IdleIs ==
  /\ Idle \in CallType /\ Idle.at = "idle" /\ Idle.object = Null /\ Idle.fd = 0
  /\ Idle.name = NoName /\ Idle.to = NoName /\ Idle.locked = FALSE
  BY DEF Idle, CallType, Steps, Null

(* The thread is in its call as c says. *)
LEMMA CallBecomes ==
  ASSUME TypeInv, NEW t \in Threads, NEW c \in CallType,
         call' = [call EXCEPT ![t] = c]
  PROVE  /\ call' \in [Threads -> CallType] /\ OthersWait(t) /\ call'[t] = c
  BY DEF TypeInv, OthersWait

LEMMA ReturnIs ==
  ASSUME TypeInv, NEW t \in Threads, Return(t)
  PROVE  /\ call' \in [Threads -> CallType] /\ OthersWait(t) /\ CallOk(t)'
         /\ call'[t] = Idle /\ callsLeft' = callsLeft
<1>1. /\ call' \in [Threads -> CallType] /\ OthersWait(t) /\ call'[t] = Idle
  BY IdleIs, CallBecomes DEF Return
<1>2. CallOk(t)'
  BY <1>1, IdleIs DEF CallOk, HoldsObject, HoldsFd, OpenSteps, Locks
<1> QED BY <1>1, <1>2 DEF Return

LEMMA ProceedIs ==
  ASSUME TypeInv, NEW t \in Threads, NEW at \in Steps,
         NEW object \in Objects \cup {Null}, Proceed(t, at, object)
  PROVE  /\ call' \in [Threads -> CallType] /\ OthersWait(t)
         /\ call'[t].at = at /\ call'[t].object = object
         /\ call'[t].name = call[t].name /\ call'[t].to = call[t].to
         /\ call'[t].fd = call[t].fd /\ call'[t].locked = call[t].locked
         /\ callsLeft' = callsLeft
<1> DEFINE c == [call[t] EXCEPT !.at = at, !.object = object]
<1>1. call[t] \in CallType
  BY DEF TypeInv
<1>2. /\ c \in CallType /\ c.at = at /\ c.object = object
      /\ c.name = call[t].name /\ c.to = call[t].to
      /\ c.fd = call[t].fd /\ c.locked = call[t].locked
  BY <1>1 DEF CallType
<1>3. call' = [call EXCEPT ![t] = c]
  BY DEF Proceed, TypeInv
<1> HIDE DEF c
<1>4. call' \in [Threads -> CallType] /\ OthersWait(t) /\ call'[t] = c
  BY <1>2, <1>3, CallBecomes
<1> QED BY <1>2, <1>4 DEF Proceed

(* What is being unlinked stays so. *)
LEMMA UnlinkingStays ==
  ASSUME NEW t \in Threads, OthersWait(t), dir' = dir,
         call[t].at \in {"unlink table", "unlink capture"} =>
           /\ call'[t].at \in {"unlink table", "unlink capture"}
           /\ call'[t].name = call[t].name
  PROVE  \A n : Steady(n)
<1> SUFFICES ASSUME NEW n, Unlinking(n) PROVE Unlinking(n)'
  BY DEF Steady
<1>1. PICK u \in Threads : /\ call[u].at \in {"unlink table", "unlink capture"}
                           /\ call[u].name = n
  BY DEF Unlinking
<1>2. call'[u].at \in {"unlink table", "unlink capture"} /\ call'[u].name = n
  BY <1>1 DEF OthersWait
<1> QED BY <1>2 DEF Unlinking

LEMMA IdentityKeepsNames ==
  ASSUME NEW h, NEW g, Tidy(h), SameIdentity(h, g) PROVE NamesStay(h, g)
  BY HeapFields DEF SameIdentity, NamesStay

LEMMA OpenMapKeepsInv ==
  ASSUME IInv, NEW t \in Threads, OpenMap(t) PROVE IInv' /\ FinishedStay
<1> USE InvParts
<1>1. /\ call[t].at = "open map" /\ map' = [map EXCEPT ![call[t].fd] = call[t].object]
      /\ Proceed(t, "open capture", Null)
      /\ heap' = heap /\ dir' = dir /\ fds' = fds /\ copying' = copying /\ cpc' = cpc
      /\ UNCHANGED <<lastInode, data, session, running, failed, todo, renamed,
                     wrong, ghosts, kept, crashed>>
  BY DEF OpenMap, sourceVars, sessionVars
<1>2. /\ call' \in [Threads -> CallType] /\ OthersWait(t)
      /\ call'[t].at = "open capture" /\ call'[t].object = Null
      /\ call'[t].name = call[t].name /\ call'[t].fd = call[t].fd
      /\ call'[t].locked = call[t].locked /\ callsLeft' = callsLeft
  BY <1>1, ProceedIs DEF Steps, HoldsFd, OpenSteps
<1>3. /\ call[t].fd \in Fds /\ call[t].object \in Objects /\ call[t].name \in Names
      /\ fds[call[t].fd] # None /\ map[call[t].fd] = Null
      /\ NameOf(call[t].object) = call[t].name
  BY <1>1, CallFields DEF CallInv, CallOk, HoldsFd, OpenSteps, HoldsObject
<1>fd. PICK fd \in Fds : fd = call[t].fd
  BY <1>3
<1>o. PICK o \in Objects : o = call[t].object
  BY <1>3
<1>m. /\ map' = [map EXCEPT ![fd] = o] /\ map[fd] = Null /\ o # Null
      /\ map \in [Fds -> Objects \cup {Null}]
  BY <1>1, <1>3, <1>fd, <1>o, NullIsNoObject DEF TypeInv
<1>4. map'[fd] = o /\ \A gd \in Fds \ {fd} : map'[gd] = map[gd]
  BY <1>m
<1>5. TypeInv'
  BY <1>1, <1>2, <1>m DEF TypeInv
<1>6. RefsInv'
  <2>1. /\ <<"call", t>> \in Users(o) /\ <<"fd", fd>> \notin Users(o)
        /\ Users(o)' = (Users(o) \ {<<"call", t>>}) \cup {<<"fd", fd>>}
        /\ \A p \in Objects \ {o} : Users(p)' = Users(p)
    <3>1. /\ call[t].object = o /\ call'[t].object = Null
          /\ copying'.object = copying.object
          /\ \A u \in Threads \ {t} : call'[u].object = call[u].object
      BY <1>1, <1>2, <1>o DEF OthersWait
    <3> QED BY <1>m, <1>4, <3>1, CallToDescriptor
  <2> QED BY <1>1, <2>1, UserPassesOn, SameHeapIsQuiet
<1>7. InHandKept(t) /\ NamesStay(heap, heap') /\ Tidy(heap')
  BY <1>1, SameHeapKeeps
<1>8. OtherDescriptorsKept(t)
  <2>1. \A u \in Threads \ {t} : call[u].fd # fd
    BY <1>fd DEF ApartInv, Fds
  <2> QED BY <1>1, <1>4, <2>1 DEF OtherDescriptorsKept
<1>9. CallInv'
  <2>1. CallOk(t)'
    <3>1. /\ heap'.objects[map'[call'[t].fd]].name = call'[t].name
          /\ map'[call'[t].fd] # Null /\ fds'[call'[t].fd] # None
          /\ call'[t].fd # 0 /\ call'[t].name \in Names
      <4>1. call'[t].fd = fd /\ fd # 0
        <5>1. fd # 0
          BY DEF Fds
        <5> QED BY <1>2, <1>fd, <5>1
      <4>2. heap'.objects[o].name = call'[t].name
        BY <1>1, <1>2, <1>3, <1>o DEF NameOf
      <4> QED BY <1>1, <1>2, <1>3, <1>fd, <1>m, <1>4, <4>1, <4>2
    <3> QED BY <1>2, <3>1 DEF CallOk, HoldsObject, HoldsFd, OpenSteps, Locks, NameOf
  <2> QED BY <1>1, <1>2, <1>7, <1>8, <2>1, CallsStay
<1>10. ApartInv'
  <2>1. \A gd \in Fds : fds'[gd] = None => map'[gd] = Null
    BY <1>1, <1>3, <1>fd, <1>4 DEF ApartInv
  <2> QED BY <1>2, <2>1, ApartAsBefore
<1>12. HeldInv'
  <2> SUFFICES ASSUME Tame PROVE AllHeld'
    BY DEF HeldInv
  <2> USE TameParts
  <2>1. \A n : Steady(n)
    BY <1>1, <1>2, UnlinkingStays
  <2>2. Held(fd, map[fd])'
    <3>1. Held(fd, o)
      BY <1>1, <1>fd, <1>o DEF AllHeld
    <3>2. Unlinking(NameOf(o)) => Unlinking(NameOf(o))'
      BY <1>1, <2>1 DEF Steady, NameOf
    <3> QED BY <1>1, <1>4, <3>1, <3>2 DEF Held, NameOf
  <2>3. \A gd \in Fds : map'[gd] # Null =>
          \/ map'[gd] = map[gd] /\ fds'[gd] = fds[gd] /\ Steady(NameOf(map[gd]))
          \/ Held(gd, map[gd])'
    BY <1>1, <1>4, <2>1, <2>2
  <2>4. \A u \in Threads \ {t} :
          /\ call[u].object # Null => Steady(NameOf(call[u].object))
          /\ call[u].at \in BeforeTable =>
               dir'[call[u].name] \in {dir[call[u].name], None}
    BY <1>1, <2>1
  <2>5. ghosts \subseteq ghosts' /\ call'[t].at \notin BeforeTable
    BY <1>1, <1>2 DEF BeforeTable
  <2> QED BY <1>2, <1>7, <1>8, <2>3, <2>4, <2>5, HeldStays
<1>13. UnlinkInv'
  BY <1>1, <1>2, <1>7, UnlinkStays DEF OthersWait
<1>14. RenameInv'
  <2>1. \A u \in Threads : call'[u].at = "rename capture" => call'[u] = call[u]
    BY <1>2 DEF OthersWait
  <2>2. \A gd \in Fds : map'[gd] # Null =>
          map'[gd] = map[gd] \/ \E v \in Threads : call[v].object = map'[gd]
    BY <1>o, <1>4
  <2>3. \A v \in Threads : call'[v].object # Null =>
          \E w \in Threads : call[w].object = call'[v].object
    BY <1>2 DEF OthersWait
  <2>4. \A v \in Threads : call'[v].at \in BeforeTable =>
          call[v].at \in BeforeTable /\ call'[v].name = call[v].name
    BY <1>2 DEF OthersWait, BeforeTable
  <2> QED BY <1>7, <2>1, <2>2, <2>3, <2>4, RenameStays
<1>15. BackupInv' /\ FinishedStay
  BY <1>1, SameHeapIsQuiet, QuietBackups
<1>16. CopyInv'
  BY <1>1, <1>5, <1>6, <1>7, CopyStays
<1>17. CopierInv' /\ CrashInv'
  BY <1>1, CopierStays
<1> QED BY <1>5, <1>6, <1>7, <1>9, <1>10, <1>12, <1>13, <1>14, <1>15, <1>16,
           <1>17 DEF IInv

LEMMA CloseMapKeepsInv ==
  ASSUME IInv, NEW t \in Threads, CloseMap(t) PROVE IInv' /\ FinishedStay
<1> USE InvParts
<1>0. call[t].at = "close map" /\ call[t].fd \in Fds
  BY CallFields DEF CallInv, CallOk, HoldsFd, OpenSteps, CloseMap
<1>fd. PICK fd \in Fds : fd = call[t].fd
  BY <1>0
<1>1. /\ map' = [map EXCEPT ![fd] = Null]
      /\ Proceed(t, "close table", map[fd])
      /\ heap' = heap /\ dir' = dir /\ fds' = fds /\ copying' = copying /\ cpc' = cpc
      /\ UNCHANGED <<lastInode, data, session, running, failed, todo, renamed,
                     wrong, ghosts, kept, crashed>>
  BY <1>fd DEF CloseMap, sourceVars, sessionVars
<1>3. map[fd] \in Objects /\ fds[fd] # None
  BY <1>0, <1>fd, InHandIsLive DEF CallInv, CallOk, HoldsFd, OpenSteps
<1>o. PICK o \in Objects : o = map[fd]
  BY <1>3
<1>2. /\ call' \in [Threads -> CallType] /\ OthersWait(t)
      /\ call'[t].at = "close table" /\ call'[t].object = o
      /\ call'[t].name = call[t].name /\ call'[t].fd = call[t].fd
      /\ call'[t].locked = call[t].locked /\ callsLeft' = callsLeft
  BY <1>1, <1>o, ProceedIs DEF Steps, HoldsFd, OpenSteps
<1>4. map'[fd] = Null /\ \A gd \in Fds \ {fd} : map'[gd] = map[gd]
  BY <1>1 DEF TypeInv
<1>5. TypeInv'
  BY <1>1, <1>2 DEF TypeInv
<1>6. RefsInv'
  <2>1. /\ call[t].object = Null /\ call'[t].object = o /\ map[fd] = o
        /\ copying'.object = copying.object
        /\ \A u \in Threads \ {t} : call'[u].object = call[u].object
    BY <1>0, <1>1, <1>2, <1>o DEF OthersWait, CallInv, CallOk, HoldsObject
  <2>2. /\ <<"fd", fd>> \in Users(o) /\ <<"call", t>> \notin Users(o)
        /\ Users(o)' = (Users(o) \ {<<"fd", fd>>}) \cup {<<"call", t>>}
        /\ \A p \in Objects \ {o} : Users(p)' = Users(p)
    BY <1>4, <2>1, DescriptorToCall
  <2> QED BY <1>1, <2>2, UserPassesOn, SameHeapIsQuiet
<1>7. InHandKept(t) /\ NamesStay(heap, heap') /\ Tidy(heap')
  BY <1>1, SameHeapKeeps
<1>8. OtherDescriptorsKept(t)
  <2>1. \A u \in Threads \ {t} : call[u].fd # fd
    BY <1>fd DEF ApartInv, Fds
  <2> QED BY <1>1, <1>4, <2>1 DEF OtherDescriptorsKept
<1>9. CallInv'
  <2>1. call'[t].fd = fd /\ fd # 0 /\ o # Null
    <3>1. fd # 0
      BY DEF Fds
    <3> QED BY <1>2, <1>fd, <3>1, NullIsNoObject
  <2>2. map'[call'[t].fd] = Null /\ fds'[call'[t].fd] # None
    BY <1>1, <1>3, <1>4, <2>1
  <2>3. CallOk(t)'
    BY <1>2, <2>1, <2>2 DEF CallOk, HoldsObject, HoldsFd, OpenSteps, Locks
  <2> QED BY <1>1, <1>2, <1>7, <1>8, <2>3, CallsStay
<1>10. ApartInv'
  <2>1. \A gd \in Fds : fds'[gd] = None => map'[gd] = Null
    BY <1>1, <1>4 DEF ApartInv
  <2> QED BY <1>2, <2>1, ApartAsBefore
<1>12. HeldInv'
  <2> SUFFICES ASSUME Tame PROVE AllHeld'
    BY DEF HeldInv
  <2> USE TameParts
  <2>1. \A n : Steady(n)
    BY <1>0, <1>1, <1>2, UnlinkingStays
  <2>2. Held(call[t].fd, call[t].object)'
    <3>1. Held(fd, o)
      BY <1>3, <1>o, NullIsNoObject DEF AllHeld
    <3>2. Unlinking(NameOf(o)) => Unlinking(NameOf(o))'
      BY <1>1, <2>1 DEF Steady, NameOf
    <3> QED BY <1>1, <1>2, <1>fd, <3>1, <3>2 DEF Held, NameOf
  <2>3. \A gd \in Fds : map'[gd] # Null =>
          map'[gd] = map[gd] /\ fds'[gd] = fds[gd] /\ Steady(NameOf(map[gd]))
    BY <1>1, <1>4, <2>1
  <2>4. \A u \in Threads \ {t} :
          /\ call[u].object # Null => Steady(NameOf(call[u].object))
          /\ call[u].at \in BeforeTable =>
               dir'[call[u].name] \in {dir[call[u].name], None}
    BY <1>1, <2>1
  <2>5. ghosts \subseteq ghosts' /\ call'[t].at \notin BeforeTable
    BY <1>1, <1>2 DEF BeforeTable
  <2> QED BY <1>2, <1>7, <1>8, <2>2, <2>3, <2>4, <2>5, HeldStays
<1>13. UnlinkInv'
  BY <1>1, <1>2, <1>7, UnlinkStays DEF OthersWait
<1>14. RenameInv'
  <2>1. \A u \in Threads : call'[u].at = "rename capture" => call'[u] = call[u]
    BY <1>2 DEF OthersWait
  <2>2. \A gd \in Fds : map'[gd] # Null => map'[gd] = map[gd]
    BY <1>4
  <2>3. \A v \in Threads : call'[v].object # Null =>
          \/ \E w \in Threads : call[w].object = call'[v].object
          \/ \E gd \in Fds : map[gd] = call'[v].object
    BY <1>2, <1>o DEF OthersWait
  <2>4. \A v \in Threads : call'[v].at \in BeforeTable =>
          call[v].at \in BeforeTable /\ call'[v].name = call[v].name
    BY <1>2 DEF OthersWait, BeforeTable
  <2> QED BY <1>7, <2>1, <2>2, <2>3, <2>4, RenameStays
<1>15. BackupInv' /\ FinishedStay
  BY <1>1, SameHeapIsQuiet, QuietBackups
<1>16. CopyInv'
  BY <1>1, <1>5, <1>6, <1>7, CopyStays
<1>17. CopierInv' /\ CrashInv'
  BY <1>1, CopierStays
<1> QED BY <1>5, <1>6, <1>7, <1>9, <1>10, <1>12, <1>13, <1>14, <1>15, <1>16,
           <1>17 DEF IInv

LEMMA OneCallLess ==
  ASSUME TypeInv, callsLeft > 0, callsLeft' = callsLeft - 1
  PROVE  /\ callsLeft' \in 0..MaxCalls
         /\ lastInode + callsLeft' <= MaxCalls
         /\ lastInode + 1 \in 1..MaxCalls
         /\ (lastInode + 1) + callsLeft' <= MaxCalls
<1>1. MaxCalls \in Nat
  BY FileTableAssumption DEF FileTableAssumption
<1>2. /\ lastInode \in 0..MaxCalls /\ callsLeft \in 0..MaxCalls
      /\ lastInode + callsLeft <= MaxCalls
  BY DEF TypeInv
<1> QED BY <1>1, <1>2

LEMMA WriteKeepsInv ==
  ASSUME IInv, NEW t \in Threads, NEW fd \in Fds, Write(t, fd)
  PROVE  IInv' /\ FinishedStay
<1> USE InvParts
<1> DEFINE i == fds[fd]
           content == {<<i, data'[i]>>}
<1>1. /\ callsLeft > 0 /\ callsLeft' = callsLeft - 1 /\ i # None
      /\ data' = [data EXCEPT ![i] = @ + 1]
      /\ \/ heap' = heap
         \/ /\ running /\ map[fd] # Null
            /\ heap' = WriteDestination(heap, map[fd], content)
      /\ UNCHANGED <<dir, lastInode, fds, map, call, cpc, copying, session,
                     running, failed, todo, renamed, wrong, ghosts, kept,
                     crashed>>
  BY DEF Write, Usable, sessionVars
<1>2. i \in Inodes /\ data[i] \in Nat /\ data'[i] = data[i] + 1
  BY <1>1 DEF TypeInv
<1>3. content \in SUBSET (Inodes \X Nat)
  <2>1. data'[i] \in Nat
    BY <1>2
  <2> QED BY <1>2, <2>1
<1>4. TypeInv'
  <2>1. data' \in [Inodes -> Nat]
    BY <1>1, <1>2 DEF TypeInv
  <2>2. callsLeft' \in 0..MaxCalls /\ lastInode + callsLeft' <= MaxCalls
    BY <1>1, OneCallLess
  <2> QED BY <1>1, <2>1, <2>2 DEF TypeInv
<1>5. /\ Tidy(heap') /\ heap'.objects = heap.objects /\ SameIdentity(heap, heap')
      /\ BackupInv' /\ FinishedStay
  <2>1. CASE heap' = heap
    BY <1>1, <2>1, SameHeapIsQuiet, QuietBackups
  <2>2. CASE /\ running /\ map[fd] # Null
             /\ heap' = WriteDestination(heap, map[fd], content)
    <3>1. /\ map[fd] \in heap.live /\ session \in 1..MaxSessions
          /\ FilesApart(heap, session) /\ DestinationsIn(heap, session, kept)
      BY <2>2, InHandIsLive, SessionNumber DEF BackupInv, Current
    <3> HIDE DEF content
    <3>2. /\ Tidy(heap') /\ heap'.objects = heap.objects /\ heap'.live = heap.live
          /\ FilesApart(heap', session) /\ DestinationsIn(heap', session, kept)
          /\ StaysBefore(heap, heap', session, kept)
      BY <1>3, <2>2, <3>1, WriteInSession
    <3>3. BackupInv' /\ FinishedStay
      BY <1>1, <2>2, <3>2, SessionBackups
    <3> QED BY <3>2, <3>3 DEF SameIdentity
  <2> QED BY <1>1, <2>1, <2>2
<1>6. /\ CallInv' /\ ApartInv' /\ RefsInv' /\ HeldInv'
      /\ UnlinkInv' /\ RenameInv'
  BY <1>1, <1>5, DestinationStep
<1>7. CopyInv'
  BY <1>1, <1>4, <1>5, <1>6, IdentityKeepsNames, CopyStays DEF Dest
<1>8. CopierInv' /\ CrashInv'
  BY <1>1, CopierStays
<1> QED BY <1>4, <1>5, <1>6, <1>7, <1>8 DEF IInv

LEMMA TruncatePathKeepsInv ==
  ASSUME IInv, NEW t \in Threads, NEW n \in Names, TruncatePath(t, n)
  PROVE  IInv' /\ FinishedStay
<1> USE InvParts
<1>1. /\ callsLeft > 0 /\ callsLeft' = callsLeft - 1 /\ dir[n] # None
      /\ running => "truncate" \in Liberties
      /\ crashed' \in {crashed, "truncate"}
      /\ data' = data \/ data' = [data EXCEPT ![dir[n]] = 0]
      /\ UNCHANGED <<dir, lastInode, fds, map, heap, call, cpc, copying,
                     session, running, failed, todo, renamed, wrong, ghosts,
                     kept>>
  BY DEF TruncatePath, CrashIf, sessionVars
<1>2. TypeInv'
  <2>1. data' \in [Inodes -> Nat]
    BY <1>1 DEF TypeInv
  <2>2. callsLeft' \in 0..MaxCalls /\ lastInode + callsLeft' <= MaxCalls
    BY <1>1, OneCallLess
  <2> QED BY <1>1, <2>1, <2>2 DEF TypeInv
<1>3. BackupInv' /\ FinishedStay
  BY <1>1, SameHeapIsQuiet, QuietBackups
<1>4. /\ CallInv' /\ ApartInv' /\ RefsInv' /\ HeldInv'
      /\ UnlinkInv' /\ RenameInv'
  BY <1>1, SameHeapIsQuiet, DestinationStep
<1>5. CopyInv' /\ CopierInv' /\ CrashInv'
  BY <1>1 DEF CopyInv, CopierInv, CrashInv, NameOf
<1> QED BY <1>1, <1>2, <1>3, <1>4, <1>5 DEF IInv

(* A step of a call that leaves the directory and the names as they are. *)
LEMMA CallStep ==
  ASSUME IInv, NEW t \in Threads, OthersWait(t), dir' = dir, map' = map,
         running' = running, ghosts \subseteq ghosts',
         TypeInv', RefsInv', Tidy(heap'), NamesStay(heap, heap'),
         OtherDescriptorsKept(t), CallOk(t)',
         \A gd \in Fds : fds'[gd] = fds[gd] \/ map[gd] = Null,
         call'[t].fd = 0 \/ \A u \in Threads \ {t} : call[u].fd # call'[t].fd,
         call'[t].locked => call[t].locked,
         call[t].at \in {"unlink table", "unlink capture"} =>
           /\ call'[t].at \in {"unlink table", "unlink capture"}
           /\ call'[t].name = call[t].name,
         call'[t].at \in {"unlink table", "unlink capture"} =>
           call[t].at \in {"unlink table", "unlink capture"},
         call'[t].at # "rename capture",
         call'[t].at \in BeforeTable =>
           /\ call[t].at \in BeforeTable /\ fds' = fds
           /\ call'[t].name = call[t].name /\ call'[t].fd = call[t].fd,
         Tame /\ call'[t].at \in {"open map", "close table"} =>
           Held(call[t].fd, call[t].object)',
         call'[t].object # Null => ~Renaming(heap'.objects[call'[t].object].name)
  PROVE  /\ CallInv' /\ ApartInv' /\ HeldInv' /\ UnlinkInv' /\ RenameInv'
<1> USE InvParts
<1>1. InHandKept(t)
  BY HandsKeep
<1>2. CallInv'
  BY <1>1, CallsStay
<1>3. ApartInv'
  <2>1. call'[t].locked => \A u \in Threads \ {t} : ~call[u].locked
    BY DEF ApartInv
  <2>2. \A gd \in Fds : fds'[gd] = None => map'[gd] = Null
    BY DEF ApartInv
  <2> QED BY <2>1, <2>2, ApartStays
<1>5. HeldInv'
  <2> SUFFICES ASSUME Tame PROVE AllHeld'
    BY DEF HeldInv
  <2> USE TameParts
  <2>1. \A n : Steady(n)
    BY UnlinkingStays
  <2>2. \A gd \in Fds : map'[gd] # Null =>
          map'[gd] = map[gd] /\ fds'[gd] = fds[gd] /\ Steady(NameOf(map[gd]))
    BY <2>1
  <2>3. \A u \in Threads \ {t} :
          /\ call[u].object # Null => Steady(NameOf(call[u].object))
          /\ call[u].at \in BeforeTable =>
               dir'[call[u].name] \in {dir[call[u].name], None}
    BY <2>1
  <2>4. call'[t].at \in BeforeTable => dir'[call'[t].name] \in {fds'[call'[t].fd], None}
    BY DEF AllHeld
  <2> QED BY <1>1, <2>2, <2>3, <2>4, HeldStays
<1>6. UnlinkInv'
  <2>1. \A u \in Threads : call'[u].at \in {"unlink table", "unlink capture"} =>
           /\ call[u].at \in {"unlink table", "unlink capture"}
           /\ call'[u].name = call[u].name
    BY DEF OthersWait
  <2> QED BY <2>1, UnlinkStays
<1>7. RenameInv'
  <2>1. \A u \in Threads : call'[u].at = "rename capture" => call'[u] = call[u]
    BY DEF OthersWait
  <2>2. \A v \in Threads : call'[v].object # Null =>
          \/ \E w \in Threads : call[w].object = call'[v].object
          \/ ~Renaming(heap'.objects[call'[v].object].name)
    BY DEF OthersWait
  <2>3. \A v \in Threads : call'[v].at \in BeforeTable =>
          call[v].at \in BeforeTable /\ call'[v].name = call[v].name
    BY DEF OthersWait
  <2> QED BY <2>1, <2>2, <2>3, RenameStays
<1> QED BY <1>2, <1>3, <1>5, <1>6, <1>7

LEMMA CloseBeginKeepsInv ==
  ASSUME IInv, NEW t \in Threads, NEW fd \in Fds, CloseBegin(t, fd)
  PROVE  IInv' /\ FinishedStay
<1> USE InvParts
<1> DEFINE c == [Idle EXCEPT !.at = "close map", !.fd = fd]
<1>1. /\ call[t] = Idle /\ fds[fd] # None /\ \A u \in Threads : call[u].fd # fd
      /\ dir' = dir /\ map' = map /\ cpc' = cpc /\ copying' = copying
      /\ UNCHANGED <<lastInode, data, callsLeft, session, running, failed, todo,
                     renamed, wrong, ghosts, kept, crashed>>
  BY DEF CloseBegin, Usable, sessionVars
<1>2. \/ /\ map[fd] = Null /\ fds' = [fds EXCEPT ![fd] = None]
         /\ heap' = heap /\ call' = call
      \/ /\ map[fd] # Null /\ call' = [call EXCEPT ![t] = c] /\ fds' = fds
         /\ heap' = heap \/ heap' = TryToRemoveDestination(heap, map[fd])
  BY DEF CloseBegin
<1>c. c \in CallType /\ c.at = "close map" /\ c.fd = fd /\ c.object = Null
      /\ c.locked = FALSE
  BY IdleIs DEF CallType, Steps, HoldsFd
<1> HIDE DEF c
<1>3. /\ OthersWait(t) /\ call' \in [Threads -> CallType]
      /\ call'[t] = Idle \/ call'[t] = c
  <2>1. CASE call' = call
    BY <1>1, <2>1 DEF OthersWait, TypeInv
  <2>2. CASE call' = [call EXCEPT ![t] = c]
    BY <1>c, <2>2, CallBecomes
  <2> QED BY <1>2, <2>1, <2>2
<1>4. call'[t].object = Null /\ call'[t].fd \in {0, fd} /\ call'[t].locked = FALSE
      /\ call'[t].at \in {"idle", "close map"}
  BY <1>3, <1>c, IdleIs
<1>5. TypeInv'
  BY <1>1, <1>2, <1>3 DEF TypeInv
<1>6. /\ Tidy(heap') /\ SameIdentity(heap, heap') /\ NoNewDestination(heap, heap')
      /\ copying.object # Null => Dest(heap', copying.object) = Dest(heap, copying.object)
  <2>1. CASE heap' = heap
    BY <2>1, SameHeapIsQuiet
  <2>2. CASE map[fd] # Null /\ heap' = TryToRemoveDestination(heap, map[fd])
    <3>1. PICK o \in Objects : o = map[fd] /\ o \in heap.live
      BY <2>2, InHandIsLive
    <3>2. /\ Tidy(heap') /\ SameIdentity(heap, heap') /\ NoNewDestination(heap, heap')
          /\ OnlyObject(heap, heap', o)
          /\ heap.objects[o].refs > 1 => Dest(heap', o) = Dest(heap, o)
      BY <2>2, <3>1, TryToRemoveDestinationIsQuiet
    <3>3. copying.object = o => heap.objects[o].refs > 1
      <4>1. SUFFICES ASSUME copying.object = o PROVE heap.objects[o].refs > 1
        OBVIOUS
      <4>2. <<"copier">> \in Users(o) /\ <<"fd", fd>> \in Users(o)
        BY <3>1, <4>1, UserIs
      <4>3. <<"copier">> # <<"fd", fd>>
        OBVIOUS
      <4> QED BY <4>2, <4>3, UsedIsLive
    <3>4. copying.object # Null => copying.object \in Objects
      BY InHandIsLive
    <3> QED BY <3>2, <3>3, <3>4 DEF OnlyObject, Dest
  <2> QED BY <1>2, <2>1, <2>2
<1>7. RefsInv'
  <2>1. \A u \in Threads : call'[u].object = call[u].object
    BY <1>1, <1>3, <1>4, IdleIs DEF OthersWait
  <2> QED BY <1>1, <1>6, <2>1, SameUsers, UsersStay
<1>8. NamesStay(heap, heap')
  BY <1>6, IdentityKeepsNames
<1>9. /\ \A gd \in Fds : fds'[gd] = fds[gd] \/ map[gd] = Null
      /\ OtherDescriptorsKept(t)
  <2>1. \A gd \in Fds : gd # fd => fds'[gd] = fds[gd]
    BY <1>2 DEF TypeInv
  <2>2. \A gd \in Fds : fds'[gd] = fds[gd] \/ map[gd] = Null
    BY <1>2, <2>1
  <2> QED BY <1>1, <2>1, <2>2 DEF OtherDescriptorsKept
<1>10. CallOk(t)'
  <2>1. CASE call'[t] = Idle
    BY <2>1, IdleIs DEF CallOk, HoldsObject, HoldsFd, OpenSteps, Locks
  <2>2. CASE call'[t] = c
    <3>1. map[fd] # Null /\ fds' = fds
      BY <1>1, <1>2, <1>c, <2>2, IdleIs
    <3>2. map'[call'[t].fd] # Null /\ fds'[call'[t].fd] # None /\ fd # 0
      <4>1. fd # 0
        BY DEF Fds
      <4> QED BY <1>1, <1>c, <2>2, <3>1, <4>1
    <3> QED BY <1>c, <2>2, <3>2 DEF CallOk, HoldsObject, HoldsFd, OpenSteps, Locks
  <2> QED BY <1>3, <2>1, <2>2
<1>11. /\ CallInv' /\ ApartInv' /\ HeldInv' /\ UnlinkInv' /\ RenameInv'
  <2>1. call'[t].fd = 0 \/ \A u \in Threads \ {t} : call[u].fd # call'[t].fd
    BY <1>1, <1>4
  <2>2. call[t].at = "idle"
    BY <1>1, IdleIs
  <2>3. call'[t].at \notin BeforeTable
    BY <1>4 DEF BeforeTable
  <2> QED BY <1>1, <1>3, <1>4, <1>5, <1>6, <1>7, <1>8, <1>9, <1>10, <2>1, <2>2, <2>3,
             CallStep
<1>12. BackupInv' /\ FinishedStay
  BY <1>1, <1>6, QuietBackups
<1>13. CopyInv'
  BY <1>1, <1>5, <1>6, <1>7, <1>8, CopyStays
<1>14. CopierInv' /\ CrashInv'
  BY <1>1, CopierStays
<1> QED BY <1>5, <1>6, <1>7, <1>11, <1>12, <1>13, <1>14 DEF IInv

LEMMA CloseTableKeepsInv ==
  ASSUME IInv, NEW t \in Threads, CloseTable(t) PROVE IInv' /\ FinishedStay
<1> USE InvParts
<1>0. /\ call[t].at = "close table" /\ call[t].fd \in Fds /\ call[t].object \in Objects
      /\ map[call[t].fd] = Null
  BY CallFields DEF CallInv, CallOk, OpenSteps, HoldsFd, HoldsObject, CloseTable
<1>fd. PICK fd \in Fds : fd = call[t].fd
  BY <1>0
<1>o. PICK o \in Objects : o = call[t].object
  BY <1>0
<1>1. /\ heap' = TryToRemove(heap, o) /\ fds' = [fds EXCEPT ![fd] = None]
      /\ Return(t) /\ dir' = dir /\ map' = map /\ cpc' = cpc /\ copying' = copying
      /\ UNCHANGED <<lastInode, data, session, running, failed, todo, renamed,
                     wrong, ghosts, kept, crashed>>
  BY <1>o, <1>fd DEF CloseTable, sessionVars
<1>2. /\ call' \in [Threads -> CallType] /\ OthersWait(t) /\ CallOk(t)'
      /\ call'[t] = Idle /\ callsLeft' = callsLeft
  BY <1>1, ReturnIs
<1>3. /\ <<"call", t>> \in Users(o)
      /\ Users(o)' = Users(o) \ {<<"call", t>>}
      /\ \A p \in Objects \ {o} : Users(p)' = Users(p)
  <2>1. /\ call[t].object = o /\ call'[t].object = Null
        /\ copying'.object = copying.object
        /\ \A u \in Threads \ {t} : call'[u].object = call[u].object
    BY <1>1, <1>2, <1>o, IdleIs DEF OthersWait
  <2> QED BY <1>1, <2>1, CallReturns
<1>4. Returns(heap, heap', o)
  BY <1>1, <1>3, TryToRemoveReturns
<1>t. /\ Tidy(heap') /\ NoNewDestination(heap, heap') /\ NamesStay(heap, heap')
      /\ \A p \in heap'.live : Dest(heap', p) = Dest(heap, p)
  BY <1>4 DEF Returns
<1>5. TypeInv'
  BY <1>1, <1>2 DEF TypeInv
<1>6. RefsInv'
  <2>1. /\ OnlyObject(heap, heap', o)
        /\ heap.objects[o].refs > 1 =>
             /\ heap'.live = heap.live
             /\ heap'.objects[o].refs = heap.objects[o].refs - 1
        /\ heap.objects[o].refs = 1 =>
             heap'.live = heap.live \ {o} /\ heap'.objects[o] = NoObject
    BY <1>4 DEF Returns
  <2> QED BY <1>3, <2>1, UserGoes
<1>7. /\ \A gd \in Fds : fds'[gd] = fds[gd] \/ map[gd] = Null
      /\ OtherDescriptorsKept(t)
  <2>1. \A gd \in Fds : gd # fd => fds'[gd] = fds[gd]
    BY <1>1 DEF TypeInv
  <2>2. \A u \in Threads \ {t} : call[u].fd # fd
    BY <1>fd DEF ApartInv, Fds
  <2> QED BY <1>0, <1>1, <1>fd, <2>1, <2>2 DEF OtherDescriptorsKept
<1>8. /\ CallInv' /\ ApartInv' /\ HeldInv' /\ UnlinkInv' /\ RenameInv'
  <2>1. /\ call'[t].at = "idle" /\ call'[t].fd = 0 /\ ~call'[t].locked
        /\ call'[t].object = Null
    BY <1>2, IdleIs
  <2>2. call'[t].at \notin BeforeTable
    BY <2>1 DEF BeforeTable
  <2> QED BY <1>0, <1>1, <1>2, <1>t, <1>5, <1>6, <1>7, <2>1, <2>2, CallStep
<1>9. BackupInv' /\ FinishedStay
  BY <1>1, <1>t, QuietBackups
<1>10. CopyInv'
  <2>1. copying.object # Null => copying.object \in heap'.live
    BY <1>1, <1>5, <1>6, InHandStays DEF InHandLive
  <2> QED BY <1>1, <1>t, <1>5, <1>6, <2>1, CopyStays
<1>11. CopierInv' /\ CrashInv'
  BY <1>1, CopierStays
<1> QED BY <1>t, <1>5, <1>6, <1>8, <1>9, <1>10, <1>11 DEF IInv

(* A call looks up a name, or makes its source_file: open and unlink.      *)
LEMMA CallLooksUp ==
  ASSUME IInv, EnoughObjects, NEW t \in Threads, NEW n \in Names,
         call[t].object = Null, heap' = GetOrCreate(heap, n)
  PROVE  \E o \in Objects : Takes(heap, heap', n, o)
<1> USE InvParts
<1>1. <<"call", t>> \in Actors /\ \A p \in Objects : <<"call", t>> \notin Users(p)
  BY UserIs, NullIsNoObject DEF Actors
<1>2. heap.live # Objects
  BY <1>1, RoomForOne
<1> QED BY <1>2, GetOrCreateTakes

LEMMA CallTakesReference ==
  ASSUME IInv, NEW t \in Threads, NEW n \in Names, NEW o \in Objects,
         Takes(heap, heap', n, o), OthersWait(t), call[t].object = Null,
         call'[t].object = o, map' = map, copying' = copying
  PROVE  RefsInv'
<1> USE InvParts
<1>1. \A u \in Threads \ {t} : call'[u].object = call[u].object
  BY DEF OthersWait
<1>2. /\ <<"call", t>> \notin Users(o)
      /\ Users(o)' = Users(o) \cup {<<"call", t>>}
      /\ \A p \in Objects \ {o} : Users(p)' = Users(p)
  BY <1>1, CallTakes
<1>3. /\ heap'.live = heap.live \cup {o} /\ OnlyObject(heap, heap', o)
      /\ o \in heap.live => heap'.objects[o].refs = heap.objects[o].refs + 1
      /\ o \notin heap.live => heap'.objects[o].refs = 1
  BY DEF Takes
<1> QED BY <1>2, <1>3, UserComes

LEMMA OpenRealpathKeepsInv ==
  ASSUME IInv, NEW t \in Threads, OpenRealpath(t) PROVE IInv' /\ FinishedStay
<1> USE InvParts
<1>0. /\ call[t].at = "open realpath" /\ call[t].fd \in Fds /\ call[t].name \in Names
      /\ call[t].object = Null /\ map[call[t].fd] = Null /\ fds[call[t].fd] # None
  BY CallFields DEF CallInv, CallOk, OpenSteps, HoldsFd, HoldsObject, OpenRealpath
<1>1. /\ dir' = dir /\ fds' = fds /\ map' = map /\ cpc' = cpc /\ copying' = copying
      /\ heap' = heap /\ failed' \in BOOLEAN
      /\ Return(t) \/ Proceed(t, "open table", Null)
      /\ UNCHANGED <<lastInode, data, session, running, todo, renamed, wrong,
                     ghosts, kept, crashed>>
  BY DEF OpenRealpath, sessionVars, sourceVars, Fail, TypeInv
<1>2. /\ call' \in [Threads -> CallType] /\ OthersWait(t) /\ callsLeft' = callsLeft
      /\ \/ call'[t] = Idle
         \/ /\ call'[t].at = "open table" /\ call'[t].object = Null
            /\ call'[t].name = call[t].name /\ call'[t].fd = call[t].fd
            /\ call'[t].locked = call[t].locked
  <2>1. "open table" \in Steps
    BY DEF Steps, HoldsFd, OpenSteps
  <2> QED BY <1>1, <2>1, ReturnIs, ProceedIs
<1>3. OtherDescriptorsKept(t) /\ \A gd \in Fds : fds'[gd] = fds[gd]
  BY <1>1 DEF OtherDescriptorsKept
<1>4. CallOk(t)'
  <2>1. CASE call'[t] = Idle
    BY <2>1, IdleIs DEF CallOk, HoldsObject, HoldsFd, OpenSteps, Locks
  <2>2. CASE call'[t] # Idle
    BY <1>0, <1>1, <1>2, <2>2, NoDescriptorIsZero
       DEF CallOk, HoldsObject, HoldsFd, OpenSteps, Locks
  <2> QED BY <2>1, <2>2
<1>5. TypeInv'
  BY <1>1, <1>2 DEF TypeInv
<1>6. RefsInv'
  <2>1. \A u \in Threads : call'[u].object = call[u].object
    BY <1>0, <1>2, IdleIs DEF OthersWait
  <2> QED BY <1>1, <2>1, SameHeapIsQuiet, SameUsers, UsersStay
<1>7. NamesStay(heap, heap') /\ Tidy(heap')
  BY <1>1, SameHeapKeeps
<1>8. /\ CallInv' /\ ApartInv' /\ HeldInv' /\ UnlinkInv' /\ RenameInv'
  <2>1. /\ call'[t].at \in {"idle", "open table"} /\ call'[t].object = Null
        /\ call'[t].fd \in {0, call[t].fd}
        /\ call'[t].locked => call[t].locked
        /\ call'[t].at = "open table" =>
             call'[t].name = call[t].name /\ call'[t].fd = call[t].fd
    BY <1>2, IdleIs
  <2>2. call'[t].fd = 0 \/ \A u \in Threads \ {t} : call[u].fd # call'[t].fd
    BY <1>0, <2>1, NoDescriptorIsZero DEF ApartInv
  <2>3. call[t].at \in BeforeTable
    BY <1>0, <2>1 DEF BeforeTable
  <2>4. call'[t].at \in BeforeTable => call'[t].at = "open table"
    BY <2>1 DEF BeforeTable
  <2> QED BY <1>0, <1>1, <1>2, <1>3, <1>4, <1>5, <1>6, <1>7, <2>1, <2>2, <2>3, <2>4,
             CallStep
<1>9. BackupInv' /\ FinishedStay
  BY <1>1, SameHeapIsQuiet, QuietBackups
<1>10. CopyInv'
  BY <1>1, <1>5, <1>6, <1>7, CopyStays
<1>11. CopierInv' /\ CrashInv'
  BY <1>1, CopierStays
<1> QED BY <1>5, <1>6, <1>7, <1>8, <1>9, <1>10, <1>11 DEF IInv

LEMMA OpenTableKeepsInv ==
  ASSUME IInv, EnoughObjects, NEW t \in Threads, OpenTable(t)
  PROVE  IInv' /\ FinishedStay
<1> USE InvParts
<1>0. /\ call[t].at = "open table" /\ call[t].fd \in Fds /\ call[t].name \in Names
      /\ call[t].object = Null /\ map[call[t].fd] = Null /\ fds[call[t].fd] # None
  BY CallFields DEF CallInv, CallOk, OpenSteps, HoldsFd, HoldsObject, OpenTable
<1>n. PICK n \in Names : n = call[t].name
  BY <1>0
<1>1. /\ dir' = dir /\ fds' = fds /\ map' = map /\ cpc' = cpc /\ copying' = copying
      /\ heap' = GetOrCreate(heap, n) /\ Proceed(t, "open map", Lookup(heap', n))
      /\ ghosts' = IF dir[n] = None /\ ~Unlinking(n) THEN ghosts \cup {n} ELSE ghosts
      /\ UNCHANGED <<lastInode, data, session, running, failed, todo, renamed,
                     wrong, kept, crashed>>
  BY <1>n DEF OpenTable, sessionVars, sourceVars
<1>2. OtherDescriptorsKept(t) /\ \A gd \in Fds : fds'[gd] = fds[gd]
  BY <1>1 DEF OtherDescriptorsKept
<1>o. PICK o \in Objects : Takes(heap, heap', n, o)
  BY <1>0, <1>1, CallLooksUp
<1>t. /\ Tidy(heap') /\ NoNewDestination(heap, heap') /\ NamesStay(heap, heap')
      /\ \A p \in heap.live : Dest(heap', p) = Dest(heap, p)
      /\ heap'.objects[o].name = n /\ o = Lookup(heap', n)
  BY <1>o DEF Takes
<1>3. /\ call' \in [Threads -> CallType] /\ OthersWait(t)
      /\ call'[t].at = "open map" /\ call'[t].object = o
      /\ call'[t].name = call[t].name /\ call'[t].fd = call[t].fd
      /\ call'[t].locked = call[t].locked /\ callsLeft' = callsLeft
  <2>1. "open map" \in Steps
    BY DEF Steps, HoldsFd, OpenSteps
  <2> QED BY <1>1, <1>t, <2>1, ProceedIs
<1>4. TypeInv'
  BY <1>1, <1>3 DEF TypeInv
<1>5. RefsInv'
  BY <1>0, <1>1, <1>o, <1>3, CallTakesReference
<1>6. CallOk(t)'
  <2>1. /\ map'[call'[t].fd] = Null /\ fds'[call'[t].fd] # None
        /\ call'[t].fd # 0 /\ call'[t].name \in Names
        /\ heap'.objects[call'[t].object].name = call'[t].name
    BY <1>0, <1>1, <1>n, <1>t, <1>3, NoDescriptorIsZero
  <2> QED BY <1>3, <2>1, NullIsNoObject
          DEF CallOk, HoldsObject, HoldsFd, OpenSteps, Locks, NameOf
<1>7. /\ CallInv' /\ ApartInv' /\ HeldInv' /\ UnlinkInv' /\ RenameInv'
  <2>1. ASSUME Tame PROVE Held(call[t].fd, call[t].object)'
    <3>1. dir[n] \in {fds[call[t].fd], None}
      BY <1>0, <1>n, <2>1, TameParts DEF AllHeld, BeforeTable
    <3>2. Unlinking(n)' = Unlinking(n)
      BY <1>0, <1>3 DEF Unlinking, OthersWait
    <3>3. call'[t].fd = call[t].fd /\ NameOf(call[t].object)' = n
      BY <1>t, <1>3 DEF NameOf
    <3>4. fds'[call'[t].fd] = dir'[n] \/ Unlinking(n)' \/ n \in ghosts'
      BY <1>1, <3>1, <3>2, <3>3
    <3> QED BY <3>3, <3>4 DEF Held, NameOf
  <2>2. ~Renaming(n)
    BY <1>0, <1>n DEF Renaming, RenameInv, BeforeTable
  <2>3. \A u \in Threads \ {t} : call[u].fd # call'[t].fd
    BY <1>0, <1>3, NoDescriptorIsZero DEF ApartInv
  <2>4. call'[t].object # Null => ~Renaming(heap'.objects[call'[t].object].name)
    BY <1>t, <1>3, <2>2
  <2>5. call'[t].at \notin BeforeTable
    BY <1>0, <1>3 DEF BeforeTable
  <2>6. ghosts \subseteq ghosts'
    BY <1>1
  <2> QED BY <1>0, <1>1, <1>2, <1>t, <1>3, <1>4, <1>5, <1>6, <2>1, <2>3, <2>4, <2>5,
             <2>6, CallStep
<1>8. BackupInv' /\ FinishedStay
  BY <1>1, <1>t, QuietBackups
<1>9. CopyInv'
  <2>1. copying.object # Null => copying.object \in heap.live
    BY InHandIsLive
  <2> QED BY <1>1, <1>t, <1>4, <1>5, <2>1, CopyStays
<1>10. CopierInv' /\ CrashInv'
  BY <1>1, CopierStays
<1> QED BY <1>t, <1>4, <1>5, <1>7, <1>8, <1>9, <1>10 DEF IInv

LEMMA UnlinkTableKeepsInv ==
  ASSUME IInv, EnoughObjects, NEW t \in Threads, UnlinkTable(t)
  PROVE  IInv' /\ FinishedStay
<1> USE InvParts
<1>0. /\ call[t].at = "unlink table" /\ call[t].fd = 0 /\ call[t].name \in Names
      /\ call[t].object = Null /\ call[t].locked
  BY CallFields DEF CallInv, CallOk, OpenSteps, HoldsFd, HoldsObject, Locks, UnlinkTable
<1>n. PICK n \in Names : n = call[t].name
  BY <1>0
<1>1. /\ dir' = dir /\ fds' = fds /\ map' = map /\ cpc' = cpc /\ copying' = copying
      /\ heap' = GetOrCreate(heap, n) /\ Proceed(t, "unlink capture", Lookup(heap', n))
      /\ UNCHANGED <<lastInode, data, session, running, failed, todo, renamed,
                     wrong, ghosts, kept, crashed>>
  BY <1>n DEF UnlinkTable, sessionVars, sourceVars
<1>2. OtherDescriptorsKept(t) /\ \A gd \in Fds : fds'[gd] = fds[gd]
  BY <1>1 DEF OtherDescriptorsKept
<1>o. PICK o \in Objects : Takes(heap, heap', n, o)
  BY <1>0, <1>1, CallLooksUp
<1>t. /\ Tidy(heap') /\ NoNewDestination(heap, heap') /\ NamesStay(heap, heap')
      /\ \A p \in heap.live : Dest(heap', p) = Dest(heap, p)
      /\ heap'.objects[o].name = n /\ o = Lookup(heap', n)
  BY <1>o DEF Takes
<1>3. /\ call' \in [Threads -> CallType] /\ OthersWait(t)
      /\ call'[t].at = "unlink capture" /\ call'[t].object = o
      /\ call'[t].name = call[t].name /\ call'[t].fd = call[t].fd
      /\ call'[t].locked = call[t].locked /\ callsLeft' = callsLeft
  <2>1. "unlink capture" \in Steps
    BY DEF Steps, Locks
  <2> QED BY <1>1, <1>t, <2>1, ProceedIs
<1>4. TypeInv'
  BY <1>1, <1>3 DEF TypeInv
<1>5. RefsInv'
  BY <1>0, <1>1, <1>o, <1>3, CallTakesReference
<1>6. CallOk(t)'
  <2>1. /\ call'[t].fd = 0 /\ call'[t].name \in Names /\ call'[t].locked
        /\ heap'.objects[call'[t].object].name = call'[t].name
    BY <1>0, <1>n, <1>t, <1>3
  <2> QED BY <1>3, <2>1, NullIsNoObject DEF CallOk, HoldsObject, HoldsFd, OpenSteps, Locks, NameOf
<1>7. /\ CallInv' /\ ApartInv' /\ HeldInv' /\ UnlinkInv' /\ RenameInv'
  <2>1. \A m : ~Renaming(m)
    BY <1>0 DEF Renaming, ApartInv, CallInv, CallOk, Locks
  <2>2. call'[t].at \notin BeforeTable
    BY <1>3 DEF BeforeTable
  <2> QED BY <1>0, <1>1, <1>2, <1>t, <1>3, <1>4, <1>5, <1>6, <2>1, <2>2, CallStep
<1>8. BackupInv' /\ FinishedStay
  BY <1>1, <1>t, QuietBackups
<1>9. CopyInv'
  <2>1. copying.object # Null => copying.object \in heap.live
    BY InHandIsLive
  <2> QED BY <1>1, <1>t, <1>4, <1>5, <2>1, CopyStays
<1>10. CopierInv' /\ CrashInv'
  BY <1>1, CopierStays
<1> QED BY <1>t, <1>4, <1>5, <1>7, <1>8, <1>9, <1>10 DEF IInv

LEMMA OpenCaptureKeepsInv ==
  ASSUME IInv, NEW t \in Threads, OpenCapture(t) PROVE IInv' /\ FinishedStay
<1> USE InvParts
<1>0. /\ call[t].at = "open capture" /\ call[t].fd \in Fds /\ call[t].name \in Names
      /\ call[t].object = Null /\ map[call[t].fd] # Null /\ fds[call[t].fd] # None
      /\ NameOf(map[call[t].fd]) = call[t].name
  BY CallFields DEF CallInv, CallOk, OpenSteps, HoldsFd, HoldsObject, OpenCapture
<1>1. /\ dir' = dir /\ fds' = fds /\ map' = map /\ cpc' = cpc /\ copying' = copying
      /\ heap' = heap
      /\ Return(t) \/ (running /\ Proceed(t, "open translate", Null))
      /\ UNCHANGED <<lastInode, data, session, running, failed, todo, renamed,
                     wrong, ghosts, kept, crashed>>
  BY DEF OpenCapture, sessionVars, sourceVars
<1>2. /\ call' \in [Threads -> CallType] /\ OthersWait(t) /\ callsLeft' = callsLeft
      /\ \/ call'[t] = Idle
         \/ /\ call'[t].at = "open translate" /\ call'[t].object = Null
            /\ call'[t].name = call[t].name /\ call'[t].fd = call[t].fd
            /\ call'[t].locked = call[t].locked /\ running
  <2>1. "open translate" \in Steps
    BY DEF Steps, HoldsFd, OpenSteps
  <2> QED BY <1>1, <2>1, ReturnIs, ProceedIs
<1>3. OtherDescriptorsKept(t) /\ \A gd \in Fds : fds'[gd] = fds[gd]
  BY <1>1 DEF OtherDescriptorsKept
<1>4. CallOk(t)'
  <2>1. CASE call'[t] = Idle
    BY <2>1, IdleIs DEF CallOk, HoldsObject, HoldsFd, OpenSteps, Locks
  <2>2. CASE call'[t] # Idle
    BY <1>0, <1>1, <1>2, <2>2, NoDescriptorIsZero
       DEF CallOk, HoldsObject, HoldsFd, OpenSteps, Locks, NameOf
  <2> QED BY <2>1, <2>2
<1>5. TypeInv'
  BY <1>1, <1>2 DEF TypeInv
<1>6. RefsInv'
  <2>1. \A u \in Threads : call'[u].object = call[u].object
    BY <1>0, <1>2, IdleIs DEF OthersWait
  <2> QED BY <1>1, <2>1, SameHeapIsQuiet, SameUsers, UsersStay
<1>7. NamesStay(heap, heap') /\ Tidy(heap')
  BY <1>1, SameHeapKeeps
<1>8. /\ CallInv' /\ ApartInv' /\ HeldInv' /\ UnlinkInv' /\ RenameInv'
  <2>1. /\ call'[t].at \in {"idle", "open translate"} /\ call'[t].object = Null
        /\ call'[t].fd \in {0, call[t].fd}
        /\ call'[t].locked => call[t].locked
    BY <1>2, IdleIs
  <2>2. call'[t].fd = 0 \/ \A u \in Threads \ {t} : call[u].fd # call'[t].fd
    BY <1>0, <2>1, NoDescriptorIsZero DEF ApartInv
  <2>3. call'[t].at \notin BeforeTable
    BY <2>1 DEF BeforeTable
  <2> QED BY <1>0, <1>1, <1>2, <1>3, <1>4, <1>5, <1>6, <1>7, <2>1, <2>2, <2>3,
             CallStep
<1>9. BackupInv' /\ FinishedStay
  BY <1>1, SameHeapIsQuiet, QuietBackups
<1>10. CopyInv'
  BY <1>1, <1>5, <1>6, <1>7, CopyStays
<1>11. CopierInv' /\ CrashInv'
  BY <1>1, CopierStays
<1> QED BY <1>5, <1>6, <1>7, <1>8, <1>9, <1>10, <1>11 DEF IInv

LEMMA OpenTranslateKeepsInv ==
  ASSUME IInv, NEW t \in Threads, OpenTranslate(t) PROVE IInv' /\ FinishedStay
<1> USE InvParts
<1>0. /\ call[t].at = "open translate" /\ call[t].fd \in Fds /\ call[t].name \in Names
      /\ call[t].object = Null /\ map[call[t].fd] \in Objects
      /\ map[call[t].fd] \in heap.live
      /\ NameOf(map[call[t].fd]) = call[t].name
  BY CallFields, InHandIsLive DEF CallInv, CallOk, OpenSteps, HoldsFd, HoldsObject, OpenTranslate
<1>n. PICK n \in Names : n = call[t].name
  BY <1>0
<1>o. PICK o \in heap.live : o = map[call[t].fd] /\ heap.objects[o].name = n
  BY <1>0, <1>n DEF NameOf
<1>1. /\ dir' = dir /\ fds' = fds /\ map' = map /\ cpc' = cpc /\ copying' = copying
      /\ Return(t) /\ failed' \in BOOLEAN
      /\ UNCHANGED <<lastInode, data, session, running, todo, renamed, wrong,
                     ghosts, kept>>
      /\ running /\ crashed' \in {"open", crashed}
  BY DEF OpenTranslate, sessionVars, sourceVars, TypeInv, CallInv, CallOk
<1>2. \/ heap' = heap
      \/ heap' = TryToCreateDestination(heap, o, <<session, n>>)
  BY <1>n, <1>o DEF OpenTranslate, Target
<1>3. OtherDescriptorsKept(t) /\ \A gd \in Fds : fds'[gd] = fds[gd]
  BY <1>1 DEF OtherDescriptorsKept
<1>4. /\ call' \in [Threads -> CallType] /\ OthersWait(t) /\ CallOk(t)'
      /\ call'[t] = Idle /\ callsLeft' = callsLeft
  BY <1>1, ReturnIs
<1>5. TypeInv'
  BY <1>1, <1>4 DEF TypeInv
<1>6. /\ Tidy(heap') /\ SameIdentity(heap, heap') /\ BackupInv' /\ FinishedStay
      /\ \A p \in heap.live :
           Dest(heap, p) # NoDestination => Dest(heap', p) = Dest(heap, p)
  <2>1. CASE heap' = heap
    BY <1>1, <2>1, SameHeapIsQuiet, QuietBackups
  <2>2. CASE heap' = TryToCreateDestination(heap, o, <<session, n>>)
    <3>1. /\ session \in 1..MaxSessions
          /\ FilesApart(heap, session) /\ DestinationsIn(heap, session, kept)
      BY <1>1, SessionNumber DEF BackupInv, Current
    <3>2. /\ Tidy(heap') /\ OnlyObject(heap, heap', o) /\ SameIdentity(heap, heap')
          /\ FilesApart(heap', session) /\ DestinationsIn(heap', session, kept)
          /\ StaysBefore(heap, heap', session, kept)
          /\ Dest(heap, o) # NoDestination => Dest(heap', o) = Dest(heap, o)
      BY <1>o, <2>2, <3>1, CreateInSession
    <3>3. BackupInv' /\ FinishedStay
      BY <1>1, <2>2, <3>2, SessionBackups
    <3>4. heap.live \subseteq Objects
      BY HeapFields
    <3> QED BY <3>2, <3>3, <3>4 DEF OnlyObject, Dest
  <2> QED BY <1>2, <2>1, <2>2
<1>7. RefsInv'
  <2>1. \A u \in Threads : call'[u].object = call[u].object
    BY <1>0, <1>4, IdleIs DEF OthersWait
  <2> QED BY <1>1, <1>6, <2>1, SameUsers, UsersStay
<1>8. NamesStay(heap, heap')
  BY <1>6, IdentityKeepsNames
<1>9. /\ CallInv' /\ ApartInv' /\ HeldInv' /\ UnlinkInv' /\ RenameInv'
  <2>1. /\ call'[t].at = "idle" /\ call'[t].fd = 0 /\ ~call'[t].locked
        /\ call'[t].object = Null
    BY <1>4, IdleIs
  <2>2. call'[t].at \notin BeforeTable
    BY <2>1 DEF BeforeTable
  <2> QED BY <1>0, <1>1, <1>3, <1>4, <1>5, <1>6, <1>7, <1>8, <2>1, <2>2, CallStep
<1>10. CopyInv'
  <2>1. copying.object # Null => copying.object \in heap.live
    BY InHandIsLive
  <2> QED BY <1>1, <1>5, <1>6, <1>7, <1>8, <2>1, CopyStays
<1>11. CopierInv' /\ CrashInv'
  BY <1>1 DEF CopierInv, CrashInv
<1> QED BY <1>5, <1>6, <1>7, <1>9, <1>10, <1>11 DEF IInv

(* The start of a call that takes effect on the directory: what it moves   *)
(* is being unlinked, or is not in use unless the application recreates.   *)
LEMMA BeginStep ==
  ASSUME IInv, NEW t \in Threads, NEW c \in CallType, call[t] = Idle,
         call' = [call EXCEPT ![t] = c], c.object = Null,
         c.at \in {"open realpath", "unlink table", "rename capture"},
         heap' = heap, ghosts' = ghosts, kept' = kept, map' = map, cpc' = cpc, copying' = copying,
         session' = session, running' = running, crashed' = crashed,
         TypeInv', CallOk(t)',
         \A fd \in Fds : fds'[fd] = fds[fd] \/ (fds[fd] = None /\ fds'[fd] # None),
         c.fd = 0 \/ \A u \in Threads : call[u].fd # c.fd,
         c.locked => ~FileOpLocked,
         NoRecreation =>
           \A n \in Names :
             \/ dir'[n] = dir[n]
             \/ ~InUse(n)
             \/ c.at = "unlink table" /\ c.name = n /\ dir'[n] = None,
         c.at = "open realpath" =>
           ~Renaming(c.name) /\ dir'[c.name] = fds'[c.fd]
  PROVE  /\ RefsInv' /\ Tidy(heap') /\ CallInv' /\ ApartInv' /\ HeldInv'
         /\ BackupInv' /\ FinishedStay /\ CopyInv' /\ CopierInv' /\ CrashInv'
         /\ c.at # "unlink table" => UnlinkInv'
         /\ c.at # "rename capture" => RenameInv'
<1> USE InvParts
<1>1. OthersWait(t) /\ call'[t] = c
  BY CallBecomes
<1>2. InHandKept(t) /\ NamesStay(heap, heap') /\ Tidy(heap')
  BY SameHeapKeeps
<1>3. RefsInv'
  <2>1. \A u \in Threads : call'[u].object = call[u].object
    BY <1>1, IdleIs DEF OthersWait
  <2> QED BY <2>1, SameHeapIsQuiet, SameUsers, UsersStay
<1>4. \A fd \in Fds : map[fd] # Null => fds'[fd] = fds[fd]
  BY DEF ApartInv
<1>5. OtherDescriptorsKept(t)
  <2>1. \A u \in Threads, fd \in Fds : fd = call[u].fd => fds[fd] # None
    BY NoDescriptorIsZero DEF CallInv, CallOk
  <2> QED BY <2>1 DEF OtherDescriptorsKept
<1>6. CallInv'
  BY <1>1, <1>2, <1>5, CallsStay
<1>7. ApartInv'
  <2>1. \A fd \in Fds : fds'[fd] = None => map'[fd] = Null
    BY DEF ApartInv
  <2>2. call'[t].locked => \A u \in Threads \ {t} : ~call[u].locked
    BY <1>1 DEF FileOpLocked
  <2> QED BY <1>1, <2>1, <2>2, ApartStays
<1>8. /\ \A fd \in Fds : map[fd] # Null => NameOf(map[fd]) \in Names
      /\ \A u \in Threads : call[u].object # Null => NameOf(call[u].object) \in Names
  BY InHandIsLive DEF Tidy, NameOf
<1>9. \A n : Unlinking(n) => Unlinking(n)'
  <2>1. \A u \in Threads : call[u].at \in {"unlink table", "unlink capture"} =>
          call'[u] = call[u]
    BY <1>1, IdleIs DEF OthersWait
  <2> QED BY <2>1 DEF Unlinking
<1>10. ASSUME NoRecreation PROVE \A n \in Names : Steady(n) \/ ~InUse(n)
  <2>1. \A n : c.at = "unlink table" /\ c.name = n => Unlinking(n)'
    BY <1>1 DEF Unlinking
  <2> QED BY <1>9, <1>10, <2>1 DEF Steady
<1>11. HeldInv'
  <2> SUFFICES ASSUME Tame PROVE AllHeld'
    BY DEF HeldInv
  <2> USE TameParts
  <2>1. \A fd \in Fds : map'[fd] # Null =>
          map'[fd] = map[fd] /\ fds'[fd] = fds[fd] /\ Steady(NameOf(map[fd]))
    BY <1>4, <1>8, <1>10, NotInUse
  <2>2. \A u \in Threads \ {t} : call[u].object # Null => Steady(NameOf(call[u].object))
    BY <1>8, <1>10, NotInUse
  <2>3. \A u \in Threads \ {t} : call[u].at \in BeforeTable =>
          dir'[call[u].name] \in {dir[call[u].name], None}
    <3>1. \A u \in Threads : call[u].at \in BeforeTable => call[u].name \in Names
      BY DEF CallInv, CallOk, BeforeTable, OpenSteps
    <3>2. \A u \in Threads : call[u].at \in BeforeTable =>
            dir'[call[u].name] \in {dir[call[u].name], None}
      BY <3>1, NotInUse
    <3> QED BY <3>2
  <2>4. /\ call'[t].at \notin {"open map", "close table"}
        /\ call'[t].at \in BeforeTable => dir'[call'[t].name] \in {fds'[call'[t].fd], None}
    BY <1>1 DEF BeforeTable
  <2> QED BY <1>1, <1>2, <1>5, <2>1, <2>2, <2>3, <2>4, HeldStays
<1>12. BackupInv' /\ FinishedStay
  BY SameHeapIsQuiet, QuietBackups
<1>13. CopyInv'
  BY <1>2, <1>3, CopyStays
<1>14. CopierInv' /\ CrashInv'
  BY CopierStays
<1>15. ASSUME c.at # "unlink table" PROVE UnlinkInv'
  <2> SUFFICES ASSUME NoRecreation, UnlinkedAreGone PROVE UnlinkedAreGone'
    BY DEF UnlinkInv
  <2>1. \A n \in Names : dir'[n] = dir[n] \/ ~InUse(n)
    BY <1>15
  <2>2. ASSUME NEW o \in heap.live, heap.objects[o].unlinked PROVE dir'[NameOf(o)] = None
    <3>1. NameOf(o) \in Names /\ dir[NameOf(o)] = None
      BY <2>2 DEF Tidy, NameOf, UnlinkedAreGone
    <3> QED BY <2>1, <2>2, <3>1, NotInUse
  <2>3. ASSUME NEW u \in Threads, call[u].at \in {"unlink table", "unlink capture"}
        PROVE  dir'[call[u].name] = None
    <3>1. call[u].name \in Names /\ dir[call[u].name] = None
      BY <2>3 DEF UnlinkedAreGone, CallInv, CallOk, Locks
    <3> QED BY <2>1, <3>1, NotInUse
  <2>4. \A u \in Threads : call'[u].at \in {"unlink table", "unlink capture"} =>
          call'[u] = call[u]
    BY <1>1, <1>15 DEF OthersWait
  <2>5. \A o \in heap.live : heap.objects[o].unlinked => dir'[heap.objects[o].name] = None
    BY <2>2 DEF NameOf
  <2>6. ASSUME NEW u \in Threads, call'[u].at \in {"unlink table", "unlink capture"}
        PROVE  /\ dir'[call'[u].name] = None
               /\ \A o \in heap.live :
                    heap.objects[o].name = call'[u].name => ~heap.objects[o].unlinked
    <3>1. call'[u] = call[u]
      BY <2>4, <2>6
    <3>2. dir'[call[u].name] = None
      BY <2>3, <2>6, <3>1
    <3>3. \A o \in heap.live :
            heap.objects[o].name = call[u].name => ~heap.objects[o].unlinked
      BY <2>6, <3>1 DEF UnlinkedAreGone, NameOf
    <3> QED BY <3>1, <3>2, <3>3
  <2>7. heap' = heap
    OBVIOUS
  <2> QED BY ZenonT(60), <2>5, <2>6, <2>7 DEF UnlinkedAreGone, NameOf
<1>17. ASSUME c.at # "rename capture" PROVE RenameInv'
  <2>1. \A u \in Threads : call'[u].at = "rename capture" => call'[u] = call[u]
    BY <1>1, <1>17 DEF OthersWait
  <2>2. \A v \in Threads : call'[v].object # Null =>
          \E w \in Threads : call[w].object = call'[v].object
    BY <1>1 DEF OthersWait
  <2>4. \A v \in Threads : call'[v].at \in BeforeTable =>
          \/ call[v].at \in BeforeTable /\ call'[v].name = call[v].name
          \/ ~Renaming(call'[v].name)
    BY <1>1 DEF OthersWait, BeforeTable
  <2> QED BY <1>2, <2>1, <2>2, <2>4, RenameStays
<1> QED BY <1>2, <1>3, <1>6, <1>7, <1>11, <1>12, <1>13, <1>14, <1>15, <1>17

LEMMA NamesAreFree ==
  ASSUME Orderly, NEW n
  PROVE  /\ May("rename", n) => ~InUse(n)
         /\ NoRecreation /\ May("create", n) => ~InUse(n)
  BY DEF Orderly, NoRecreation, May

LEMMA OpenBeginKeepsInv ==
  ASSUME IInv, Orderly, NEW t \in Threads, NEW n \in Names, NEW creates \in BOOLEAN,
         NEW truncates \in BOOLEAN, OpenBegin(t, n, creates, truncates)
  PROVE  IInv' /\ FinishedStay
<1> USE InvParts
<1>0. MaxFds \in Nat
  BY FileTableAssumption DEF FileTableAssumption
<1>1. PICK fd \in Fds : fds[fd] = None
                        /\ Begin(t, [Idle EXCEPT !.at = "open realpath", !.name = n,
                                                 !.fd = fd, !.locked = creates])
                        /\ (IF dir[n] # None
                            THEN /\ May("open", n)
                                 /\ fds' = [fds EXCEPT ![fd] = dir[n]]
                                 /\ UNCHANGED <<dir, lastInode>>
                            ELSE /\ creates /\ May("create", n)
                                 /\ lastInode' = lastInode + 1
                                 /\ dir' = [dir EXCEPT ![n] = lastInode']
                                 /\ fds' = [fds EXCEPT ![fd] = lastInode'])
  <2> DEFINE free == {f \in Fds : fds[f] = None}
             S == free \cup {MaxFds + 1}
  <2>1. S \in SUBSET Nat /\ S # {}
    BY <1>0 DEF Fds
  <2>2. Min(S) \in S
    <3> HIDE DEF S
    <3> QED BY <2>1, MinIsInSet
  <2>3. MaxFds + 1 \notin Fds
    BY <1>0 DEF Fds
  <2>4. \A fd \in {Min(S)} \cap Fds : fd \in Fds /\ fds[fd] = None
    BY <2>2, <2>3
  <2> HIDE DEF free
  <2> QED BY <2>4 DEF OpenBegin, free
<1> DEFINE c == [Idle EXCEPT !.at = "open realpath", !.name = n, !.fd = fd,
                             !.locked = creates]
<1>2. /\ call[t] = Idle /\ callsLeft > 0 /\ callsLeft' = callsLeft - 1
      /\ call' = [call EXCEPT ![t] = c]
  BY <1>1 DEF Begin
<1>3. /\ creates => ~FileOpLocked
      /\ ~Renaming(n)
      /\ map' = map /\ heap' = heap /\ cpc' = cpc /\ copying' = copying
      /\ session' = session /\ running' = running /\ crashed' = crashed
      /\ UNCHANGED <<failed, todo, renamed, wrong, ghosts, kept>>
      /\ data' = data \/ (dir[n] # None /\ data' = [data EXCEPT ![dir[n]] = 0])
  BY DEF OpenBegin, sessionVars, Orderly
<1>4. /\ c \in CallType /\ c.at = "open realpath" /\ c.name = n /\ c.fd = fd
      /\ c.locked = creates /\ c.object = Null
  BY IdleIs DEF CallType, Steps, HoldsFd, OpenSteps
<1> HIDE DEF c
<1>5. call' \in [Threads -> CallType] /\ call'[t] = c
  BY <1>2, <1>4, CallBecomes
<1>6. NoRecreation /\ dir[n] = None => ~InUse(n)
  BY <1>1, NamesAreFree
<1>7. /\ callsLeft' \in 0..MaxCalls
      /\ lastInode + callsLeft' <= MaxCalls
      /\ lastInode + 1 \in 1..MaxCalls
      /\ (lastInode + 1) + callsLeft' <= MaxCalls
  BY <1>2, OneCallLess
<1>8. dir[n] \in Inodes \cup {None} /\ lastInode + 1 \in Inodes /\ lastInode + 1 # None
  BY <1>7 DEF TypeInv, Inodes, None
<1>9. /\ fds' \in [Fds -> Inodes \cup {None}] /\ dir' \in [Names -> Inodes \cup {None}]
      /\ \A gd \in Fds \ {fd} : fds'[gd] = fds[gd]
      /\ \A m \in Names \ {n} : dir'[m] = dir[m]
      /\ fds'[fd] # None /\ dir'[n] = fds'[fd]
      /\ dir'[n] = dir[n] \/ dir[n] = None
  <2>1. CASE dir[n] # None
    BY <1>1, <1>8, <2>1 DEF TypeInv
  <2>2. CASE dir[n] = None
    <3>1. PICK i \in Inodes : i = lastInode' /\ i # None
      BY <1>1, <1>8, <2>2
    <3>2. dir' = [dir EXCEPT ![n] = i] /\ fds' = [fds EXCEPT ![fd] = i]
      BY <1>1, <2>2, <3>1
    <3> QED BY <2>2, <3>1, <3>2 DEF TypeInv
  <2> QED BY <2>1, <2>2
<1>10. TypeInv'
  <2>1. lastInode' \in 0..MaxCalls /\ lastInode' + callsLeft' <= MaxCalls
    <3>1. CASE dir[n] # None
      BY <1>1, <1>7, <3>1 DEF TypeInv
    <3>2. CASE dir[n] = None
      <4>1. lastInode' = lastInode + 1
        BY <1>1, <3>2
      <4>2. lastInode + 1 \in 0..MaxCalls
        BY <1>7
      <4> QED BY <1>7, <4>1, <4>2
    <3> QED BY <3>1, <3>2
  <2>2. data' \in [Inodes -> Nat]
    BY <1>3, <1>8 DEF TypeInv
  <2> QED BY <1>3, <1>5, <1>7, <1>9, <2>1, <2>2 DEF TypeInv
<1>11. \A u \in Threads : call[u].fd # fd
  BY <1>1, NoDescriptorIsZero DEF CallInv, CallOk
<1>12. CallOk(t)'
  <2>1. map'[call'[t].fd] = Null /\ fds'[call'[t].fd] # None /\ call'[t].fd # 0
    BY <1>1, <1>3, <1>4, <1>5, <1>9, NoDescriptorIsZero DEF ApartInv
  <2> QED BY <1>4, <1>5, <2>1 DEF CallOk, HoldsObject, HoldsFd, OpenSteps, Locks
<1>13. /\ RefsInv' /\ Tidy(heap') /\ CallInv' /\ ApartInv' /\ HeldInv'
       /\ BackupInv' /\ FinishedStay /\ CopyInv' /\ CopierInv' /\ CrashInv'
       /\ UnlinkInv' /\ RenameInv'
  <2>1. \A gd \in Fds : fds'[gd] = fds[gd] \/ (fds[gd] = None /\ fds'[gd] # None)
    BY <1>1, <1>9
  <2>2. NoRecreation => \A m \in Names : dir'[m] = dir[m] \/ ~InUse(m)
    BY <1>6, <1>9
  <2>3. c.locked => ~FileOpLocked
    BY <1>3, <1>4
  <2>4. ~Renaming(c.name) /\ dir'[c.name] = fds'[c.fd]
    BY <1>3, <1>4, <1>9
  <2> QED BY <1>2, <1>3, <1>4, <1>10, <1>11, <1>12, <2>1, <2>2, <2>3, <2>4, BeginStep
<1> QED BY <1>10, <1>13 DEF IInv

LEMMA UnlinkBeginKeepsInv ==
  ASSUME IInv, NEW t \in Threads, NEW n \in Names, UnlinkBegin(t, n)
  PROVE  IInv' /\ FinishedStay
<1> USE InvParts
<1> DEFINE c == [Idle EXCEPT !.at = "unlink table", !.name = n, !.locked = TRUE]
<1>1. /\ call[t] = Idle /\ callsLeft > 0 /\ callsLeft' = callsLeft - 1
      /\ call' = [call EXCEPT ![t] = c]
      /\ ~FileOpLocked /\ dir[n] # None /\ dir' = [dir EXCEPT ![n] = None]
      /\ map' = map /\ heap' = heap /\ cpc' = cpc /\ copying' = copying
      /\ session' = session /\ running' = running /\ crashed' = crashed /\ fds' = fds
      /\ UNCHANGED <<lastInode, data, failed, todo, renamed, wrong, ghosts,
                     kept>>
  BY DEF UnlinkBegin, Begin, sessionVars
<1>2. /\ c \in CallType /\ c.at = "unlink table" /\ c.name = n /\ c.fd = 0
      /\ c.locked = TRUE /\ c.object = Null
  BY IdleIs DEF CallType, Steps, Locks
<1> HIDE DEF c
<1>3. call' \in [Threads -> CallType] /\ call'[t] = c /\ OthersWait(t)
  BY <1>1, <1>2, CallBecomes
<1>4. dir'[n] = None /\ \A m \in Names \ {n} : dir'[m] = dir[m]
  BY <1>1 DEF TypeInv
<1>5. TypeInv'
  <2>1. dir' \in [Names -> Inodes \cup {None}]
    BY <1>1 DEF TypeInv
  <2>2. callsLeft' \in 0..MaxCalls /\ lastInode + callsLeft' <= MaxCalls
    BY <1>1, OneCallLess
  <2> QED BY <1>1, <1>3, <2>1, <2>2 DEF TypeInv
<1>6. CallOk(t)'
  BY <1>2, <1>3 DEF CallOk, HoldsObject, HoldsFd, OpenSteps, Locks
<1>7. /\ RefsInv' /\ Tidy(heap') /\ CallInv' /\ ApartInv' /\ HeldInv'
      /\ BackupInv' /\ FinishedStay /\ CopyInv' /\ CopierInv' /\ CrashInv'
      /\ RenameInv'
  <2>1. \A m \in Names : dir'[m] = dir[m] \/ (c.name = m /\ dir'[m] = None)
    BY <1>2, <1>4
  <2> QED BY <1>1, <1>2, <1>5, <1>6, <2>1, BeginStep
<1>8. UnlinkInv'
  <2> SUFFICES ASSUME NoRecreation, UnlinkedAreGone PROVE UnlinkedAreGone'
    BY DEF UnlinkInv
  <2>1. \A m \in Names : dir[m] = None => dir'[m] = None
    BY <1>4
  <2>2. ASSUME NEW o \in heap.live, heap.objects[o].unlinked
        PROVE  dir'[NameOf(o)] = None /\ NameOf(o) # n
    <3>1. NameOf(o) \in Names /\ dir[NameOf(o)] = None
      BY <2>2 DEF Tidy, NameOf, UnlinkedAreGone
    <3> QED BY <1>1, <2>1, <3>1
  <2>3. ASSUME NEW u \in Threads, call[u].at \in {"unlink table", "unlink capture"}
        PROVE  dir'[call[u].name] = None
    <3>1. call[u].name \in Names /\ dir[call[u].name] = None
      BY <2>3 DEF UnlinkedAreGone, CallInv, CallOk, Locks
    <3> QED BY <2>1, <3>1
  <2>4. ASSUME NEW u \in Threads, call'[u].at \in {"unlink table", "unlink capture"}
        PROVE  /\ dir'[call'[u].name] = None
               /\ \A o \in heap.live :
                    NameOf(o) = call'[u].name => ~heap.objects[o].unlinked
    <3>1. CASE u = t
      BY <1>2, <1>3, <1>4, <2>2, <3>1
    <3>2. CASE u # t
      BY <1>3, <2>3, <2>4, <3>2 DEF OthersWait, UnlinkedAreGone
    <3> QED BY <3>1, <3>2
  <2> QED BY <1>1, <2>2, <2>4 DEF UnlinkedAreGone, NameOf
<1> QED BY <1>5, <1>7, <1>8 DEF IInv

LEMMA RenameBeginKeepsInv ==
  ASSUME IInv, Orderly, NEW t \in Threads, NEW from \in Names, NEW to \in Names,
         RenameBegin(t, from, to)
  PROVE  IInv' /\ FinishedStay
<1> USE InvParts
<1> DEFINE c == [Idle EXCEPT !.at = "rename capture", !.name = from, !.to = to,
                             !.locked = TRUE]
<1>1. /\ call[t] = Idle /\ callsLeft > 0 /\ callsLeft' = callsLeft - 1
      /\ call' = [call EXCEPT ![t] = c]
      /\ ~FileOpLocked /\ dir[from] # None /\ from # to
      /\ May("rename", from) /\ May("rename", to)
      /\ dir' = [dir EXCEPT ![to] = dir[from], ![from] = None]
      /\ map' = map /\ heap' = heap /\ cpc' = cpc /\ copying' = copying
      /\ session' = session /\ running' = running /\ crashed' = crashed /\ fds' = fds
      /\ UNCHANGED <<lastInode, data, failed, todo, renamed, wrong, ghosts,
                     kept>>
  BY DEF RenameBegin, Begin, sessionVars
<1>2. /\ c \in CallType /\ c.at = "rename capture" /\ c.name = from /\ c.to = to
      /\ c.fd = 0 /\ c.locked = TRUE /\ c.object = Null
  BY IdleIs DEF CallType, Steps, Locks
<1> HIDE DEF c
<1>3. call' \in [Threads -> CallType] /\ call'[t] = c /\ OthersWait(t)
  BY <1>1, <1>2, CallBecomes
<1>4. \A m \in Names \ {from, to} : dir'[m] = dir[m]
  BY <1>1 DEF TypeInv
<1>5. TypeInv'
  <2>1. dir' \in [Names -> Inodes \cup {None}]
    BY <1>1 DEF TypeInv
  <2>2. callsLeft' \in 0..MaxCalls /\ lastInode + callsLeft' <= MaxCalls
    BY <1>1, OneCallLess
  <2> QED BY <1>1, <1>3, <2>1, <2>2 DEF TypeInv
<1>6. CallOk(t)'
  BY <1>1, <1>2, <1>3 DEF CallOk, HoldsObject, HoldsFd, OpenSteps, Locks
<1>7. ~InUse(from) /\ ~InUse(to)
  BY <1>1, NamesAreFree
<1>8. /\ RefsInv' /\ Tidy(heap') /\ CallInv' /\ ApartInv' /\ HeldInv'
      /\ BackupInv' /\ FinishedStay /\ CopyInv' /\ CopierInv' /\ CrashInv'
      /\ UnlinkInv'
  <2>1. \A m \in Names : dir'[m] = dir[m] \/ ~InUse(m)
    BY <1>4, <1>7
  <2> QED BY <1>1, <1>2, <1>5, <1>6, <2>1, BeginStep
<1>9. RenameInv'
  <2>1. \A u \in Threads : call'[u].at = "rename capture" => u = t
    BY <1>1, <1>3 DEF OthersWait, FileOpLocked, CallInv, CallOk, Locks
  <2>2. ASSUME NEW o \in heap.live, NameOf(o) \in {from, to}
        PROVE  /\ ~heap.objects[o].unlinked
               /\ \A fd \in Fds : map[fd] # o
               /\ \A u \in Threads : call'[u].object # o
    <3>1. o # Null
      BY HeapFields, NullIsNoObject
    <3>2. /\ ~heap.objects[o].unlinked
          /\ \A fd \in Fds : map[fd] # o
          /\ \A u \in Threads : call[u].object # o
      BY <1>7, <2>2, <3>1, NotInUse
    <3> QED BY <1>2, <1>3, <3>1, <3>2 DEF OthersWait
  <2>3. \A u \in Threads : call'[u].at \in BeforeTable => call'[u].name \notin {from, to}
    BY <1>2, <1>3, <1>7, NotInUse DEF OthersWait, BeforeTable
  <2> QED BY ZenonT(60), <1>1, <1>2, <1>3, <2>1, <2>2, <2>3 DEF RenameInv, NameOf
<1> QED BY <1>5, <1>8, <1>9 DEF IInv

LEMMA UnlinkCaptureIs ==
  ASSUME IInv, Orderly, NEW t \in Threads, UnlinkCapture(t),
         NEW o \in heap.live, o = call[t].object
  PROVE  /\ Unlinked(heap, heap', o) /\ BackupInv' /\ FinishedStay
         /\ crashed' \in {crashed, "unlink"} /\ failed' \in BOOLEAN
         /\ NoRecreation => crashed' = crashed /\ failed' = failed
<1> USE InvParts
<1>0. /\ call[t].at = "unlink capture" /\ call[t].name \in Names
      /\ heap.objects[o].name = call[t].name
      /\ NoRecreation => ~heap.objects[o].unlinked
  BY DEF UnlinkCapture, CallInv, CallOk, Locks, NameOf, UnlinkInv, UnlinkedAreGone
<1>n. PICK n \in Names : n = call[t].name
  BY <1>0
<1>1. heap.objects[o].refs >= 1
  <2>1. o \in Objects
    BY HeapFields
  <2>2. <<"call", t>> \in Users(o)
    BY <2>1, UserIs
  <2> QED BY <2>1, <2>2, UsedIsLive
<1>2. session' = session /\ running' = running
  BY DEF UnlinkCapture, sessionVars
<1>k. kept' = kept
  BY DEF UnlinkCapture
<1>3. CASE running /\ ~failed
  <2>1. PICK s \in 1..MaxSessions : s = session
    BY <1>3, SessionNumber
  <2> DEFINE created == TryToCreateDestination(heap, o, <<s, n>>)
             g == MarkUnlinked(UnlinkBackup(heap, o, <<s, n>>), o)
  <2>f. /\ Tidy(heap) /\ FilesApart(heap, s) /\ DestinationsIn(heap, s, kept)
        /\ heap.objects[o].name = n /\ heap.objects[o].refs >= 1
    BY <1>0, <1>1, <1>3, <1>n, <2>1 DEF BackupInv, Current
  <2>2. /\ ~heap.objects[o].unlinked =>
             Dest(created, o) # NoDestination /\ ~DestinationIsGone(created, o)
        /\ Unlinked(heap, g, o) /\ FilesApart(g, s)
        /\ DestinationsIn(g, s, kept) /\ StaysBefore(heap, g, s, kept)
    BY <2>f, UnlinkInSession
  <2>3. /\ heap' = g /\ crashed' \in {crashed, "unlink"} /\ failed' \in BOOLEAN
        /\ NoRecreation => crashed' = crashed /\ failed' = failed
    <3>1. Target(call[t].name) = <<s, n>> /\ "unlink" \notin Failures
      BY <1>n, <2>1 DEF Target, Orderly
    <3>2. NoRecreation =>
            Dest(created, o) # NoDestination /\ ~DestinationIsGone(created, o)
      BY <1>0, <2>2
    <3> HIDE DEF created
    <3>3. created = TryToCreateDestination(heap, o, <<s, n>>)
      BY DEF created
    <3>4. /\ CrashIf(Dest(created, o) = NoDestination, "unlink") /\ heap' = g
          /\ IF Dest(created, o) # NoDestination /\ DestinationIsGone(created, o)
             THEN Fail ELSE failed' = failed
      BY <1>3, <3>1, <3>3 DEF UnlinkCapture, CreationFails
    <3>5. failed \in BOOLEAN /\ running \in BOOLEAN
      BY DEF TypeInv
    <3> QED BY <3>2, <3>4, <3>5 DEF CrashIf, Fail
  <2> HIDE DEF g
  <2>4. BackupInv' /\ FinishedStay
    BY <1>2, <1>3, <1>k, <2>1, <2>2, <2>3, SessionBackups
  <2>5. Unlinked(heap, heap', o)
    BY <2>2, <2>3
  <2> QED BY <2>3, <2>4, <2>5
<1>4. CASE ~(running /\ ~failed)
  <2> DEFINE g == MarkUnlinked(heap, o)
  <2>1. /\ Tidy(g) /\ NoNewDestination(heap, g) /\ OnlyObject(heap, g, o)
        /\ heap.objects[o].refs > 1 =>
             /\ g.live = heap.live
             /\ g.objects[o].name = heap.objects[o].name
             /\ g.objects[o].refs = heap.objects[o].refs - 1
             /\ g.objects[o].unlinked
             /\ Dest(g, o) = Dest(heap, o)
        /\ heap.objects[o].refs = 1 =>
             g.live = heap.live \ {o} /\ g.objects[o] = NoObject
    BY <1>1, MarkUnlinkedIs
  <2>2. heap' = g /\ crashed' = crashed /\ failed' = failed
    BY <1>4 DEF UnlinkCapture, CrashIf
  <2> HIDE DEF g
  <2>3. BackupInv' /\ FinishedStay
    BY <1>2, <1>k, <2>1, <2>2, QuietBackups
  <2>4. Unlinked(heap, heap', o)
    BY <2>1, <2>2 DEF Unlinked
  <2> QED BY <2>2, <2>3, <2>4 DEF TypeInv
<1> QED BY <1>3, <1>4

LEMMA UnlinkCaptureKeepsInv ==
  ASSUME IInv, Orderly, NEW t \in Threads, UnlinkCapture(t)
  PROVE  IInv' /\ FinishedStay
<1> USE InvParts
<1>0. /\ call[t].at = "unlink capture" /\ call[t].name \in Names /\ call[t].locked
      /\ call[t].object \in Objects /\ call[t].object \in heap.live
      /\ NameOf(call[t].object) = call[t].name
      /\ NoRecreation => dir[call[t].name] = None
  BY InHandIsLive DEF UnlinkCapture, CallInv, CallOk, Locks, HoldsObject,
                      UnlinkInv, UnlinkedAreGone
<1>o. PICK o \in Objects : o = call[t].object
  BY <1>0
<1>n. PICK n \in Names : n = call[t].name
  BY <1>0
<1>1. /\ Return(t) /\ dir' = dir /\ fds' = fds /\ map' = map /\ cpc' = cpc
      /\ copying' = copying /\ running' = running
      /\ UNCHANGED <<lastInode, data, session, todo, renamed, wrong, ghosts,
                     kept>>
  BY DEF UnlinkCapture, sessionVars, sourceVars
<1>2. /\ call' \in [Threads -> CallType] /\ OthersWait(t) /\ CallOk(t)'
      /\ call'[t] = Idle /\ callsLeft' = callsLeft
  BY <1>1, ReturnIs
<1>3. /\ Unlinked(heap, heap', o) /\ BackupInv' /\ FinishedStay
      /\ crashed' \in {crashed, "unlink"} /\ failed' \in BOOLEAN
      /\ NoRecreation => crashed' = crashed
  BY <1>0, <1>o, UnlinkCaptureIs
<1>4. TypeInv'
  BY <1>1, <1>2, <1>3 DEF TypeInv
<1>5. Tidy(heap') /\ OnlyObject(heap, heap', o)
  BY <1>3 DEF Unlinked
<1>6. /\ <<"call", t>> \in Users(o)
      /\ Users(o)' = Users(o) \ {<<"call", t>>}
      /\ \A p \in Objects \ {o} : Users(p)' = Users(p)
  <2>1. /\ call[t].object = o /\ call'[t].object = Null
        /\ copying'.object = copying.object
        /\ \A u \in Threads \ {t} : call'[u].object = call[u].object
    BY <1>1, <1>2, <1>o, IdleIs DEF OthersWait
  <2> QED BY <1>1, <2>1, CallReturns
<1>7. RefsInv'
  <2>1. /\ heap.objects[o].refs > 1 =>
             /\ heap'.live = heap.live
             /\ heap'.objects[o].refs = heap.objects[o].refs - 1
        /\ heap.objects[o].refs = 1 =>
             heap'.live = heap.live \ {o} /\ heap'.objects[o] = NoObject
    BY <1>3 DEF Unlinked
  <2> QED BY <1>5, <1>6, <2>1, UserGoes
<1>8. /\ heap'.live \subseteq heap.live /\ heap.live \subseteq Objects
      /\ o \in heap'.live => /\ heap'.objects[o].name = n /\ heap'.objects[o].unlinked
                             /\ Dest(heap, o) # NoDestination =>
                                  Dest(heap', o) = Dest(heap, o)
  <2>1. heap.objects[o].refs = 1 \/ heap.objects[o].refs > 1
    BY <1>6, UsedIsLive
  <2> QED BY <1>0, <1>3, <1>n, <1>o, <2>1, HeapFields DEF Unlinked, NameOf
<1>9. \A p \in heap'.live : p # o => heap'.objects[p] = heap.objects[p]
  BY <1>5, <1>8 DEF OnlyObject
<1>10. \A p \in heap'.live : Kept(p)
  BY <1>0, <1>8, <1>9, <1>n, <1>o DEF Kept, NameOf
<1>11. InHandKept(t)
  <2>1. InHandLive'
    BY <1>4, <1>7, InHandStays
  <2> QED BY <1>1, <1>2, <1>10, <2>1 DEF InHandLive, InHandKept, OthersWait
<1>12. OtherDescriptorsKept(t)
  BY <1>1 DEF OtherDescriptorsKept
<1>13. CallInv'
  BY <1>1, <1>2, <1>11, <1>12, CallsStay
<1>14. ApartInv'
  <2>1. \A gd \in Fds : fds'[gd] = None => map'[gd] = Null
    BY <1>1 DEF ApartInv
  <2> QED BY <1>2, <2>1, IdleIs, ApartAsBefore
<1>16. HeldInv'
  <2> SUFFICES ASSUME Tame PROVE AllHeld'
    BY DEF HeldInv
  <2>1. \A m : m # n => Steady(m)
    <3>1. SUFFICES ASSUME NEW m, m # n, Unlinking(m) PROVE Unlinking(m)'
      BY <1>1 DEF Steady
    <3>2. PICK u \in Threads : /\ call[u].at \in {"unlink table", "unlink capture"}
                               /\ call[u].name = m
      BY <3>1 DEF Unlinking
    <3>3. u # t
      BY <1>n, <3>1, <3>2
    <3> QED BY <1>2, <3>2, <3>3 DEF OthersWait, Unlinking
  <2>2. \A p \in heap'.live : Steady(NameOf(p)) \/ heap'.objects[p].unlinked
    <3>1. \A p \in heap'.live : NameOf(p) = n => p = o
      BY <1>0, <1>8, <1>n, <1>o DEF NameOf, Tidy
    <3> QED BY <1>8, <2>1, <3>1
  <2>3. ASSUME NEW gd \in Fds, map'[gd] # Null
        PROVE  \/ map'[gd] = map[gd] /\ fds'[gd] = fds[gd] /\ Steady(NameOf(map[gd]))
               \/ Held(gd, map[gd])'
    <3>1. map[gd] \in heap'.live /\ map'[gd] = map[gd]
      BY <1>1, <1>11, <2>3 DEF InHandKept, Kept
    <3> QED BY <1>1, <2>2, <3>1 DEF Held
  <2>4. \A u \in Threads \ {t} :
          /\ call[u].object # Null => \/ Steady(NameOf(call[u].object))
                                      \/ heap'.objects[call[u].object].unlinked
          /\ call[u].at \in BeforeTable =>
               dir'[call[u].name] \in {dir[call[u].name], None}
    BY <1>1, <1>11, <2>2 DEF InHandKept, Kept
  <2>5. call'[t].at = "idle" /\ call'[t].at \notin BeforeTable
    BY <1>2, IdleIs DEF BeforeTable
  <2> QED BY <1>1, <1>2, <1>11, <1>12, <2>3, <2>4, <2>5, HeldStays
<1>17. \A u \in Threads : call'[u].at \notin Locks
  BY <1>0, <1>2, IdleIs DEF OthersWait, ApartInv, CallInv, CallOk, Locks
<1>18. UnlinkInv' /\ RenameInv'
  <2>1. ASSUME NoRecreation, NEW p \in heap'.live, heap'.objects[p].unlinked
        PROVE  dir[heap'.objects[p].name] = None
    <3>1. CASE p = o
      BY <1>0, <1>8, <1>n, <2>1, <3>1
    <3>2. CASE p # o
      BY <1>8, <1>9, <2>1, <3>2 DEF UnlinkInv, UnlinkedAreGone, NameOf
    <3> QED BY <3>1, <3>2
  <2> QED BY <1>1, <1>17, <2>1 DEF UnlinkInv, UnlinkedAreGone, RenameInv, Locks, NameOf
<1>19. CopyInv'
  <2> SUFFICES ASSUME copying.object # Null PROVE CopyInv'
    BY <1>1 DEF CopyInv, CopierInv, CopierHolds
  <2>1. copying.object \in heap'.live
    BY <1>1, <1>4, <1>7, InHandStays DEF InHandLive
  <2>2. CASE copying.object = o
    BY <1>1, <1>8, <2>1, <2>2 DEF CopyInv, NeedsDestination
  <2>3. CASE copying.object # o
    BY <1>1, <1>9, <2>1, <2>3 DEF CopyInv, NeedsDestination, NameOf, Dest
  <2> QED BY <2>2, <2>3
<1>20. CopierInv' /\ CrashInv'
  BY <1>1, <1>3 DEF CopierInv, CrashInv
<1> QED BY <1>3, <1>4, <1>5, <1>7, <1>13, <1>14, <1>16, <1>18, <1>19, <1>20
        DEF IInv

LEMMA QuietNamesAreStill ==
  ASSUME NEW h, NEW g, NoNewDestination(h, g), NamesStay(h, g) PROVE Still(h, g)
  BY DEF NoNewDestination, NamesStay, Still

LEMMA StayTogether ==
  ASSUME NEW h, NEW k, NEW g, NEW s, NEW old,
         StaysBefore(h, k, s, old), StaysBefore(k, g, s, old)
  PROVE  StaysBefore(h, g, s, old)
  BY DEF StaysBefore

(* A rename in a session, of a file that nobody but the copier uses. *)
LEMMA RenameIs ==
  ASSUME NEW h, Tidy(h), NEW s \in 1..MaxSessions, FilesApart(h, s),
         NEW old, DestinationsIn(h, s, old), NEW from \in Names, NEW to \in Names, from # to,
         h.live # Objects,
         \A p \in h.live : h.objects[p].name = from =>
                             ~h.objects[p].unlinked /\ h.objects[p].refs = 1,
         \A p, q \in h.live : h.objects[p].name = from => h.objects[q].name # to,
         NEW k, NEW o, NEW c, NEW g, RenameSteps(h, s, from, to, k, o, c, g)
  PROVE  /\ o \in Objects /\ Dest(c, o) # NoDestination /\ ~DestinationIsGone(c, o)
         /\ Renamed(h, g, o, from, to)
         /\ FilesApart(g, s) /\ DestinationsIn(g, s, old) /\ StaysBefore(h, g, s, old)
         /\ OnePath(h, s) => BackupRenamed(h, g, s, from, to)
<1>0. /\ k = GetOrCreate(h, from) /\ o = Lookup(k, from)
      /\ c = TryToCreateDestination(k, o, <<s, from>>)
      /\ g = TryToRemove(RenameObject(c, o, to, <<s, to>>), o)
  BY DEF RenameSteps
<1>1. o \in Objects /\ Takes(h, k, from, o)
  <2>1. PICK p \in Objects : Takes(h, k, from, p)
    BY <1>0, GetOrCreateTakes
  <2>2. p = o
    BY <1>0, <2>1 DEF Takes
  <2> QED BY <2>1, <2>2
<1>2. /\ Tidy(k) /\ OnlyObject(h, k, o) /\ k.live = h.live \cup {o}
      /\ k.objects[o].name = from /\ NoNewDestination(h, k)
      /\ o \in h.live => k.objects[o].refs = h.objects[o].refs + 1
      /\ o \notin h.live => k.objects[o].refs = 1
      /\ NamesStay(h, k)
  BY <1>1 DEF Takes
<1>3. /\ o \in k.live
      /\ o \in h.live => /\ h.objects[o].name = from /\ ~k.objects[o].unlinked
                         /\ h.objects[o].refs = 1 /\ k.objects[o].refs = 2
      /\ o \notin h.live => ~k.objects[o].unlinked
  BY <1>2 DEF NamesStay
<1>4. FilesApart(k, s) /\ DestinationsIn(k, s, old) /\ StaysBefore(h, k, s, old)
  BY <1>2, QuietStep
<1>5. /\ Tidy(c) /\ OnlyObject(k, c, o) /\ SameIdentity(k, c)
      /\ FilesApart(c, s) /\ DestinationsIn(c, s, old) /\ StaysBefore(k, c, s, old)
      /\ Dest(c, o) # NoDestination
  BY <1>0, <1>2, <1>3, <1>4, CreateInSession
<1>6. /\ o \in c.live /\ c.live = h.live \cup {o} /\ c.objects[o].name = from
      /\ ~c.objects[o].unlinked
      /\ o \in h.live => c.objects[o].refs = 2
      /\ o \notin h.live => c.objects[o].refs = 1
  BY <1>1, <1>2, <1>3, <1>5 DEF SameIdentity
<1>7. OnlyObject(h, c, o)
  BY <1>2, <1>5 DEF OnlyObject
<1>8. c.objects[o].refs = 1 \/ \A p \in c.live \ {o} : c.objects[p].name # to
  <2> SUFFICES ASSUME o \in h.live, NEW p \in h.live, p # o
               PROVE  c.objects[p].name # to
    BY <1>6
  <2>1. p \in Objects
    BY HeapFields
  <2>2. c.objects[p] = h.objects[p]
    BY <1>7, <2>1 DEF OnlyObject
  <2> QED BY <1>3, <2>2
<1>9. c.objects[o].refs >= 1
  BY <1>6
<1>10. /\ ~DestinationIsGone(c, o)
       /\ Tidy(g) /\ OnlyObject(c, g, o) /\ FilesApart(g, s)
       /\ DestinationsIn(g, s, old) /\ StaysBefore(c, g, s, old)
       /\ c.objects[o].refs > 1 =>
            /\ g.live = c.live
            /\ g.objects[o].name = to
            /\ g.objects[o].refs = c.objects[o].refs - 1
            /\ ~g.objects[o].unlinked
            /\ Dest(g, o) # NoDestination
       /\ c.objects[o].refs = 1 =>
            g.live = c.live \ {o} /\ g.objects[o] = NoObject
  BY <1>0, <1>5, <1>6, <1>8, <1>9, RenameInSession
<1>11. OnlyObject(h, g, o)
  BY <1>7, <1>10 DEF OnlyObject
<1>12. ASSUME o \in h.live
       PROVE  /\ g.live = h.live /\ g.objects[o].name = to
              /\ g.objects[o].refs = h.objects[o].refs
              /\ ~g.objects[o].unlinked /\ Dest(g, o) # NoDestination
  <2>1. c.objects[o].refs > 1 /\ c.objects[o].refs - 1 = 1
    BY <1>6, <1>12
  <2> QED BY <1>3, <1>6, <1>10, <1>12, <2>1
<1>13. ASSUME o \notin h.live
       PROVE  g.live = h.live /\ g.objects[o] = h.objects[o]
  <2>1. g.live = h.live
    <3>1. g.live = c.live \ {o}
      BY <1>6, <1>10, <1>13
    <3> QED BY <1>6, <1>13, <3>1
  <2>2. h.objects[o] = NoObject
    BY <1>1, <1>13 DEF Tidy
  <2> QED BY <1>6, <1>10, <1>13, <2>1, <2>2
<1>14. Renamed(h, g, o, from, to)
  BY <1>3, <1>10, <1>11, <1>12, <1>13 DEF Renamed
<1>15. StaysBefore(h, g, s, old)
  <2>1. StaysBefore(h, c, s, old)
    BY <1>4, <1>5, StayTogether
  <2> QED BY <1>10, <2>1, StayTogether
<1>16. ASSUME OnePath(h, s) PROVE BackupRenamed(h, g, s, from, to)
  <2>1. Still(h, k)
    BY <1>2, QuietNamesAreStill
  <2>2. /\ OnePath(k, s)
        /\ \A m : DestAgrees(h, s, m) => DestAgrees(k, s, m)
        /\ \A m : BackupSame(h, k, s, m)
    BY <1>16, <2>1, StillStep
  <2>b. BackupCreated(k, c, s, from)
    BY <1>0, <1>2, <1>3, <2>2, CreateKeepsBackup
  <2>3. /\ OnePath(c, s)
        /\ \A m \in Names : DestAgrees(k, s, m) => DestAgrees(c, s, m)
        /\ \A m \in Names \ {from} : BackupSame(k, c, s, m)
    BY <2>b DEF BackupCreated
  <2>4. BackupRenamed(c, g, s, from, to)
    BY <1>0, <1>5, <1>6, <1>8, <1>9, <2>3, MoveKeepsBackup
  <2>5. /\ OnePath(g, s)
        /\ \A m \in Names \ {from, to} :
             /\ BackupSame(c, g, s, m)
             /\ DestAgrees(c, s, m) => DestAgrees(g, s, m)
    BY <2>4 DEF BackupRenamed
  <2>6. ASSUME NEW m \in Names \ {from, to}
        PROVE  /\ BackupSame(h, g, s, m)
               /\ DestAgrees(h, s, m) => DestAgrees(g, s, m)
    <3>1. BackupSame(h, k, s, m) /\ BackupSame(k, c, s, m) /\ BackupSame(c, g, s, m)
      BY <2>2, <2>3, <2>5
    <3>2. BackupSame(h, c, s, m)
      BY <3>1, SameTogether
    <3> QED BY <2>2, <2>3, <2>5, <3>1, <3>2, SameTogether
  <2> QED BY <2>5, <2>6 DEF BackupRenamed
<1> QED BY <1>1, <1>5, <1>10, <1>14, <1>15, <1>16

(* What is renamed is used by the copier, or by nobody. *)
LEMMA OnlyTheCopier ==
  ASSUME IInv, NEW t \in Threads, call[t].at = "rename capture",
         NEW p \in heap.live, NameOf(p) \in {call[t].name, call[t].to}
  PROVE  /\ ~heap.objects[p].unlinked /\ p = copying.object
         /\ heap.objects[p].refs = 1
         /\ \A fd \in Fds : map[fd] # p
         /\ \A u \in Threads : call[u].object # p
<1> USE InvParts
<1>1. p \in Objects /\ p # Null
  BY HeapFields, NullIsNoObject
<1>2. /\ ~heap.objects[p].unlinked /\ \A fd \in Fds : map[fd] # p
      /\ \A u \in Threads : call[u].object # p
  BY DEF RenameInv
<1>3. Users(p) # {}
  BY <1>1 DEF RefsInv, ReferencesMatchUsers
<1>4. \A a \in Users(p) : a = <<"copier">>
  <2> SUFFICES ASSUME NEW a \in Users(p), a # <<"copier">> PROVE FALSE
    OBVIOUS
  <2>1. CASE \E fd \in Fds : a = <<"fd", fd>>
    <3>1. PICK fd \in Fds : a = <<"fd", fd>>
      BY <2>1
    <3>2. map[fd] = p
      BY <1>1, <3>1, UserIs
    <3> QED BY <1>2, <3>2
  <2>2. CASE \E u \in Threads : a = <<"call", u>>
    <3>1. PICK u \in Threads : a = <<"call", u>>
      BY <2>2
    <3>2. call[u].object = p
      BY <1>1, <3>1, UserIs
    <3> QED BY <1>2, <3>2
  <2> QED BY <1>1, <2>1, <2>2, UserIs
<1>5. Users(p) = {<<"copier">>}
  BY <1>3, <1>4
<1>6. copying.object = p
  BY <1>1, <1>5, UserIs
<1> QED BY <1>1, <1>2, <1>5, <1>6, OnlyUser

LEMMA RenameCaptureIs ==
  ASSUME IInv, Orderly, EnoughObjects, NEW t \in Threads, RenameCapture(t),
         NEW from \in Names, from = call[t].name, NEW to \in Names, to = call[t].to
  PROVE  /\ heap' = heap \/ \E o \in Objects : Renamed(heap, heap', o, from, to)
         /\ BackupInv' /\ FinishedStay
         /\ crashed' = crashed /\ failed' \in BOOLEAN
         /\ todo' \subseteq Names \cup {Elsewhere} /\ renamed' \subseteq Names
         /\ running =>
              /\ renamed' = renamed \cup {from, to} /\ failed' = failed
              /\ todo' = todo \cup {Elsewhere}
              /\ OnePath(heap, session) => BackupRenamed(heap, heap', session, from, to)
<1> USE InvParts
<1>1. /\ call[t].at = "rename capture" /\ from # to /\ call[t].object = Null
      /\ session' = session /\ running' = running /\ kept' = kept
  BY DEF RenameCapture, sessionVars, CallInv, CallOk, HoldsObject
<1>2. /\ failed \in BOOLEAN /\ todo \subseteq Names \cup {Elsewhere}
      /\ renamed \subseteq Names
  BY DEF TypeInv
<1>3. CASE ~running
  <2>1. heap' = heap /\ UNCHANGED <<failed, todo, crashed, renamed>>
    BY <1>3 DEF RenameCapture
  <2> QED BY <1>1, <1>2, <1>3, <2>1, SameHeapIsQuiet, QuietBackups
<1>4. CASE running
  <2>1. PICK s \in 1..MaxSessions : s = session
    BY <1>4, SessionNumber
  <2> DEFINE k == GetOrCreate(heap, from)
             o == Lookup(k, from)
             c == TryToCreateDestination(k, o, <<s, from>>)
             g == TryToRemove(RenameObject(c, o, to, <<s, to>>), o)
  <2>2. heap.live # Objects
    <3>1. <<"call", t>> \in Actors /\ \A p \in Objects : <<"call", t>> \notin Users(p)
      BY <1>1, UserIs, NullIsNoObject DEF Actors
    <3> QED BY <3>1, RoomForOne
  <2>3. FilesApart(heap, s) /\ DestinationsIn(heap, s, kept)
    BY <1>4, <2>1 DEF BackupInv, Current
  <2>4. \A p \in heap.live : heap.objects[p].name = from =>
          ~heap.objects[p].unlinked /\ heap.objects[p].refs = 1
    BY <1>1, OnlyTheCopier DEF NameOf
  <2>5. \A p, q \in heap.live :
          heap.objects[p].name = from => heap.objects[q].name # to
    BY <1>1, OnlyTheCopier DEF NameOf
  <2>6. Target(from) = <<s, from>> /\ Target(to) = <<s, to>> /\ "rename" \notin Failures
    BY <2>1 DEF Target, Orderly
  <2>7. \/ /\ Dest(c, o) = NoDestination
           /\ crashed' = "rename" /\ UNCHANGED <<heap, failed, todo>>
        \/ /\ Dest(c, o) # NoDestination /\ heap' = g
           /\ failed' = (failed \/ DestinationIsGone(c, o))
           /\ todo' = IF DestinationIsGone(c, o) THEN todo
                      ELSE todo \cup {Elsewhere}
           /\ crashed' = crashed
    BY <1>4, <2>6 DEF RenameCapture, CreationFails
  <2>8. renamed' = renamed \cup {from, to}
    BY <1>4 DEF RenameCapture
  <2>p. RenameSteps(heap, s, from, to, k, o, c, g)
    BY DEF RenameSteps
  <2> HIDE DEF k, o, c, g
  <2>9. /\ o \in Objects /\ Dest(c, o) # NoDestination /\ ~DestinationIsGone(c, o)
        /\ Renamed(heap, g, o, from, to)
        /\ FilesApart(g, s) /\ DestinationsIn(g, s, kept)
        /\ StaysBefore(heap, g, s, kept)
        /\ OnePath(heap, s) => BackupRenamed(heap, g, s, from, to)
    BY <1>1, <2>2, <2>3, <2>4, <2>5, <2>p, RenameIs
  <2>10. /\ heap' = g /\ crashed' = crashed /\ failed' = (failed \/ FALSE)
         /\ todo' = todo \cup {Elsewhere}
    BY <2>7, <2>9
  <2>11. BackupInv' /\ FinishedStay
    BY <1>1, <1>4, <2>1, <2>9, <2>10, SessionBackups
  <2>12. failed' = failed
    BY <1>2, <2>10
  <2> QED BY <1>2, <2>1, <2>8, <2>9, <2>10, <2>11, <2>12
<1> QED BY <1>3, <1>4

LEMMA RenameCaptureKeepsInv ==
  ASSUME IInv, Orderly, EnoughObjects, NEW t \in Threads, RenameCapture(t)
  PROVE  IInv' /\ FinishedStay
<1> USE InvParts
<1>0. /\ call[t].at = "rename capture" /\ call[t].object = Null
      /\ call[t].name \in Names /\ call[t].to \in Names
  BY DEF RenameCapture, CallInv, CallOk, Locks, HoldsObject
<1>n. PICK from \in Names, to \in Names : from = call[t].name /\ to = call[t].to
  BY <1>0
<1>1. /\ dir' = dir /\ fds' = fds /\ map' = map /\ cpc' = cpc /\ copying' = copying
      /\ Return(t) /\ UNCHANGED <<lastInode, data, session, running, wrong,
                                  ghosts, kept>>
  BY DEF RenameCapture, sessionVars, sourceVars
<1>2. /\ call' \in [Threads -> CallType] /\ OthersWait(t) /\ CallOk(t)'
      /\ call'[t] = Idle /\ callsLeft' = callsLeft
  BY <1>1, ReturnIs
<1>3. /\ heap' = heap \/ \E o \in Objects : Renamed(heap, heap', o, from, to)
      /\ BackupInv' /\ FinishedStay /\ crashed' = crashed /\ failed' \in BOOLEAN
      /\ todo' \subseteq Names \cup {Elsewhere} /\ renamed' \subseteq Names
  BY <1>n, RenameCaptureIs
<1>4. TypeInv'
  BY <1>1, <1>2, <1>3 DEF TypeInv
<1>5. \A p \in Objects : Users(p)' = Users(p)
  <2>1. \A u \in Threads : call'[u].object = call[u].object
    BY <1>0, <1>2, IdleIs DEF OthersWait
  <2> QED BY <1>1, <2>1, SameUsers
<1>6. OtherDescriptorsKept(t) /\ \A gd \in Fds : fds'[gd] = fds[gd]
  BY <1>1 DEF OtherDescriptorsKept
<1>7. CopierInv' /\ CrashInv'
  BY <1>1, <1>3, CopierStays
<1>8. CASE heap' = heap
  <2>1. RefsInv'
    BY <1>5, <1>8, SameHeapIsQuiet, UsersStay
  <2>2. NamesStay(heap, heap') /\ Tidy(heap')
    BY <1>8, SameHeapKeeps
  <2>3. /\ CallInv' /\ ApartInv' /\ HeldInv' /\ UnlinkInv' /\ RenameInv'
    <3>1. /\ call'[t].at = "idle" /\ call'[t].fd = 0 /\ ~call'[t].locked
          /\ call'[t].object = Null /\ call'[t].at \notin BeforeTable
      BY <1>2, IdleIs DEF BeforeTable
    <3> QED BY <1>0, <1>1, <1>2, <1>4, <1>6, <2>1, <2>2, <3>1, CallStep
  <2>4. CopyInv'
    BY <1>1, <1>4, <1>8, <2>1, <2>2, CopyStays
  <2> QED BY <1>3, <1>4, <1>7, <2>1, <2>2, <2>3, <2>4 DEF IInv
<1>9. ASSUME NEW o \in Objects, Renamed(heap, heap', o, from, to) PROVE IInv'
  <2>1. /\ Tidy(heap') /\ heap'.live = heap.live /\ heap.live \subseteq Objects
        /\ \A p \in Objects \ {o} : heap'.objects[p] = heap.objects[p]
    BY <1>9, HeapFields DEF Renamed, OnlyObject
  <2>2. ASSUME o \in heap.live
        PROVE  /\ NameOf(o) = from /\ heap'.objects[o].name = to
               /\ heap'.objects[o].refs = heap.objects[o].refs
               /\ ~heap'.objects[o].unlinked /\ ~heap.objects[o].unlinked
               /\ Dest(heap', o) # NoDestination
               /\ \A fd \in Fds : map[fd] # o
               /\ \A u \in Threads : call[u].object # o
    <3>1. NameOf(o) = from
      BY <1>9, <2>2 DEF Renamed, NameOf
    <3> QED BY <1>0, <1>9, <1>n, <2>2, <3>1, OnlyTheCopier DEF Renamed
  <2>3. o \notin heap.live => heap'.objects[o] = heap.objects[o]
    BY <1>9 DEF Renamed
  <2>4. RefsInv'
    <3>1. \A p \in Objects : heap'.objects[p].refs = heap.objects[p].refs
      BY <2>1, <2>2, <2>3
    <3> QED BY <1>5, <2>1, <3>1 DEF RefsInv, ReferencesMatchUsers
  <2>5. \A p \in heap.live : p # o => Kept(p)
    BY <2>1 DEF Kept
  <2>6. InHandKept(t)
    <3>1. \A gd \in Fds : map[gd] # Null => map[gd] \in heap.live /\ map[gd] # o
      BY <2>2, InHandIsLive
    <3>2. \A u \in Threads : call[u].object # Null =>
            call[u].object \in heap.live /\ call[u].object # o
      BY <2>2, InHandIsLive
    <3> QED BY <2>5, <3>1, <3>2 DEF InHandKept
  <2>7. CallInv'
    BY <1>1, <1>2, <1>6, <2>6, CallsStay
  <2>8. ApartInv'
    <3>1. \A gd \in Fds : fds'[gd] = None => map'[gd] = Null
      BY <1>1 DEF ApartInv
    <3> QED BY <1>2, <3>1, IdleIs, ApartAsBefore
  <2>10. HeldInv'
    <3> SUFFICES ASSUME Tame PROVE AllHeld'
      BY DEF HeldInv
    <3>1. \A m : Steady(m)
      BY <1>0, <1>1, <1>2, UnlinkingStays
    <3>2. call'[t].at = "idle" /\ call'[t].at \notin BeforeTable
      BY <1>2, IdleIs DEF BeforeTable
    <3>3. \A gd \in Fds : map'[gd] # Null =>
            map'[gd] = map[gd] /\ fds'[gd] = fds[gd] /\ Steady(NameOf(map[gd]))
      BY <1>1, <3>1
    <3>4. \A u \in Threads \ {t} :
            /\ call[u].object # Null => Steady(NameOf(call[u].object))
            /\ call[u].at \in BeforeTable =>
                 dir'[call[u].name] \in {dir[call[u].name], None}
      BY <1>1, <3>1
    <3> QED BY <1>1, <1>2, <1>6, <2>6, <3>2, <3>3, <3>4, HeldStays
  <2>11. \A u \in Threads : call'[u].at \notin Locks
    BY <1>0, <1>2, IdleIs DEF OthersWait, ApartInv, CallInv, CallOk, Locks
  <2>12. UnlinkInv' /\ RenameInv'
    <3>1. ASSUME NoRecreation, NEW p \in heap'.live, heap'.objects[p].unlinked
          PROVE  dir[heap'.objects[p].name] = None
      <4>1. p # o /\ p \in Objects /\ p \in heap.live
        BY <2>1, <2>2, <3>1
      <4>2. heap'.objects[p] = heap.objects[p]
        BY <2>1, <4>1
      <4> QED BY <3>1, <4>1, <4>2 DEF UnlinkInv, UnlinkedAreGone, NameOf
    <3> QED BY <1>1, <2>11, <3>1 DEF UnlinkInv, UnlinkedAreGone, RenameInv, Locks, NameOf
  <2>13. CopyInv'
    <3> SUFFICES ASSUME copying.object # Null PROVE CopyInv'
      BY <1>1 DEF CopyInv, CopierInv, CopierHolds
    <3>1. copying.object \in heap.live /\ copying.object \in Objects
      BY InHandIsLive
    <3>2. CASE copying.object = o
      <4>1. Dest(heap', copying.object) # NoDestination
        BY <2>2, <3>1, <3>2
      <4> QED BY <1>1, <4>1 DEF CopyInv, NeedsDestination
    <3>3. CASE copying.object # o
      <4>1. heap'.objects[copying.object] = heap.objects[copying.object]
        BY <2>1, <3>1, <3>3
      <4> QED BY <1>1, <4>1 DEF CopyInv, NeedsDestination, NameOf, Dest
    <3> QED BY <3>2, <3>3
  <2> QED BY <1>3, <1>4, <1>7, <2>1, <2>4, <2>7, <2>8, <2>10, <2>12, <2>13
          DEF IInv
<1> QED BY <1>3, <1>8, <1>9

----------------------------------------------------------------------------
(*                        What a step leaves alone                         *)

LEMMA BeingOpenedStays ==
  ASSUME NEW t \in Threads, OthersWait(t),
         call[t].at \in OpenSteps =>
           call'[t].at \in OpenSteps /\ call'[t].name = call[t].name
  PROVE  \A n : BeingOpened(n) => BeingOpened(n)'
<1> SUFFICES ASSUME NEW n, BeingOpened(n) PROVE BeingOpened(n)'
  OBVIOUS
<1>1. PICK u \in Threads : call[u].at \in OpenSteps /\ call[u].name = n
  BY DEF BeingOpened, OpenSteps
<1>2. call'[u].at \in OpenSteps /\ call'[u].name = n
  BY <1>1 DEF OthersWait
<1> QED BY <1>2 DEF BeingOpened, OpenSteps

LEMMA UnlinkingGoesOn ==
  ASSUME NEW t \in Threads, OthersWait(t), NEW n,
         call[t].at \in UnlinkSteps /\ call[t].name = n =>
           call'[t].at \in UnlinkSteps /\ call'[t].name = call[t].name,
         Unlinking(n)
  PROVE  Unlinking(n)'
<1>1. PICK u \in Threads : call[u].at \in UnlinkSteps /\ call[u].name = n
  BY DEF Unlinking, UnlinkSteps
<1>2. call'[u].at \in UnlinkSteps /\ call'[u].name = n
  BY <1>1 DEF OthersWait
<1> QED BY <1>2 DEF Unlinking, UnlinkSteps

(* Who has been renamed, or is being renamed, stays so in the session. *)
LEMMA UnmovedBefore ==
  ASSUME NEW t \in Threads, OthersWait(t), renamed \subseteq renamed',
         ghosts \subseteq ghosts', kept' = kept, session' = session,
         call[t].at = "rename capture" => call[t].name \in renamed' /\ call[t].to \in renamed'
  PROVE  \A n : Unmoved(n)' => Unmoved(n)
<1> SUFFICES ASSUME NEW n, ~Unmoved(n) PROVE ~Unmoved(n)'
  OBVIOUS
<1>1. CASE n \in renamed \cup ghosts \cup Stale
  BY <1>1 DEF Unmoved, Stale
<1>2. CASE Renaming(n)
  <2>1. PICK u \in Threads : /\ call[u].at = "rename capture"
                             /\ n \in {call[u].name, call[u].to}
    BY <1>2 DEF Renaming
  <2>2. CASE u = t
    BY <2>1, <2>2 DEF Unmoved
  <2>3. CASE u # t
    <3>1. call'[u] = call[u]
      BY <2>3 DEF OthersWait
    <3>2. Renaming(n)'
      BY <2>1, <3>1 DEF Renaming
    <3> QED BY <3>2 DEF Unmoved
  <2> QED BY <2>2, <2>3
<1> QED BY <1>1, <1>2 DEF Unmoved

LEMMA SameCalls ==
  ASSUME call' = call
  PROVE  /\ \A n : BeingOpened(n) => BeingOpened(n)'
         /\ \A n : Unlinking(n)' <=> Unlinking(n)
         /\ \A n : Renaming(n)' <=> Renaming(n)
         /\ UNCHANGED <<renamed, ghosts, kept, session>> =>
              \A n : Unmoved(n)' <=> Unmoved(n)
  BY DEF BeingOpened, Unlinking, Renaming, Unmoved, Stale

LEMMA NameStays ==
  ASSUME NEW n \in Names, session' = session, SameName(n), NameOk(n),
         Unlinking(n) => Unlinking(n)',
         BeingOpened(n) => dir[n] = None \/ BeingOpened(n)',
         ToCopy(n) => dir[n] = None \/ ToCopy(n)'
  PROVE  NameOk(n)'
<1>1. /\ dir'[n] = dir[n] /\ BackupOf(n)' = BackupOf(n)
      /\ dir[n] # None => data'[dir[n]] = data[dir[n]]
      /\ BackupOf(n) # Null => heap'.bdata[BackupOf(n)] = heap.bdata[BackupOf(n)]
  BY DEF SameName, BackupSame, BackupOf, Target
<1>2. dir[n] # None => Content(dir[n])' = Content(dir[n])
  BY <1>1 DEF Content
<1>3. GoneOk(n)'
  BY <1>1 DEF GoneOk, NameOk
<1>4. ContentOk(n)'
  BY <1>1, <1>2 DEF ContentOk, NameOk
<1>5. CoverOk(n)'
  <2> SUFFICES ASSUME dir[n] # None PROVE ToCopy(n)' \/ Fresh(n)' \/ Complete(n)'
    BY <1>1 DEF CoverOk
  <2>1. ToCopy(n) \/ Fresh(n) \/ Complete(n)
    BY DEF NameOk, CoverOk
  <2>2. Fresh(n) => Fresh(n)'
    BY <1>1 DEF Fresh
  <2>3. Complete(n) => Complete(n)'
    BY <1>1, <1>2 DEF Complete
  <2> QED BY <2>1, <2>2, <2>3
<1> QED BY <1>3, <1>4, <1>5 DEF NameOk

LEMMA WriteStays ==
  ASSUME NEW fd \in Fds, WriteOk(fd), \A n : Unmoved(n)' => Unmoved(n),
         map'[fd] # Null =>
           /\ map'[fd] = map[fd] /\ fds'[fd] = fds[fd] /\ fds[fd] # None
           /\ heap'.objects[map[fd]].name = NameOf(map[fd])
           /\ dir'[NameOf(map[fd])] \in {dir[NameOf(map[fd])], None}
           /\ Dest(heap, map[fd]) # NoDestination =>
                Dest(heap', map[fd]) # NoDestination
           /\ \A t \in Threads : call[t].fd = fd => call'[t].fd = fd
  PROVE  WriteOk(fd)'
<1> SUFFICES ASSUME map'[fd] # Null, fds'[fd] = dir[NameOf(map[fd])]',
                    \A t \in Threads : call'[t].fd # fd,
                    Unmoved(NameOf(map[fd]))'
             PROVE  Dest(heap', map'[fd]) # NoDestination
  BY DEF WriteOk, NameOf
<1>n. PICK n : n = NameOf(map[fd])
  OBVIOUS
<1>1. /\ map'[fd] = map[fd] /\ fds[fd] # None
      /\ heap'.objects[map[fd]].name = n
      /\ \A t \in Threads : call[t].fd # fd
  BY <1>n
<1>2. fds[fd] = dir'[n] /\ Unmoved(n)'
  BY <1>1 DEF NameOf, Unmoved, Renaming
<1>3. fds[fd] = dir[n] /\ Unmoved(n)
  BY <1>n, <1>1, <1>2
<1> QED BY <1>n, <1>1, <1>3 DEF WriteOk

LEMMA InodeStays ==
  ASSUME InodeInv, lastInode' = lastInode,
         \A n \in Names : dir'[n] \in {dir[n], None},
         \A fd \in Fds : fds'[fd] \in {fds[fd], None},
         \A i \in 1..MaxCalls : i > lastInode => data'[i] = data[i],
         \A fd \in Fds : fds'[fd] # None =>
           \/ /\ map'[fd] # Null /\ map'[fd] = map[fd]
              /\ heap'.objects[map[fd]].name = NameOf(map[fd])
           \/ map'[fd] = Null /\ \E t \in Threads : call'[t].fd = fd
           \/ /\ map'[fd] = Null /\ map[fd] = Null
              /\ \A t \in Threads : call[t].fd = fd => call'[t].fd = fd
           \/ \A n \in Names : fds[fd] # dir[n],
         \A t \in Threads : Opening(t)' =>
           /\ Opening(t) /\ call'[t].name = call[t].name
           /\ call'[t].fd = call[t].fd /\ call[t].fd \in Fds
           /\ fds'[call[t].fd] # None
  PROVE  InodeInv'
<1>1. /\ \A n \in Names : dir'[n] \in Known'
      /\ \A fd \in Fds : fds'[fd] \in Known'
  BY DEF InodeInv, Known
<1>2. \A i \in 1..MaxCalls : i > lastInode' => data'[i] = 0
  BY DEF InodeInv
<1>3. \A m, n \in Names : dir'[m] = dir'[n] /\ dir'[m] # None => m = n
  BY DEF InodeInv
<1>4. ASSUME NEW fd \in Fds, NEW n \in Names, fds'[fd] # None, fds'[fd] = dir'[n]
      PROVE  IF map'[fd] # Null THEN heap'.objects[map'[fd]].name = n
             ELSE \E t \in Threads : call'[t].fd = fd
  <2>1. fds[fd] # None /\ fds[fd] = dir[n]
    BY <1>4
  <2>2. IF map[fd] # Null THEN NameOf(map[fd]) = n
        ELSE \E t \in Threads : call[t].fd = fd
    BY <2>1 DEF InodeInv
  <2> QED BY <1>4, <2>1, <2>2
<1>5. ASSUME NEW t \in Threads, NEW n \in Names, Opening(t)',
             fds'[call'[t].fd] = dir'[n]
      PROVE  n = call'[t].name
  <2>1. /\ Opening(t) /\ call'[t].name = call[t].name /\ call[t].fd \in Fds
        /\ fds'[call[t].fd] # None /\ fds'[call[t].fd] = dir'[n]
    BY <1>5
  <2>2. fds[call[t].fd] = dir[n]
    BY <2>1
  <2> QED BY <2>1, <2>2 DEF InodeInv
<1> QED BY <1>1, <1>2, <1>3, <1>4, <1>5 DEF InodeInv, NameOf

LEMMA CopyingStays ==
  ASSUME CopyingInv, copying' = copying, \A n : Unmoved(n)' => Unmoved(n),
         cpc' \in {"open", "create", "data"} =>
           /\ cpc \in {"open", "create", "data"} /\ (cpc = "open" => cpc' = "open")
           /\ \A o \in Objects : o = copying.object =>
                /\ heap'.objects[o].name = NameOf(o)
                /\ heap.objects[o].unlinked => heap'.objects[o].unlinked
                /\ \A n \in Names : n = NameOf(o) =>
                     \/ heap'.objects[o].unlinked \/ cpc' = "open"
                     \/ Unlinking(n)' \/ ~Unmoved(n)'
                     \/ dir'[n] = dir[n] /\ ~Unlinking(n)
  PROVE  CopyingInv'
<1> SUFFICES ASSUME cpc' \in {"open", "create", "data"}, NEW o \in Objects,
                    NEW n \in Names, o = copying.object, n = heap'.objects[o].name
             PROVE  /\ n = copying.name \/ (~Unmoved(n)' /\ ~Unmoved(copying.name)')
                    /\ cpc' # "open" /\ Unmoved(n)' /\ ~heap'.objects[o].unlinked =>
                         copying.inode = dir'[n] \/ Unlinking(n)'
  BY DEF CopyingInv, NameOf, Unmoved, Renaming
<1>m. PICK m : m = copying.name
  OBVIOUS
<1>1. /\ n = NameOf(o) /\ cpc \in {"open", "create", "data"}
      /\ cpc = "open" => cpc' = "open"
  OBVIOUS
<1>2. n = m \/ (~Unmoved(n) /\ ~Unmoved(m))
  BY <1>m, <1>1 DEF CopyingInv
<1>3. n = m \/ (~Unmoved(n)' /\ ~Unmoved(m)')
  BY <1>2
<1>4. ASSUME cpc' # "open", Unmoved(n)', ~heap'.objects[o].unlinked
      PROVE  copying.inode = dir'[n] \/ Unlinking(n)'
  <2>1. cpc # "open" /\ Unmoved(n) /\ ~heap.objects[o].unlinked
    BY <1>1, <1>4
  <2>2. copying.inode = dir[n] \/ Unlinking(n)
    BY <1>1, <2>1 DEF CopyingInv
  <2>3. \/ heap'.objects[o].unlinked \/ cpc' = "open"
        \/ Unlinking(n)' \/ ~Unmoved(n)'
        \/ dir'[n] = dir[n] /\ ~Unlinking(n)
    BY <1>1
  <2> QED BY <1>4, <2>2, <2>3
<1>5. ~Unmoved(m)' => ~Unmoved(copying.name)'
  BY <1>m DEF Unmoved, Renaming
<1> QED BY <1>m, <1>3, <1>4, <1>5

LEMMA SessionParts ==
  ASSUME SessionInv, Healthy
  PROVE  DestInv /\ WriteInv /\ CopyingInv /\ NamesInv /\ StopInv
  BY DEF SessionInv

(* A step that makes no destination, and does not touch the source. *)
LEMMA QuietFiles ==
  ASSUME DestInv, NamesInv, Still(heap, heap'), dir' = dir, data' = data,
         session' = session,
         \A n : Unmoved(n)' => Unmoved(n),
         \A n : Unlinking(n) => Unlinking(n)',
         \A n \in Names : BeingOpened(n) => dir[n] = None \/ BeingOpened(n)',
         \A n \in Names : ToCopy(n) => dir[n] = None \/ ToCopy(n)'
  PROVE  DestInv' /\ NamesInv'
<1>1. /\ OnePath(heap, session) => OnePath(heap', session)
      /\ \A n : DestAgrees(heap, session, n) => DestAgrees(heap', session, n)
      /\ \A n : BackupSame(heap, heap', session, n)
  BY StillStep
<1>2. DestInv'
  BY <1>1 DEF DestInv
<1>3. ASSUME NEW n \in Names, Unmoved(n)' PROVE NameOk(n)'
  <2>1. Unmoved(n) /\ NameOk(n)
    BY <1>3 DEF NamesInv
  <2>2. SameName(n)
    BY <1>1 DEF SameName
  <2> QED BY <2>1, <2>2, NameStays
<1> QED BY <1>2, <1>3 DEF NamesInv

(* The names of what is open, while source_files only come and go. *)
LEMMA MappedNames ==
  ASSUME IInv, IInv', NamesStay(heap, heap'), NEW fd \in Fds, map[fd] # Null,
         map'[fd] = map[fd]
  PROVE  /\ map[fd] \in heap.live /\ map[fd] \in heap'.live /\ map[fd] \in Objects
         /\ heap'.objects[map[fd]].name = NameOf(map[fd])
         /\ heap'.objects[map[fd]].unlinked = heap.objects[map[fd]].unlinked
<1>1. InHandLive /\ InHandLive'
  BY InHand, InHandStays DEF IInv
<1>2. map[fd] \in heap.live /\ map[fd] \in heap'.live
  BY <1>1 DEF InHandLive
<1>3. map[fd] \in Objects
  BY <1>2, HeapFields DEF IInv
<1> QED BY <1>2, <1>3 DEF NamesStay, NameOf

LEMMA OpeningIs ==
  ASSUME IInv, NEW t \in Threads, Opening(t)
  PROVE  call[t].fd \in Fds /\ fds[call[t].fd] # None /\ call[t].name \in Names
  BY InvParts, CallFields DEF Opening, CallInv, CallOk, HoldsFd, OpenSteps

LEMMA CopierInode ==
  ASSUME IInv, IInv', InodeInv, NamesStay(heap, heap'),
         UNCHANGED <<dir, lastInode, data, fds, map, call>>
  PROVE  InodeInv'
<1>1. \A fd \in Fds : map[fd] # Null =>
        heap'.objects[map[fd]].name = NameOf(map[fd])
  BY MappedNames
<1>2. \A t \in Threads : Opening(t)' =>
        Opening(t) /\ call[t].fd \in Fds /\ fds[call[t].fd] # None
  BY OpeningIs DEF Opening
<1> QED BY <1>1, <1>2, InodeStays

LEMMA CopierWrites ==
  ASSUME IInv, IInv', WriteInv, NamesStay(heap, heap'),
         UNCHANGED <<dir, fds, map, call, renamed, ghosts, kept, session>>,
         \A fd \in Fds : map[fd] # Null /\ Dest(heap, map[fd]) # NoDestination =>
           Dest(heap', map[fd]) # NoDestination
  PROVE  WriteInv'
<1>1. \A n : Unmoved(n)' => Unmoved(n)
  BY SameCalls
<1>2. ASSUME NEW fd \in Fds PROVE WriteOk(fd)'
  <2>1. WriteOk(fd)
    BY DEF WriteInv
  <2>2. map[fd] # Null => /\ heap'.objects[map[fd]].name = NameOf(map[fd])
                          /\ fds[fd] # None
    BY MappedNames, InvParts DEF ApartInv
  <2> QED BY <1>1, <2>1, <2>2, WriteStays
<1> QED BY <1>2 DEF WriteInv

LEMMA QuietCopierStep ==
  ASSUME IInv, IInv', DataInv, Still(heap, heap'), NamesStay(heap, heap'),
         UNCHANGED <<dir, lastInode, data, fds, map, call, session, running,
                     renamed, wrong, ghosts, kept>>,
         \A fd \in Fds : map[fd] # Null =>
           Dest(heap', map[fd]) = Dest(heap, map[fd]),
         Healthy' => Healthy,
         Healthy' => \A n \in Names : ToCopy(n) => dir[n] = None \/ ToCopy(n)',
         Healthy' /\ CopyingInv => CopyingInv',
         Healthy' /\ StopInv => StopInv'
  PROVE  DataInv'
<1>1. InodeInv'
  BY CopierInode DEF DataInv
<1>2. ResultInv'
  BY DEF DataInv, ResultInv, Stale
<1>3. ASSUME Healthy'
      PROVE  DestInv' /\ WriteInv' /\ CopyingInv' /\ NamesInv' /\ StopInv'
  <2>1. DestInv /\ WriteInv /\ CopyingInv /\ NamesInv /\ StopInv
    BY <1>3, SessionParts DEF DataInv
  <2>2. /\ \A n : BeingOpened(n) => BeingOpened(n)'
        /\ \A n : Unlinking(n) => Unlinking(n)'
        /\ \A n : Unmoved(n)' => Unmoved(n)
    BY SameCalls
  <2>3. DestInv' /\ NamesInv'
    BY <1>3, <2>1, <2>2, QuietFiles
  <2>4. WriteInv'
    BY <2>1, CopierWrites
  <2> QED BY <1>3, <2>1, <2>3, <2>4
<1> QED BY <1>1, <1>2, <1>3 DEF DataInv, SessionInv

----------------------------------------------------------------------------
(*                      What the copier has got hold of                    *)

LEMMA ListDirectoryKeepsData ==
  ASSUME IInv, IInv', DataInv, ListDirectory PROVE DataInv'
<1>1. /\ cpc = "list" /\ cpc' = "next" /\ heap' = heap
      /\ todo' = todo \cup {n \in Names : dir[n] # None}
      /\ UNCHANGED <<dir, lastInode, data, fds, map, call, session, running,
                     failed, renamed, wrong, ghosts, kept>>
  BY DEF ListDirectory, sourceVars
<1>2. Still(heap, heap') /\ NamesStay(heap, heap')
  BY <1>1, InvParts, SameHeapIsStill, SameHeapIsQuiet, IdentityKeepsNames
<1>3. Healthy' => Healthy
  BY <1>1 DEF Healthy
<1>4. \A n \in Names : ToCopy(n) => dir[n] = None \/ ToCopy(n)'
  BY <1>1 DEF ToCopy
<1>5. CopyingInv' /\ StopInv'
  BY <1>1 DEF CopyingInv, StopInv
<1>6. \A fd \in Fds : map[fd] # Null => Dest(heap', map[fd]) = Dest(heap, map[fd])
  BY <1>1
<1> QED BY <1>1, <1>2, <1>3, <1>4, <1>5, <1>6, QuietCopierStep

LEMMA CopyNextKeepsData ==
  ASSUME IInv, IInv', DataInv, CopyNext PROVE DataInv'
<1>1. /\ cpc = "next" /\ heap' = heap
      /\ UNCHANGED <<dir, lastInode, data, fds, map, call, session, running,
                     failed, renamed, wrong, ghosts, kept>>
      /\ cpc' \in {"stop", "next", "lookup"}
      /\ cpc' = "stop" => failed \/ (todo = {} /\ todo' = {})
  BY DEF CopyNext, sourceVars
<1>2. Still(heap, heap') /\ NamesStay(heap, heap')
  BY <1>1, InvParts, SameHeapIsStill, SameHeapIsQuiet, IdentityKeepsNames
<1>3. Healthy' => Healthy /\ ~failed
  BY <1>1 DEF Healthy
<1>4. ASSUME Healthy', NEW n \in Names, ToCopy(n), dir[n] # None PROVE ToCopy(n)'
  <2>1. n \in todo /\ cpc' # "stop"
    BY <1>1, <1>3, <1>4 DEF ToCopy
  <2>2. PICK m \in todo :
          /\ todo' = todo \ {m}
          /\ IF m = Elsewhere \/ dir[m] = None THEN UNCHANGED <<cpc, copying>>
             ELSE /\ cpc' = "lookup"
                  /\ copying' = [copying EXCEPT !.name = m]
    BY <2>1 DEF CopyNext
  <2>3. CASE n = m
    <3>1. n # Elsewhere
      BY FileTableAssumption DEF Elsewhere
    <3>2. cpc' = "lookup" /\ copying' = [copying EXCEPT !.name = n]
      BY <1>4, <2>2, <2>3, <3>1
    <3>3. copying'.name = n
      BY <3>2, InvParts DEF TypeInv
    <3> QED BY <3>2, <3>3 DEF ToCopy
  <2>4. CASE n # m
    BY <2>1, <2>2, <2>4 DEF ToCopy
  <2> QED BY <2>3, <2>4
<1>5. Healthy' => CopyingInv' /\ StopInv'
  BY <1>1, <1>3 DEF CopyingInv, StopInv
<1>6. \A fd \in Fds : map[fd] # Null => Dest(heap', map[fd]) = Dest(heap, map[fd])
  BY <1>1
<1> QED BY <1>1, <1>2, <1>3, <1>4, <1>5, <1>6, QuietCopierStep

LEMMA CopyOpenSourceKeepsData ==
  ASSUME IInv, IInv', DataInv, CopyOpenSource PROVE DataInv'
<1>1. /\ cpc = "open" /\ heap' = heap
      /\ copying' = [copying EXCEPT !.inode = dir[copying.name]]
      /\ cpc' = IF dir[copying.name] = None THEN "release" ELSE "create"
      /\ UNCHANGED <<dir, lastInode, data, fds, map, call, session, running,
                     todo, failed, renamed, wrong, ghosts, kept>>
  BY DEF CopyOpenSource, CopierVarsUnchanged, sourceVars
<1>c. /\ copying'.object = copying.object /\ copying'.name = copying.name
      /\ copying'.inode = dir[copying.name]
  BY <1>1, InvParts DEF TypeInv
<1>2. Still(heap, heap') /\ NamesStay(heap, heap')
  BY <1>1, InvParts, SameHeapIsStill, SameHeapIsQuiet, IdentityKeepsNames
<1>3. Healthy' => Healthy
  BY <1>1 DEF Healthy
<1>4. \A n \in Names : ToCopy(n) => dir[n] = None \/ ToCopy(n)'
  BY <1>1, <1>c DEF ToCopy
<1>m. PICK m : m = copying.name
  OBVIOUS
<1>5. ASSUME CopyingInv PROVE CopyingInv'
  <2> SUFFICES ASSUME NEW o \in Objects, NEW n \in Names, o = copying.object,
                      n = NameOf(o), cpc' = "create"
               PROVE  /\ n = m \/ (~Unmoved(n)' /\ ~Unmoved(m)')
                      /\ Unmoved(n)' => dir[m] = dir[n]
    BY <1>1, <1>c, <1>m DEF CopyingInv, NameOf, Unmoved, Renaming
  <2>1. n = m \/ (~Unmoved(n) /\ ~Unmoved(m))
    BY <1>1, <1>5, <1>m DEF CopyingInv
  <2>2. \A k : Unmoved(k)' <=> Unmoved(k)
    BY <1>1, SameCalls
  <2> QED BY <2>1, <2>2
<1>s. StopInv'
  BY <1>1 DEF StopInv
<1>6. \A fd \in Fds : map[fd] # Null => Dest(heap', map[fd]) = Dest(heap, map[fd])
  BY <1>1
<1> QED BY <1>1, <1>2, <1>3, <1>4, <1>5, <1>s, <1>6, QuietCopierStep

LEMMA CopyLookupKeepsData ==
  ASSUME IInv, IInv', DataInv, EnoughObjects, CopyLookup PROVE DataInv'
<1>1. /\ cpc = "lookup" /\ cpc' = "open" /\ heap' = GetOrCreate(heap, copying.name)
      /\ copying' = [copying EXCEPT !.object = Lookup(heap', copying.name)]
      /\ UNCHANGED <<dir, lastInode, data, fds, map, call, session, running,
                     todo, failed, renamed, wrong, ghosts, kept>>
  BY DEF CopyLookup, CopierVarsUnchanged, sourceVars
<1>2. /\ copying.name \in Names /\ copying.object = Null
      /\ copying \in [name : Names \cup {NoName}, object : Objects \cup {Null},
                      inode : Inodes \cup {None}]
  BY <1>1, InvParts DEF CopierInv, CopierHolds, TypeInv
<1>3. heap.live # Objects
  <2>1. <<"copier">> \in Actors /\ \A p \in Objects : <<"copier">> \notin Users(p)
    BY <1>2, UserIs, NullIsNoObject DEF Actors
  <2> QED BY <2>1, InvParts, RoomForOne
<1>n. PICK n \in Names : n = copying.name
  BY <1>2
<1>4. PICK o \in Objects : Takes(heap, heap', n, o)
  <2>1. heap' = GetOrCreate(heap, n)
    BY <1>1, <1>n
  <2> QED BY <1>3, <2>1, InvParts, GetOrCreateTakes
<1>5. copying'.object = o /\ copying'.name = n
  <2>1. Lookup(heap', n) = o
    BY <1>4 DEF Takes
  <2>2. copying' = [copying EXCEPT !.object = o]
    BY <1>1, <1>n, <2>1
  <2> QED BY <1>2, <1>n, <2>2
<1>6. /\ NamesStay(heap, heap') /\ NoNewDestination(heap, heap')
      /\ heap'.objects[o].name = n
      /\ \A p \in heap.live : Dest(heap', p) = Dest(heap, p)
  BY <1>4 DEF Takes
<1>7. Still(heap, heap')
  BY <1>6, QuietNamesAreStill
<1>8. Healthy' => Healthy
  BY <1>1 DEF Healthy
<1>9. \A k \in Names : ToCopy(k) => dir[k] = None \/ ToCopy(k)'
  BY <1>1, <1>n, <1>5 DEF ToCopy
<1>10. CopyingInv' /\ StopInv'
  BY <1>1, <1>5, <1>6 DEF CopyingInv, StopInv, NameOf
<1>11. \A fd \in Fds : map[fd] # Null => Dest(heap', map[fd]) = Dest(heap, map[fd])
  BY <1>6, InvParts, InHandIsLive
<1> QED BY <1>1, <1>6, <1>7, <1>8, <1>9, <1>10, <1>11, QuietCopierStep

LEMMA CopyRemoveDestinationKeepsData ==
  ASSUME IInv, IInv', DataInv, CopyRemoveDestination PROVE DataInv'
<1>1. /\ cpc = "close" /\ cpc' = "release"
      /\ heap' = TryToRemoveDestination(heap, copying.object)
      /\ UNCHANGED <<dir, lastInode, data, fds, map, call, session, running,
                     todo, failed, copying, renamed, wrong, ghosts, kept>>
  BY DEF CopyRemoveDestination, CopierVarsUnchanged, sourceVars
<1>o. PICK o \in heap.live : o = copying.object /\ o \in Objects
  BY <1>1, InvParts, InHandIsLive DEF CopierInv, CopierHolds
<1>2. /\ SameIdentity(heap, heap') /\ NoNewDestination(heap, heap')
      /\ OnlyObject(heap, heap', o)
      /\ heap.objects[o].refs > 1 => Dest(heap', o) = Dest(heap, o)
  BY <1>1, <1>o, InvParts, TryToRemoveDestinationIsQuiet
<1>3. NamesStay(heap, heap') /\ Still(heap, heap')
  BY <1>2, InvParts, IdentityKeepsNames, QuietNamesAreStill
<1>4. Healthy' => Healthy
  BY <1>1 DEF Healthy
<1>5. \A n \in Names : ToCopy(n) => dir[n] = None \/ ToCopy(n)'
  BY <1>1 DEF ToCopy
<1>6. CopyingInv' /\ StopInv'
  BY <1>1 DEF CopyingInv, StopInv
<1>7. ASSUME NEW fd \in Fds, map[fd] # Null
      PROVE  Dest(heap', map[fd]) = Dest(heap, map[fd])
  <2>1. map[fd] \in Objects
    BY <1>7, InvParts, InHandIsLive
  <2>2. CASE map[fd] = o
    <3>1. /\ <<"copier">> \in Users(o) /\ <<"fd", fd>> \in Users(o)
          /\ <<"copier">> # <<"fd", fd>>
      BY <1>o, <2>2, UserIs
    <3>2. heap.objects[o].refs > 1
      BY <1>o, <3>1, InvParts, UsedIsLive
    <3> QED BY <1>2, <2>2, <3>2
  <2>3. CASE map[fd] # o
    BY <1>2, <2>1, <2>3 DEF OnlyObject, Dest
  <2> QED BY <2>2, <2>3
<1> QED BY <1>1, <1>3, <1>4, <1>5, <1>6, <1>7, QuietCopierStep

LEMMA CopyReleaseKeepsData ==
  ASSUME IInv, IInv', DataInv, CopyRelease PROVE DataInv'
<1>1. /\ cpc \in {"release", "give up"} /\ heap' = TryToRemove(heap, copying.object)
      /\ failed' = (failed \/ cpc = "give up")
      /\ cpc' = IF cpc = "release" THEN "next" ELSE "stop"
      /\ UNCHANGED <<dir, lastInode, data, fds, map, call, session, running,
                     todo, renamed, wrong, ghosts, kept>>
  BY DEF CopyRelease, CopierVarsUnchanged, sourceVars
<1>o. PICK o \in Objects : o = copying.object
  BY <1>1, InvParts DEF CopierInv, CopierHolds, TypeInv
<1>2. Returns(heap, heap', o)
  <2>1. heap' = TryToRemove(heap, o) /\ <<"copier">> \in Users(o)
    BY <1>1, <1>o, UserIs
  <2> QED BY <2>1, InvParts, TryToRemoveReturns
<1>3. /\ NamesStay(heap, heap') /\ NoNewDestination(heap, heap')
      /\ \A p \in heap'.live : Dest(heap', p) = Dest(heap, p)
  BY <1>2 DEF Returns
<1>4. Still(heap, heap')
  BY <1>3, QuietNamesAreStill
<1>5. Healthy' => Healthy
  BY <1>1 DEF Healthy
<1>6. \A n \in Names : ToCopy(n) => dir[n] = None \/ ToCopy(n)'
  BY <1>1 DEF ToCopy
<1>7. Healthy' => CopyingInv' /\ StopInv'
  BY <1>1 DEF CopyingInv, StopInv, Healthy
<1>8. \A fd \in Fds : map[fd] # Null => Dest(heap', map[fd]) = Dest(heap, map[fd])
  BY <1>1, <1>3, MappedNames
<1> QED BY <1>1, <1>3, <1>4, <1>5, <1>6, <1>7, <1>8, QuietCopierStep

----------------------------------------------------------------------------
(*                      What the calls do to the backup                    *)

LEMMA CallCopying ==
  ASSUME IInv, IInv', CopyingInv, NamesStay(heap, heap'),
         cpc' = cpc, copying' = copying,
         \A n : Unmoved(n)' => Unmoved(n),
         \A n \in Names : Steady(n) \/ ~Unmoved(n)'
  PROVE  CopyingInv'
<1>1. ASSUME cpc \in {"open", "create", "data"}, NEW o \in Objects, o = copying.object
      PROVE  /\ heap'.objects[o].name = NameOf(o)
             /\ heap.objects[o].unlinked => heap'.objects[o].unlinked
  <2>1. o # Null
    BY NullIsNoObject
  <2>2. InHandLive /\ InHandLive'
    BY InHand, InHandStays DEF IInv
  <2>3. o \in heap.live /\ o \in heap'.live
    BY <1>1, <2>1, <2>2 DEF InHandLive
  <2> QED BY <2>3 DEF NamesStay, NameOf
<1> QED BY <1>1, CopyingStays DEF Steady

LEMMA CallWrites ==
  ASSUME IInv, IInv', WriteInv, NamesStay(heap, heap'),
         \A n : Unmoved(n)' => Unmoved(n),
         \A fd \in Fds : map'[fd] # Null =>
           \/ /\ map'[fd] = map[fd] /\ fds'[fd] = fds[fd]
              /\ dir'[NameOf(map[fd])] \in {dir[NameOf(map[fd])], None}
              /\ Dest(heap, map[fd]) # NoDestination =>
                   Dest(heap', map[fd]) # NoDestination
              /\ \A t \in Threads : call[t].fd = fd => call'[t].fd = fd
           \/ \E t \in Threads : call'[t].fd = fd
           \/ WriteOk(fd)'
  PROVE  WriteInv'
<1> SUFFICES ASSUME NEW fd \in Fds PROVE WriteOk(fd)'
  BY DEF WriteInv
<1>1. CASE map'[fd] = Null \/ \E t \in Threads : call'[t].fd = fd
  BY <1>1 DEF WriteOk
<1>2. CASE /\ map'[fd] # Null
           /\ map'[fd] = map[fd] /\ fds'[fd] = fds[fd]
           /\ dir'[NameOf(map[fd])] \in {dir[NameOf(map[fd])], None}
           /\ Dest(heap, map[fd]) # NoDestination =>
                Dest(heap', map[fd]) # NoDestination
           /\ \A t \in Threads : call[t].fd = fd => call'[t].fd = fd
  <2>1. /\ heap'.objects[map[fd]].name = NameOf(map[fd])
        /\ fds[fd] # None
    BY <1>2, MappedNames, InvParts DEF ApartInv
  <2>2. WriteOk(fd)
    BY DEF WriteInv
  <2> QED BY <1>2, <2>1, <2>2, WriteStays
<1> QED BY <1>1, <1>2

(* A step of a call that makes no destination, and leaves the source alone. *)
LEMMA QuietCallStep ==
  ASSUME IInv, IInv', DataInv, NEW t \in Threads, OthersWait(t),
         Still(heap, heap'), NamesStay(heap, heap'),
         UNCHANGED <<dir, data, session, running, cpc, copying, todo, renamed,
                     wrong, kept>>,
         ghosts \subseteq ghosts', call[t].at # "rename capture",
         call[t].at \in UnlinkSteps =>
           call'[t].at \in UnlinkSteps /\ call'[t].name = call[t].name,
         Healthy' => Healthy,
         Healthy' => \A n \in Names : BeingOpened(n) => dir[n] = None \/ BeingOpened(n)',
         InodeInv', Healthy' /\ WriteInv => WriteInv'
  PROVE  DataInv'
<1>1. ResultInv'
  BY DEF DataInv, ResultInv, Stale
<1>2. ASSUME Healthy'
      PROVE  DestInv' /\ WriteInv' /\ CopyingInv' /\ NamesInv' /\ StopInv'
  <2>1. DestInv /\ WriteInv /\ CopyingInv /\ NamesInv /\ StopInv
    BY <1>2, SessionParts DEF DataInv
  <2>2. \A n : Unlinking(n) => Unlinking(n)'
    BY UnlinkingGoesOn
  <2>3. \A n : Unmoved(n)' => Unmoved(n)
    BY UnmovedBefore
  <2>4. \A n : Steady(n)
    BY UnlinkingStays DEF UnlinkSteps
  <2>5. CopyingInv'
    BY <2>1, <2>3, <2>4, CallCopying
  <2>6. \A n \in Names : ToCopy(n) => ToCopy(n)'
    BY DEF ToCopy
  <2>7. DestInv' /\ NamesInv'
    BY <1>2, <2>1, <2>2, <2>3, <2>6, QuietFiles
  <2>8. StopInv'
    BY <2>1 DEF StopInv
  <2> QED BY <1>2, <2>1, <2>5, <2>7, <2>8
<1> QED BY <1>1, <1>2 DEF DataInv, SessionInv

(* What a call leaves open keeps its source_file. *)
LEMMA CallInode ==
  ASSUME IInv, IInv', InodeInv, NamesStay(heap, heap'), NEW t \in Threads, OthersWait(t),
         lastInode' = lastInode,
         \A n \in Names : dir'[n] \in {dir[n], None},
         \A fd \in Fds : fds'[fd] \in {fds[fd], None},
         \A i \in 1..MaxCalls : i > lastInode => data'[i] = data[i],
         \A fd \in Fds : fds'[fd] # None =>
           \/ map'[fd] # Null /\ map'[fd] = map[fd]
           \/ map'[fd] = Null /\ call'[t].fd = fd
           \/ map'[fd] = Null /\ map[fd] = Null /\ (call[t].fd = fd => call'[t].fd = fd)
           \/ \A n \in Names : fds[fd] # dir[n],
         Opening(t)' => /\ Opening(t) /\ call'[t].name = call[t].name
                        /\ call'[t].fd = call[t].fd,
         \A fd \in Fds : fds'[fd] # fds[fd] => \A u \in Threads \ {t} : call[u].fd # fd
  PROVE  InodeInv'
<1>1. \A fd \in Fds : map[fd] # Null /\ map'[fd] = map[fd] =>
        heap'.objects[map[fd]].name = NameOf(map[fd])
  BY MappedNames
<1>2. ASSUME NEW u \in Threads, Opening(u)'
      PROVE  /\ Opening(u) /\ call'[u].name = call[u].name
             /\ call'[u].fd = call[u].fd /\ call[u].fd \in Fds
             /\ fds'[call[u].fd] # None
  <2>1. /\ Opening(u) /\ call'[u].name = call[u].name /\ call'[u].fd = call[u].fd
    BY <1>2 DEF OthersWait, Opening
  <2>2. call[u].fd \in Fds
    BY <2>1, OpeningIs
  <2>3. fds'[call'[u].fd] # None
    <3>1. CallOk(u)'
      BY DEF IInv, CallInv
    <3>2. call'[u].at \in HoldsFd
      BY <1>2 DEF Opening, HoldsFd, OpenSteps
    <3> QED BY <3>1, <3>2 DEF CallOk
  <2> QED BY <2>1, <2>2, <2>3
<1>3. ASSUME NEW fd \in Fds, fds'[fd] # None
      PROVE  \/ /\ map'[fd] # Null /\ map'[fd] = map[fd]
                /\ heap'.objects[map[fd]].name = NameOf(map[fd])
             \/ map'[fd] = Null /\ \E u \in Threads : call'[u].fd = fd
             \/ /\ map'[fd] = Null /\ map[fd] = Null
                /\ \A u \in Threads : call[u].fd = fd => call'[u].fd = fd
             \/ \A n \in Names : fds[fd] # dir[n]
  BY <1>1, <1>3 DEF OthersWait
<1> QED BY <1>2, <1>3, InodeStays

LEMMA OnlyCallOf ==
  ASSUME IInv, NEW t \in Threads, NEW fd \in Fds, call[t].fd = fd
  PROVE  \A u \in Threads \ {t} : call[u].fd # fd
  BY InvParts, NoDescriptorIsZero DEF ApartInv

LEMMA OpenRealpathKeepsData ==
  ASSUME IInv, IInv', DataInv, NEW t \in Threads, OpenRealpath(t)
  PROVE  DataInv'
<1>0. /\ call[t].at = "open realpath" /\ call[t].fd \in Fds /\ call[t].name \in Names
      /\ call[t].object = Null /\ map[call[t].fd] = Null /\ fds[call[t].fd] # None
  BY InvParts, CallFields
     DEF CallInv, CallOk, HoldsFd, OpenSteps, HoldsObject, OpenRealpath
<1>n. PICK n \in Names : n = call[t].name
  BY <1>0
<1>fd. PICK fd \in Fds : fd = call[t].fd
  BY <1>0
<1>1. UNCHANGED <<dir, lastInode, data, fds, map, heap, session, running, cpc,
                  copying, todo, renamed, wrong, ghosts, kept>>
  BY DEF OpenRealpath, sourceVars, sessionVars
<1>2. \/ dir[n] = None /\ Return(t) /\ failed' = (failed \/ running)
      \/ dir[n] # None /\ Proceed(t, "open table", Null) /\ failed' = failed
  BY <1>n DEF OpenRealpath, Fail
<1>i. InodeInv
  BY DEF DataInv
<1>s. Still(heap, heap') /\ NamesStay(heap, heap')
  BY <1>1, InvParts, SameHeapIsStill, SameHeapIsQuiet, IdentityKeepsNames
<1>a. call[t].at # "rename capture" /\ call[t].at \notin UnlinkSteps
  BY <1>0 DEF UnlinkSteps
<1>3. CASE dir[n] = None /\ Return(t) /\ failed' = (failed \/ running)
  <2>1. OthersWait(t) /\ call'[t] = Idle
    BY <1>3, InvParts, ReturnIs
  <2>2. ~Healthy'
    BY <1>1, <1>3 DEF Healthy
  <2>3. \A m \in Names : fds[fd] # dir[m]
    BY <1>0, <1>3, <1>n, <1>fd, <1>i DEF InodeInv, Opening
  <2>4. InodeInv'
    <3>1. ASSUME NEW gd \in Fds
          PROVE  \/ map'[gd] # Null /\ map'[gd] = map[gd]
                 \/ map'[gd] = Null /\ map[gd] = Null /\ (call[t].fd = gd => call'[t].fd = gd)
                 \/ \A m \in Names : fds[gd] # dir[m]
      BY <1>1, <1>fd, <2>3
    <3>2. ~Opening(t)'
      BY <2>1, IdleIs DEF Opening
    <3> QED BY <1>1, <1>i, <1>s, <2>1, <3>1, <3>2, CallInode
  <2> QED BY <1>1, <1>a, <1>s, <2>1, <2>2, <2>4, QuietCallStep
<1>4. CASE dir[n] # None /\ Proceed(t, "open table", Null) /\ failed' = failed
  <2>1. /\ OthersWait(t) /\ call'[t].at = "open table" /\ call'[t].name = call[t].name
        /\ call'[t].fd = call[t].fd
    <3>1. "open table" \in Steps
      BY DEF Steps, HoldsFd, OpenSteps
    <3> QED BY <1>4, <3>1, InvParts, ProceedIs
  <2>2. Healthy' => Healthy
    BY <1>1, <1>4 DEF Healthy
  <2>3. InodeInv'
    <3>1. Opening(t)
      BY <1>0 DEF Opening
    <3> QED BY <1>1, <1>i, <1>s, <2>1, <3>1, CallInode
  <2>4. call'[t].at \in OpenSteps
    BY <2>1 DEF OpenSteps
  <2>5. \A m : BeingOpened(m) => BeingOpened(m)'
    BY <2>1, <2>4, BeingOpenedStays
  <2>6. ASSUME WriteInv PROVE WriteInv'
    <3>1. \A m : Unmoved(m)' => Unmoved(m)
      BY <1>0, <1>1, <2>1, UnmovedBefore
    <3>2. \A u \in Threads : call'[u].fd = call[u].fd
      BY <2>1 DEF OthersWait
    <3> QED BY <1>1, <1>s, <2>6, <3>1, <3>2, CallWrites
  <2> QED BY <1>1, <1>a, <1>s, <2>1, <2>2, <2>3, <2>5, <2>6, QuietCallStep
<1> QED BY <1>2, <1>3, <1>4

LEMMA OpenTableKeepsData ==
  ASSUME IInv, IInv', DataInv, EnoughObjects, NEW t \in Threads, OpenTable(t)
  PROVE  DataInv'
<1>0. /\ call[t].at = "open table" /\ call[t].name \in Names
      /\ call[t].object = Null
  BY InvParts, CallFields
     DEF CallInv, CallOk, HoldsFd, OpenSteps, HoldsObject, OpenTable
<1>n. PICK n \in Names : n = call[t].name
  BY <1>0
<1>1. /\ UNCHANGED <<dir, lastInode, data, fds, map, session, running, failed,
                     cpc, copying, todo, renamed, wrong, kept>>
      /\ ghosts \subseteq ghosts' /\ heap' = GetOrCreate(heap, n)
      /\ Proceed(t, "open map", Lookup(heap', n))
  BY <1>n DEF OpenTable, sourceVars, sessionVars
<1>i. InodeInv
  BY DEF DataInv
<1>o. PICK o \in Objects : Takes(heap, heap', n, o)
  BY <1>0, <1>1, CallLooksUp
<1>t. /\ NoNewDestination(heap, heap') /\ NamesStay(heap, heap')
      /\ \A p \in heap.live : Dest(heap', p) = Dest(heap, p)
      /\ o = Lookup(heap', n)
  BY <1>o DEF Takes
<1>2. /\ OthersWait(t) /\ call'[t].at = "open map" /\ call'[t].name = call[t].name
      /\ call'[t].fd = call[t].fd
  <2>1. Proceed(t, "open map", o) /\ "open map" \in Steps
    BY <1>1, <1>t DEF Steps, HoldsFd, OpenSteps
  <2> QED BY <2>1, InvParts, ProceedIs
<1>3. Healthy' => Healthy
  BY <1>1 DEF Healthy
<1>4. Still(heap, heap')
  BY <1>t, QuietNamesAreStill
<1>5. InodeInv'
  <2>1. Opening(t)
    BY <1>0 DEF Opening
  <2> QED BY <1>1, <1>i, <1>2, <1>t, <2>1, CallInode
<1>6. /\ call[t].at # "rename capture" /\ call[t].at \notin UnlinkSteps
      /\ call'[t].at \in OpenSteps
  BY <1>0, <1>2 DEF UnlinkSteps, OpenSteps
<1>7. \A m : BeingOpened(m) => BeingOpened(m)'
  BY <1>2, <1>6, BeingOpenedStays
<1>8. ASSUME WriteInv PROVE WriteInv'
  <2>1. \A gd \in Fds : map[gd] # Null => Dest(heap', map[gd]) = Dest(heap, map[gd])
    BY <1>t, InvParts, InHandIsLive
  <2>2. \A m : Unmoved(m)' => Unmoved(m)
    BY <1>0, <1>1, <1>2, UnmovedBefore
  <2>3. \A u \in Threads : call'[u].fd = call[u].fd
    BY <1>2 DEF OthersWait
  <2> QED BY <1>1, <1>8, <1>t, <2>1, <2>2, <2>3, CallWrites
<1> QED BY <1>1, <1>2, <1>3, <1>4, <1>t, <1>5, <1>6, <1>7, <1>8, QuietCallStep

LEMMA OpenMapKeepsData ==
  ASSUME IInv, IInv', DataInv, NEW t \in Threads, OpenMap(t)
  PROVE  DataInv'
<1>1. /\ call[t].at = "open map" /\ map' = [map EXCEPT ![call[t].fd] = call[t].object]
      /\ Proceed(t, "open capture", Null) /\ heap' = heap
      /\ UNCHANGED <<dir, lastInode, data, fds, session, running, failed, cpc,
                     copying, todo, renamed, wrong, ghosts, kept>>
  BY DEF OpenMap, sourceVars, sessionVars
<1>2. /\ OthersWait(t) /\ call'[t].at = "open capture"
      /\ call'[t].name = call[t].name /\ call'[t].fd = call[t].fd
  BY <1>1, InvParts, ProceedIs DEF Steps, HoldsFd, OpenSteps
<1>3. /\ call[t].fd \in Fds /\ call[t].object \in Objects /\ call[t].name \in Names
      /\ fds[call[t].fd] # None /\ NameOf(call[t].object) = call[t].name
      /\ map \in [Fds -> Objects \cup {Null}]
  BY <1>1, InvParts, CallFields DEF CallInv, CallOk, HoldsFd, OpenSteps, HoldsObject, TypeInv
<1>fd. PICK fd \in Fds : fd = call[t].fd
  BY <1>3
<1>o. PICK o \in Objects : o = call[t].object /\ NameOf(o) = call[t].name
  BY <1>3
<1>4. map'[fd] = o /\ \A gd \in Fds \ {fd} : map'[gd] = map[gd]
  BY <1>1, <1>3, <1>fd, <1>o
<1>i. InodeInv
  BY DEF DataInv
<1>5. Still(heap, heap') /\ NamesStay(heap, heap')
  BY <1>1, InvParts, SameHeapIsStill, SameHeapIsQuiet, IdentityKeepsNames
<1>6. Healthy' => Healthy
  BY <1>1 DEF Healthy
<1>7. InodeInv'
  <2>1. /\ \A n \in Names : dir'[n] \in Known'
        /\ \A gd \in Fds : fds'[gd] \in Known'
        /\ \A i \in 1..MaxCalls : i > lastInode' => data'[i] = 0
        /\ \A m, n \in Names : dir'[m] = dir'[n] /\ dir'[m] # None => m = n
    BY <1>1, <1>i DEF InodeInv, Known
  <2>2. ASSUME NEW gd \in Fds, NEW n \in Names, fds'[gd] # None, fds'[gd] = dir'[n]
        PROVE  IF map'[gd] # Null THEN NameOf(map[gd])' = n \/ heap'.objects[map'[gd]].name = n
               ELSE \E u \in Threads : call'[u].fd = gd
    <3>1. CASE gd = fd
      <4>1. n = call[t].name
        BY <1>1, <1>fd, <1>i, <2>2, <3>1 DEF InodeInv, Opening
      <4> QED BY <1>1, <1>4, <1>o, <3>1, <4>1, NullIsNoObject DEF NameOf
    <3>2. CASE gd # fd
      <4>1. IF map[gd] # Null THEN NameOf(map[gd]) = n
            ELSE \E u \in Threads : call[u].fd = gd
        BY <1>1, <1>i, <2>2 DEF InodeInv
      <4>2. \A u \in Threads : call'[u].fd = call[u].fd
        BY <1>2 DEF OthersWait
      <4> QED BY <1>1, <1>4, <3>2, <4>1, <4>2 DEF NameOf
    <3> QED BY <3>1, <3>2
  <2>3. ASSUME NEW u \in Threads, NEW n \in Names, Opening(u)',
               fds'[call'[u].fd] = dir'[n]
        PROVE  n = call'[u].name
    <3>1. /\ Opening(u) /\ call'[u].name = call[u].name /\ call'[u].fd = call[u].fd
      BY <1>1, <1>2, <2>3 DEF OthersWait, Opening
    <3> QED BY <1>1, <1>i, <2>3, <3>1 DEF InodeInv
  <2> QED BY <2>1, <2>2, <2>3 DEF InodeInv, NameOf
<1>8. /\ call[t].at # "rename capture" /\ call[t].at \notin UnlinkSteps
      /\ call'[t].at \in OpenSteps
  BY <1>1, <1>2 DEF UnlinkSteps, OpenSteps
<1>9. \A m : BeingOpened(m) => BeingOpened(m)'
  BY <1>2, <1>8, BeingOpenedStays
<1>10. ASSUME WriteInv PROVE WriteInv'
  <2>1. \A m : Unmoved(m)' => Unmoved(m)
    BY <1>1, <1>2, <1>8, UnmovedBefore
  <2>2. \A u \in Threads : call'[u].fd = call[u].fd
    BY <1>2 DEF OthersWait
  <2>3. \A gd \in Fds : gd = fd => \E u \in Threads : call'[u].fd = gd
    BY <1>2, <1>fd
  <2>4. \A gd \in Fds \ {fd} : map'[gd] = map[gd]
    BY <1>4
  <2> QED BY <1>1, <1>5, <1>10, <2>1, <2>2, <2>3, <2>4, CallWrites
<1> QED BY <1>1, <1>2, <1>5, <1>6, <1>7, <1>8, <1>9, <1>10, QuietCallStep

LEMMA UnlinkTableKeepsData ==
  ASSUME IInv, IInv', DataInv, EnoughObjects, NEW t \in Threads, UnlinkTable(t)
  PROVE  DataInv'
<1>0. /\ call[t].at = "unlink table" /\ call[t].name \in Names /\ call[t].object = Null
  BY InvParts, CallFields DEF CallInv, CallOk, HoldsObject, Locks, UnlinkTable
<1>n. PICK n \in Names : n = call[t].name
  BY <1>0
<1>1. /\ heap' = GetOrCreate(heap, n) /\ Proceed(t, "unlink capture", Lookup(heap', n))
      /\ UNCHANGED <<dir, lastInode, data, fds, map, session, running, failed,
                     cpc, copying, todo, renamed, wrong, ghosts, kept>>
  BY <1>n DEF UnlinkTable, sourceVars, sessionVars
<1>i. InodeInv
  BY DEF DataInv
<1>o. PICK o \in Objects : Takes(heap, heap', n, o)
  BY <1>0, <1>1, CallLooksUp
<1>t. /\ NoNewDestination(heap, heap') /\ NamesStay(heap, heap')
      /\ \A p \in heap.live : Dest(heap', p) = Dest(heap, p)
      /\ o = Lookup(heap', n)
  BY <1>o DEF Takes
<1>2. /\ OthersWait(t) /\ call'[t].at = "unlink capture" /\ call'[t].name = call[t].name
      /\ call'[t].fd = call[t].fd
  <2>1. Proceed(t, "unlink capture", o) /\ "unlink capture" \in Steps
    BY <1>1, <1>t DEF Steps, Locks
  <2> QED BY <2>1, InvParts, ProceedIs
<1>3. Healthy' => Healthy
  BY <1>1 DEF Healthy
<1>4. Still(heap, heap')
  BY <1>t, QuietNamesAreStill
<1>5. /\ call[t].at \notin OpenSteps /\ call[t].at # "rename capture"
      /\ call'[t].at \in UnlinkSteps
  BY <1>0, <1>2 DEF OpenSteps, UnlinkSteps
<1>6. \A m : BeingOpened(m) => BeingOpened(m)'
  BY <1>2, <1>5, BeingOpenedStays
<1>7. InodeInv'
  <2>1. ~Opening(t)'
    BY <1>2 DEF Opening
  <2> QED BY <1>1, <1>i, <1>2, <1>t, <2>1, CallInode
<1>8. ASSUME WriteInv PROVE WriteInv'
  <2>1. \A gd \in Fds : map[gd] # Null => Dest(heap', map[gd]) = Dest(heap, map[gd])
    BY <1>t, InvParts, InHandIsLive
  <2>2. \A m : Unmoved(m)' => Unmoved(m)
    BY <1>1, <1>2, <1>5, UnmovedBefore
  <2>3. \A u \in Threads : call'[u].fd = call[u].fd
    BY <1>2 DEF OthersWait
  <2> QED BY <1>1, <1>8, <1>t, <2>1, <2>2, <2>3, CallWrites
<1> QED BY <1>1, <1>2, <1>3, <1>4, <1>t, <1>5, <1>6, <1>7, <1>8, QuietCallStep

LEMMA CloseBeginKeepsData ==
  ASSUME IInv, IInv', DataInv, Tame, NEW t \in Threads, NEW fd \in Fds, CloseBegin(t, fd)
  PROVE  DataInv'
<1> DEFINE c == [Idle EXCEPT !.at = "close map", !.fd = fd]
<1>1. /\ call[t] = Idle /\ \A u \in Threads : call[u].fd # fd
      /\ UNCHANGED <<dir, lastInode, data, map, session, running, failed, cpc,
                     copying, todo, renamed, wrong, ghosts, kept>>
  BY DEF CloseBegin, Usable, sessionVars
<1>2. \/ /\ map[fd] = Null /\ fds' = [fds EXCEPT ![fd] = None]
         /\ heap' = heap /\ call' = call
      \/ /\ map[fd] # Null /\ call' = [call EXCEPT ![t] = c] /\ fds' = fds
         /\ heap' = heap \/ heap' = TryToRemoveDestination(heap, map[fd])
  BY DEF CloseBegin
<1>c. c \in CallType /\ c.at = "close map" /\ c.fd = fd
  BY IdleIs DEF CallType, Steps, HoldsFd, OpenSteps
<1> HIDE DEF c
<1>i. InodeInv /\ fds \in [Fds -> Inodes \cup {None}]
  BY InvParts DEF DataInv, TypeInv
<1>s. Healthy' => Healthy
  BY <1>1 DEF Healthy
<1>a. /\ call[t].at \notin OpenSteps /\ call[t].at # "rename capture"
      /\ call[t].at \notin UnlinkSteps /\ call[t].fd = 0
  BY <1>1, IdleIs DEF OpenSteps, UnlinkSteps
<1>3. CASE /\ map[fd] = Null /\ fds' = [fds EXCEPT ![fd] = None]
           /\ heap' = heap /\ call' = call
  <2>1. OthersWait(t)
    BY <1>3 DEF OthersWait
  <2>2. Still(heap, heap') /\ NamesStay(heap, heap')
    BY <1>3, InvParts, SameHeapIsStill, SameHeapIsQuiet, IdentityKeepsNames
  <2>3. /\ \A gd \in Fds \ {fd} : fds'[gd] = fds[gd]
        /\ fds'[fd] = None
    BY <1>3, <1>i
  <2>4. InodeInv'
    <3>1. Opening(t)' => Opening(t)
      BY <1>3 DEF Opening
    <3> QED BY <1>1, <1>3, <1>i, <2>1, <2>2, <2>3, <3>1, CallInode
  <2>5. \A m : BeingOpened(m) => BeingOpened(m)'
    BY <1>3, SameCalls
  <2>6. ASSUME WriteInv PROVE WriteInv'
    <3>1. \A m : Unmoved(m)' => Unmoved(m)
      BY <1>1, <1>3, SameCalls
    <3> QED BY <1>1, <1>3, <2>2, <2>3, <2>6, <3>1, CallWrites
  <2> QED BY <1>1, <1>a, <1>s, <2>1, <2>2, <2>4, <2>5, <2>6, QuietCallStep
<1>4. CASE /\ map[fd] # Null /\ call' = [call EXCEPT ![t] = c] /\ fds' = fds
           /\ heap' = heap \/ heap' = TryToRemoveDestination(heap, map[fd])
  <2>1. OthersWait(t) /\ call'[t] = c
    BY <1>4, <1>c, InvParts, CallBecomes
  <2>o. PICK o \in heap.live : o = map[fd] /\ o \in Objects
    BY <1>4, InvParts, InHandIsLive
  <2>2. /\ SameIdentity(heap, heap') /\ NoNewDestination(heap, heap')
        /\ OnlyObject(heap, heap', o)
        /\ heap.objects[o].refs > 1 => Dest(heap', o) = Dest(heap, o)
    <3>1. CASE heap' = heap
      BY <3>1, SameHeapIsQuiet DEF OnlyObject
    <3>2. CASE heap' = TryToRemoveDestination(heap, map[fd])
      BY <3>2, <2>o, InvParts, TryToRemoveDestinationIsQuiet
    <3> QED BY <1>4, <3>1, <3>2
  <2>3. NamesStay(heap, heap') /\ Still(heap, heap')
    BY <2>2, InvParts, IdentityKeepsNames, QuietNamesAreStill
  <2>4. InodeInv'
    <3>1. ~Opening(t)'
      BY <2>1, <1>c DEF Opening
    <3> QED BY <1>1, <1>4, <1>a, <1>c, <1>i, <2>1, <2>3, <3>1, NoDescriptorIsZero, CallInode
  <2>5. \A m : BeingOpened(m) => BeingOpened(m)'
    BY <1>a, <2>1, BeingOpenedStays
  <2>6. ASSUME WriteInv PROVE WriteInv'
    <3>1. \A m : Unmoved(m)' => Unmoved(m)
      BY <1>1, <1>a, <2>1, UnmovedBefore
    <3>2. ASSUME NEW gd \in Fds, map[gd] # Null, gd # fd
          PROVE  Dest(heap', map[gd]) = Dest(heap, map[gd])
      <4>1. map[gd] \in Objects
        BY <3>2, InvParts, InHandIsLive
      <4>2. CASE map[gd] # o
        BY <2>2, <4>1, <4>2 DEF OnlyObject, Dest
      <4>3. CASE map[gd] = o
        <5>1. <<"fd", fd>> \in Users(o) /\ <<"fd", gd>> \in Users(o)
          BY <2>o, <3>2, <4>3, UserIs
        <5>2. <<"fd", fd>> # <<"fd", gd>>
          BY <3>2
        <5>3. heap.objects[o].refs > 1
          BY <2>o, <5>1, <5>2, InvParts, UsedIsLive
        <5> QED BY <2>2, <4>3, <5>3
      <4> QED BY <4>2, <4>3
    <3>3. \A gd \in Fds, u \in Threads : call[u].fd = gd => call'[u].fd = gd
      BY <1>a, <2>1, NoDescriptorIsZero DEF OthersWait
    <3>4. call'[t].fd = fd
      BY <2>1, <1>c
    <3> QED BY <1>1, <1>4, <2>3, <2>6, <3>1, <3>2, <3>3, <3>4, CallWrites
  <2> QED BY <1>1, <1>a, <1>s, <2>1, <2>3, <2>4, <2>5, <2>6, QuietCallStep
<1> QED BY <1>2, <1>3, <1>4

LEMMA CloseMapKeepsData ==
  ASSUME IInv, IInv', DataInv, NEW t \in Threads, CloseMap(t)
  PROVE  DataInv'
<1>0. /\ call[t].at = "close map" /\ call[t].fd \in Fds /\ map[call[t].fd] # Null
      /\ map \in [Fds -> Objects \cup {Null}]
  BY InvParts, CallFields DEF CallInv, CallOk, HoldsFd, OpenSteps, CloseMap, TypeInv
<1>fd. PICK fd \in Fds : fd = call[t].fd
  BY <1>0
<1>1. /\ map' = [map EXCEPT ![fd] = Null] /\ Proceed(t, "close table", map[fd])
      /\ heap' = heap
      /\ UNCHANGED <<dir, lastInode, data, fds, session, running, failed, cpc,
                     copying, todo, renamed, wrong, ghosts, kept>>
  BY <1>fd DEF CloseMap, sourceVars, sessionVars
<1>2. /\ OthersWait(t) /\ call'[t].at = "close table" /\ call'[t].fd = call[t].fd
  <2>1. map[fd] \in Objects \cup {Null} /\ "close table" \in Steps
    BY <1>0 DEF Steps, HoldsFd, OpenSteps
  <2> QED BY <1>1, <2>1, InvParts, ProceedIs
<1>3. map'[fd] = Null /\ \A gd \in Fds \ {fd} : map'[gd] = map[gd]
  BY <1>0, <1>1
<1>i. InodeInv
  BY DEF DataInv
<1>4. Still(heap, heap') /\ NamesStay(heap, heap')
  BY <1>1, InvParts, SameHeapIsStill, SameHeapIsQuiet, IdentityKeepsNames
<1>5. Healthy' => Healthy
  BY <1>1 DEF Healthy
<1>6. /\ call[t].at \notin OpenSteps /\ call[t].at # "rename capture"
      /\ call[t].at \notin UnlinkSteps
  BY <1>0 DEF OpenSteps, UnlinkSteps
<1>7. \A m : BeingOpened(m) => BeingOpened(m)'
  BY <1>2, <1>6, BeingOpenedStays
<1>8. InodeInv'
  <2>1. ~Opening(t)'
    BY <1>2 DEF Opening
  <2> QED BY <1>1, <1>2, <1>3, <1>4, <1>fd, <1>i, <2>1, CallInode
<1>9. ASSUME WriteInv PROVE WriteInv'
  <2>1. \A m : Unmoved(m)' => Unmoved(m)
    BY <1>1, <1>2, <1>6, UnmovedBefore
  <2>2. \A u \in Threads : call'[u].fd = call[u].fd
    BY <1>2 DEF OthersWait
  <2> QED BY <1>1, <1>3, <1>4, <1>9, <2>1, <2>2, CallWrites
<1> QED BY <1>1, <1>2, <1>4, <1>5, <1>6, <1>7, <1>8, <1>9, QuietCallStep

LEMMA CloseTableKeepsData ==
  ASSUME IInv, IInv', DataInv, NEW t \in Threads, CloseTable(t)
  PROVE  DataInv'
<1>0. /\ call[t].at = "close table" /\ call[t].fd \in Fds /\ call[t].object \in Objects
      /\ map[call[t].fd] = Null /\ fds \in [Fds -> Inodes \cup {None}]
  BY InvParts, CallFields
     DEF CallInv, CallOk, HoldsFd, OpenSteps, HoldsObject, CloseTable, TypeInv
<1>fd. PICK fd \in Fds : fd = call[t].fd
  BY <1>0
<1>o. PICK o \in Objects : o = call[t].object
  BY <1>0
<1>1. /\ heap' = TryToRemove(heap, o) /\ fds' = [fds EXCEPT ![fd] = None] /\ Return(t)
      /\ UNCHANGED <<dir, lastInode, data, map, session, running, failed, cpc,
                     copying, todo, renamed, wrong, ghosts, kept>>
  BY <1>o, <1>fd DEF CloseTable, sessionVars
<1>2. OthersWait(t) /\ call'[t] = Idle
  BY <1>1, InvParts, ReturnIs
<1>3. fds'[fd] = None /\ \A gd \in Fds \ {fd} : fds'[gd] = fds[gd]
  BY <1>0, <1>1
<1>i. InodeInv
  BY DEF DataInv
<1>r. Returns(heap, heap', o)
  <2>1. <<"call", t>> \in Users(o)
    BY <1>o, UserIs
  <2> QED BY <1>1, <2>1, InvParts, TryToRemoveReturns
<1>4. /\ NamesStay(heap, heap') /\ NoNewDestination(heap, heap')
      /\ \A p \in heap'.live : Dest(heap', p) = Dest(heap, p)
  BY <1>r DEF Returns
<1>s. Still(heap, heap')
  BY <1>4, QuietNamesAreStill
<1>5. Healthy' => Healthy
  BY <1>1 DEF Healthy
<1>6. /\ call[t].at \notin OpenSteps /\ call[t].at # "rename capture"
      /\ call[t].at \notin UnlinkSteps
  BY <1>0 DEF OpenSteps, UnlinkSteps
<1>7. \A m : BeingOpened(m) => BeingOpened(m)'
  BY <1>2, <1>6, BeingOpenedStays
<1>8. InodeInv'
  <2>1. ~Opening(t)'
    BY <1>2, IdleIs DEF Opening
  <2>2. \A u \in Threads \ {t} : call[u].fd # fd
    BY <1>fd, OnlyCallOf
  <2> QED BY <1>1, <1>2, <1>3, <1>4, <1>fd, <1>i, <2>1, <2>2, CallInode
<1>9. ASSUME WriteInv PROVE WriteInv'
  <2>1. \A m : Unmoved(m)' => Unmoved(m)
    BY <1>1, <1>2, <1>6, UnmovedBefore
  <2>2. \A gd \in Fds \ {fd}, u \in Threads : call[u].fd = gd => call'[u].fd = gd
    BY <1>2, <1>fd DEF OthersWait
  <2>3. \A gd \in Fds : map[gd] # Null => Dest(heap', map[gd]) = Dest(heap, map[gd])
    BY <1>1, <1>4, MappedNames
  <2>4. map'[fd] = Null
    BY <1>0, <1>1, <1>fd
  <2> QED BY <1>1, <1>3, <1>4, <1>9, <2>1, <2>2, <2>3, <2>4, CallWrites
<1> QED BY <1>1, <1>2, <1>4, <1>s, <1>5, <1>6, <1>7, <1>8, <1>9, QuietCallStep

(* A destination for the file that has the name. *)
LEMMA CreateData ==
  ASSUME IInv, running, OnePath(heap, session), NEW o \in heap.live, NEW n \in Names,
         NameOf(o) = n \/ ~NeedsDestination(heap, o),
         heap' = TryToCreateDestination(heap, o, Target(n))
  PROVE  /\ SameIdentity(heap, heap') /\ NamesStay(heap, heap')
         /\ BackupCreated(heap, heap', session, n) /\ DestinationsIn(heap', session, kept)
         /\ \A p \in heap.live : Dest(heap, p) # NoDestination =>
              Dest(heap', p) # NoDestination
         /\ ~heap.objects[o].unlinked => Dest(heap', o) # NoDestination
<1>1. session \in 1..MaxSessions
  BY InvParts, SessionNumber
<1>2. /\ Tidy(heap) /\ FilesApart(heap, session) /\ DestinationsIn(heap, session, kept)
  BY InvParts DEF BackupInv, Current
<1>3. /\ heap' = TryToCreateDestination(heap, o, <<session, n>>)
      /\ heap.objects[o].name = n \/ ~NeedsDestination(heap, o)
  BY DEF Target, NameOf
<1>4. /\ OnlyObject(heap, heap', o) /\ SameIdentity(heap, heap')
      /\ DestinationsIn(heap', session, kept)
      /\ Dest(heap, o) # NoDestination => Dest(heap', o) = Dest(heap, o)
      /\ ~heap.objects[o].unlinked => Dest(heap', o) # NoDestination
  BY <1>1, <1>2, <1>3, CreateInSession
<1>5. BackupCreated(heap, heap', session, n)
  BY <1>1, <1>2, <1>3, CreateKeepsBackup
<1>6. NamesStay(heap, heap')
  BY <1>2, <1>4, IdentityKeepsNames
<1>7. ASSUME NEW p \in heap.live, Dest(heap, p) # NoDestination
      PROVE  Dest(heap', p) # NoDestination
  <2>1. CASE p = o
    BY <1>4, <1>7, <2>1
  <2>2. CASE p # o
    <3>1. p \in Objects
      BY <1>2, HeapFields
    <3> QED BY <1>4, <1>7, <2>2, <3>1 DEF OnlyObject, Dest
  <2> QED BY <2>1, <2>2
<1> QED BY <1>4, <1>5, <1>6, <1>7

(* The name has a file in the backup after the step, if an empty one. *)
LEMMA CreatedName ==
  ASSUME NEW n \in Names, session' = session, dir'[n] = dir[n], dir[n] # None,
         data'[dir[n]] = data[dir[n]], data[dir[n]] \in Nat,
         heap'.bdir[Target(n)] # Null,
         \/ BackupSame(heap, heap', session, n)
         \/ /\ heap.bdir[<<session, n>>] = Null
            /\ heap'.bdata[heap'.bdir[<<session, n>>]] = {},
         NameOk(n), ToCopy(n) => ToCopy(n)'
  PROVE  NameOk(n)'
<1>1. /\ BackupOf(n)' = heap'.bdir[<<session, n>>] /\ BackupOf(n)' # Null
      /\ BackupOf(n) = heap.bdir[<<session, n>>]
      /\ dir[n]' = dir[n] /\ Content(dir[n])' = Content(dir[n])
  BY DEF BackupOf, Target, Content
<1>2. GoneOk(n)'
  BY <1>1 DEF GoneOk
<1>3. CASE BackupSame(heap, heap', session, n)
  <2>1. /\ BackupOf(n)' = BackupOf(n)
        /\ heap'.bdata[BackupOf(n)] = heap.bdata[BackupOf(n)]
    BY <1>1, <1>3 DEF BackupSame
  <2>2. ContentOk(n)'
    BY <1>1, <2>1 DEF ContentOk, NameOk
  <2>3. CoverOk(n)'
    <3>1. ToCopy(n) \/ Complete(n)
      BY <1>1, <2>1 DEF NameOk, CoverOk, Fresh
    <3>2. Complete(n) => Complete(n)'
      BY <1>1, <2>1 DEF Complete
    <3> QED BY <3>1, <3>2 DEF CoverOk
  <2> QED BY <1>2, <2>2, <2>3 DEF NameOk
<1>4. CASE /\ heap.bdir[<<session, n>>] = Null
           /\ heap'.bdata[heap'.bdir[<<session, n>>]] = {}
  <2>1. heap'.bdata[BackupOf(n)'] = {}
    BY <1>1, <1>4
  <2>2. ContentOk(n)'
    BY <2>1 DEF ContentOk
  <2>3. CoverOk(n)'
    <3>1. ToCopy(n) \/ Fresh(n)
      BY <1>1, <1>4 DEF NameOk, CoverOk, Complete
    <3>2. ASSUME Fresh(n) PROVE Complete(n)'
      <4>1. data[dir[n]] = 0
        BY <3>2 DEF Fresh
      <4>2. Content(dir[n]) = {}
        BY <4>1 DEF Content
      <4> QED BY <1>1, <2>1, <4>2 DEF Complete
    <3> QED BY <3>1, <3>2 DEF CoverOk
  <2> QED BY <1>2, <2>2, <2>3 DEF NameOk
<1> QED BY <1>3, <1>4

LEMMA OtherOpens ==
  ASSUME NEW t \in Threads, OthersWait(t), NEW n, n # call[t].name, BeingOpened(n)
  PROVE  BeingOpened(n)'
<1>1. PICK u \in Threads : call[u].at \in OpenSteps /\ call[u].name = n
  BY DEF BeingOpened, OpenSteps
<1>2. call'[u] = call[u]
  BY <1>1 DEF OthersWait
<1> QED BY <1>1, <1>2 DEF BeingOpened, OpenSteps

(* The destination of an unmoved file is in the backup of the session. *)
LEMMA InSession ==
  ASSUME IInv, IInv', running, NEW n \in Names, Unmoved(n), kept' = kept,
         NEW o \in heap'.live, Dest(heap', o) # NoDestination,
         Dest(heap', o).path[2] = n,
         Dest(heap', o).path[1] = session \/ Dest(heap', o).path \in kept
  PROVE  Dest(heap', o).path = <<session, n>>
<1>1. Dest(heap', o).path \in Paths
  <2>1. Tidy(heap')
    BY DEF IInv
  <2> QED BY <2>1, DestinationFields
<1>2. \A p \in kept : p[1] < session
  BY InvParts DEF BackupInv
<1>3. Dest(heap', o).path \notin kept
  BY <1>2 DEF Unmoved, Stale
<1> QED BY <1>1, <1>3 DEF Paths

LEMMA OpenCaptureKeepsData ==
  ASSUME IInv, IInv', DataInv, NEW t \in Threads, OpenCapture(t)
  PROVE  DataInv'
<1>0. /\ call[t].at = "open capture" /\ call[t].fd \in Fds /\ call[t].name \in Names
      /\ fds[call[t].fd] # None /\ map[call[t].fd] # Null
      /\ NameOf(map[call[t].fd]) = call[t].name
  BY InvParts, CallFields DEF CallInv, CallOk, HoldsFd, OpenSteps, OpenCapture
<1>n. PICK n \in Names : n = call[t].name
  BY <1>0
<1>fd. PICK fd \in Fds : fd = call[t].fd
  BY <1>0
<1>1. /\ heap' = heap
      /\ UNCHANGED <<dir, lastInode, data, fds, map, session, running, failed,
                     cpc, copying, todo, renamed, wrong, ghosts, kept>>
  BY DEF OpenCapture, sourceVars, sessionVars
<1>2. \/ Proceed(t, "open translate", Null)
      \/ Return(t) /\ (~running \/ dir[n] = None)
  BY <1>n DEF OpenCapture
<1>3. /\ OthersWait(t)
      /\ \/ call'[t] = Idle
         \/ /\ call'[t].at = "open translate" /\ call'[t].name = call[t].name
            /\ call'[t].fd = call[t].fd
  <2>1. CASE Proceed(t, "open translate", Null)
    <3>1. "open translate" \in Steps
      BY DEF Steps, HoldsFd, OpenSteps
    <3> QED BY <2>1, <3>1, InvParts, ProceedIs
  <2>2. CASE Return(t)
    <3>1. OthersWait(t) /\ call'[t] = Idle
      BY <2>2, InvParts, ReturnIs
    <3> QED BY <3>1
  <2> QED BY <1>2, <2>1, <2>2
<1>i. InodeInv
  BY DEF DataInv
<1>4. /\ call[t].at # "rename capture" /\ call[t].at \notin UnlinkSteps /\ ~Opening(t)'
  BY <1>0, <1>3, IdleIs DEF UnlinkSteps, Opening
<1>s. Still(heap, heap') /\ NamesStay(heap, heap')
  BY <1>1, InvParts, SameHeapIsStill, SameHeapIsQuiet, IdentityKeepsNames
<1>5. InodeInv'
  BY <1>0, <1>1, <1>3, <1>4, <1>i, <1>s, <1>fd, CallInode
<1>6. Healthy' => Healthy
  BY <1>1 DEF Healthy
<1>7. Healthy' => \A m \in Names : BeingOpened(m) => dir[m] = None \/ BeingOpened(m)'
  <2>1. CASE Proceed(t, "open translate", Null)
    <3>1. "open translate" \in Steps /\ "open translate" \in OpenSteps
      BY DEF Steps, HoldsFd, OpenSteps
    <3>2. call'[t].at \in OpenSteps /\ call'[t].name = call[t].name
      BY <2>1, <3>1, InvParts, ProceedIs
    <3> QED BY <1>3, <3>2, BeingOpenedStays
  <2>2. CASE ~running
    BY <1>1, <2>2 DEF Healthy
  <2>3. CASE dir[n] = None
    BY <1>3, <1>n, <2>3, OtherOpens
  <2> QED BY <1>2, <2>1, <2>2, <2>3
<1>8. ASSUME Healthy', WriteInv PROVE WriteInv'
  <2>1. \A m : Unmoved(m)' => Unmoved(m)
    BY <1>1, <1>3, <1>4, UnmovedBefore
  <2>2. WriteOk(fd)' \/ call'[t].fd = fd
    <3>1. CASE Proceed(t, "open translate", Null)
      <4>1. "open translate" \in Steps
        BY DEF Steps, HoldsFd, OpenSteps
      <4> QED BY <1>fd, <3>1, <4>1, InvParts, ProceedIs
    <3>2. CASE ~running
      BY <1>1, <1>8, <3>2 DEF Healthy
    <3>3. CASE dir[n] = None
      BY <1>0, <1>1, <1>n, <1>fd, <3>3 DEF WriteOk, NameOf
    <3> QED BY <1>2, <3>1, <3>2, <3>3
  <2>3. \A gd \in Fds, u \in Threads : gd # fd /\ call[u].fd = gd => call'[u].fd = gd
    BY <1>3, <1>fd DEF OthersWait
  <2> QED BY <1>1, <1>s, <1>8, <2>1, <2>2, <2>3, CallWrites
<1> QED BY <1>1, <1>3, <1>4, <1>s, <1>5, <1>6, <1>7, <1>8, QuietCallStep

LEMMA OpenTranslateKeepsData ==
  ASSUME IInv, IInv', DataInv, Tame, NEW t \in Threads, OpenTranslate(t)
  PROVE  DataInv'
<1>0. /\ call[t].at = "open translate" /\ call[t].fd \in Fds /\ call[t].name \in Names
      /\ fds[call[t].fd] # None /\ map[call[t].fd] # Null
      /\ NameOf(map[call[t].fd]) = call[t].name
  BY InvParts, CallFields DEF CallInv, CallOk, HoldsFd, OpenSteps, OpenTranslate
<1>n. PICK n \in Names : n = call[t].name
  BY <1>0
<1>fd. PICK fd \in Fds : fd = call[t].fd
  BY <1>0
<1>o. PICK o \in heap.live : o = map[fd] /\ NameOf(o) = n
  BY <1>0, <1>n, <1>fd, InvParts, InHandIsLive
<1>1. /\ Return(t)
      /\ UNCHANGED <<dir, lastInode, data, fds, map, session, running, cpc,
                     copying, todo, renamed, wrong, ghosts, kept>>
  BY DEF OpenTranslate, sourceVars, sessionVars
<1>2. /\ running
      /\ \/ dir[n] = None /\ heap' = heap /\ failed' = failed
         \/ failed' = TRUE /\ heap' = heap
         \/ /\ dir[n] # None
            /\ heap' = TryToCreateDestination(heap, o, Target(n)) /\ failed' = failed
  BY <1>0, <1>n, <1>fd, <1>o, InvParts DEF OpenTranslate, CallInv, CallOk
<1>3. OthersWait(t) /\ call'[t] = Idle
  BY <1>1, InvParts, ReturnIs
<1>i. InodeInv
  BY DEF DataInv
<1>4. /\ call[t].at # "rename capture" /\ call[t].at \notin UnlinkSteps /\ ~Opening(t)'
  BY <1>0, <1>3, IdleIs DEF UnlinkSteps, Opening
<1>5. NamesStay(heap, heap') => InodeInv'
  BY <1>0, <1>1, <1>3, <1>4, <1>i, <1>fd, CallInode
<1>6. \A m : m # n /\ BeingOpened(m) => BeingOpened(m)'
  BY <1>3, <1>n, OtherOpens
<1>7. \A m : Unmoved(m)' => Unmoved(m)
  BY <1>1, <1>3, <1>4, UnmovedBefore
<1>8. \A gd \in Fds, u \in Threads : gd # fd /\ call[u].fd = gd => call'[u].fd = gd
  BY <1>3, <1>fd DEF OthersWait
<1>9. CASE /\ heap' = heap
           /\ failed' = TRUE \/ (failed' = failed /\ dir[n] = None)
  <2>1. Still(heap, heap') /\ NamesStay(heap, heap')
    BY <1>9, InvParts, SameHeapIsStill, SameHeapIsQuiet, IdentityKeepsNames
  <2>2. Healthy' => Healthy /\ dir[n] = None
    BY <1>1, <1>9 DEF Healthy
  <2>3. InodeInv'
    BY <1>5, <2>1
  <2>4. ASSUME WriteInv, dir[n] = None PROVE WriteInv'
    <3>1. WriteOk(fd)'
      BY <1>0, <1>1, <1>9, <1>o, <1>fd, <2>4 DEF WriteOk, NameOf
    <3> QED BY <1>1, <1>7, <1>8, <1>9, <2>1, <2>4, <3>1, CallWrites
  <2> QED BY <1>1, <1>3, <1>4, <1>6, <2>1, <2>2, <2>3, <2>4, QuietCallStep
<1>10. CASE /\ running /\ dir[n] # None
            /\ heap' = TryToCreateDestination(heap, o, Target(n)) /\ failed' = failed
  <2>0. ~heap.objects[o].unlinked
    BY <1>10, <1>o, TameParts DEF UnlinkedAreGone, NameOf
  <2>i. NamesStay(heap, heap')
    <3>1. session \in 1..MaxSessions
      BY <1>10, InvParts, SessionNumber
    <3>2. SameIdentity(heap, heap')
      BY <1>10, <1>o, <3>1, InvParts, CreateInSession DEF BackupInv, Current, Target, NameOf
    <3> QED BY <3>2, InvParts, IdentityKeepsNames
  <2>1. InodeInv'
    BY <1>5, <2>i
  <2>2. ResultInv'
    BY <1>1 DEF DataInv, ResultInv, Stale
  <2>3. ASSUME Healthy'
        PROVE  DestInv' /\ WriteInv' /\ CopyingInv' /\ NamesInv' /\ StopInv'
    <3>1. DestInv /\ WriteInv /\ CopyingInv /\ NamesInv /\ StopInv
      <4>1. Healthy
        BY <1>1, <1>10, <2>3 DEF Healthy
      <4> QED BY <4>1, SessionParts DEF DataInv
    <3>2. /\ BackupCreated(heap, heap', session, n) /\ DestinationsIn(heap', session, kept)
          /\ \A p \in heap.live : Dest(heap, p) # NoDestination =>
               Dest(heap', p) # NoDestination
          /\ Dest(heap', o) # NoDestination
          /\ SameIdentity(heap, heap')
      BY <1>10, <1>o, <2>0, <3>1, CreateData DEF DestInv
    <3>3. DestInv'
      BY <1>1, <1>7, <3>1, <3>2 DEF DestInv, BackupCreated
    <3>4. WriteInv'
      <4>1. WriteOk(fd)'
        BY <1>1, <1>o, <3>2 DEF WriteOk
      <4>2. \A gd \in Fds : map[gd] # Null => map[gd] \in heap.live
        BY InvParts, InHandIsLive
      <4> QED BY <1>1, <1>7, <1>8, <2>i, <3>1, <3>2, <4>1, <4>2, CallWrites
    <3>u. \A m : Unlinking(m) => Unlinking(m)'
      BY <1>3, <1>4, UnlinkingGoesOn
    <3>5. CopyingInv'
      <4>1. \A m : Steady(m)
        BY <1>1, <1>3, <1>4, UnlinkingStays DEF UnlinkSteps
      <4> QED BY <1>1, <1>7, <2>i, <3>1, <4>1, CallCopying
    <3>6. NamesInv'
      <4> SUFFICES ASSUME NEW m \in Names, Unmoved(m)' PROVE NameOk(m)'
        BY DEF NamesInv
      <4>1. Unmoved(m) /\ NameOk(m)
        BY <1>7, <3>1 DEF NamesInv
      <4>2. ToCopy(m) => ToCopy(m)'
        BY <1>1 DEF ToCopy
      <4>3. CASE m = n
        <5>1. heap'.bdir[Target(n)] # Null
          <6>1. /\ o \in heap'.live /\ heap'.objects[o].name = n
                /\ ~heap'.objects[o].unlinked
            BY <1>o, <2>0, <3>2, InvParts, HeapFields DEF SameIdentity, NameOf
          <6>2. heap'.bdir[Dest(heap', o).path] # Null
                /\ Dest(heap', o).path = <<session, n>>
            <7>1. /\ heap'.bdir[Dest(heap', o).path] # Null
                  /\ Dest(heap', o).path[2] = n
                  /\ Dest(heap', o).path[1] = session \/ Dest(heap', o).path \in kept
              BY <3>2, <6>1, DestinationIs
            <7>2. Unmoved(n) /\ kept' = kept
              BY <1>1, <4>1, <4>3 DEF Unmoved, Renaming
            <7>3. Dest(heap', o) # NoDestination /\ o \in heap'.live
              BY <3>2, <6>1
            <7> QED BY <1>10, <1>1, <7>1, <7>2, <7>3, InSession
          <6> QED BY <6>2 DEF Target
        <5>2. \/ BackupSame(heap, heap', session, n)
              \/ /\ heap.bdir[<<session, n>>] = Null
                 /\ heap'.bdata[heap'.bdir[<<session, n>>]] = {}
          BY <3>2 DEF BackupCreated
        <5>3. data[dir[n]] \in Nat
          BY <1>10, InvParts DEF TypeInv
        <5> QED BY <1>1, <1>10, <4>1, <4>2, <4>3, <5>1, <5>2, <5>3, CreatedName
      <4>4. CASE m # n
        <5>1. SameName(m)
          BY <1>1, <3>2, <4>4 DEF SameName, BackupCreated
        <5> QED BY <1>1, <1>6, <3>u, <4>1, <4>2, <4>4, <5>1, NameStays
      <4> QED BY <4>3, <4>4
    <3>7. StopInv'
      BY <1>1, <3>1 DEF StopInv
    <3> QED BY <3>3, <3>4, <3>5, <3>6, <3>7
  <2> QED BY <2>1, <2>2, <2>3 DEF DataInv, SessionInv
<1> QED BY <1>2, <1>9, <1>10

LEMMA OneMoreWrite ==
  ASSUME NEW i, NEW k \in Nat
  PROVE  {i} \X (1..(k + 1)) = ({i} \X (1..k)) \cup {<<i, k + 1>>}
  OBVIOUS

(* What has been created has been written to; what has not, has not. *)
LEMMA WrittenIsKnown ==
  ASSUME InodeInv, NEW i, i \in Known, i # None, NEW j \in 1..MaxCalls, j > lastInode,
         lastInode \in Nat
  PROVE  i # j
  BY FileTableAssumption DEF FileTableAssumption, Known, None

LEMMA WriteKeepsData ==
  ASSUME IInv, IInv', DataInv, Tame, NEW t \in Threads, NEW fd \in Fds, Write(t, fd)
  PROVE  DataInv'
<1>1. /\ call[t] = Idle /\ fds[fd] # None /\ \A u \in Threads : call[u].fd # fd
      /\ data' = [data EXCEPT ![fds[fd]] = @ + 1]
      /\ heap' = IF running /\ map[fd] # Null
                 THEN WriteDestination(heap, map[fd], {<<fds[fd], data'[fds[fd]]>>})
                 ELSE heap
      /\ UNCHANGED <<dir, lastInode, fds, map, call, session, running, failed,
                     cpc, copying, todo, renamed, wrong, ghosts, kept>>
  BY DEF Write, Usable, sessionVars
<1>t. /\ data \in [Inodes -> Nat] /\ fds \in [Fds -> Inodes \cup {None}]
      /\ lastInode \in Nat /\ map \in [Fds -> Objects \cup {Null}]
      /\ Tidy(heap)
  BY InvParts DEF TypeInv
<1>f. PICK i \in Inodes : i = fds[fd]
  BY <1>1, <1>t
<1>2. /\ i # None /\ data'[i] = data[i] + 1 /\ data[i] \in Nat
      /\ \A j \in Inodes : j # i => data'[j] = data[j]
  BY <1>1, <1>t, <1>f
<1>i. InodeInv
  BY DEF DataInv
<1>c. PICK content \in SUBSET (Inodes \X Nat) : content = {<<i, data[i] + 1>>}
  <2>1. <<i, data[i] + 1>> \in Inodes \X Nat
    BY <1>2
  <2> QED BY <2>1
<1>3. heap' = IF running /\ map[fd] # Null
              THEN WriteDestination(heap, map[fd], content) ELSE heap
  <2>1. {<<fds[fd], data'[fds[fd]]>>} = content
    BY <1>2, <1>c, <1>f
  <2>2. heap' = IF running /\ map[fd] # Null
                THEN WriteDestination(heap, map[fd], {<<fds[fd], data'[fds[fd]]>>})
                ELSE heap
    BY <1>1
  <2> QED BY <2>1, <2>2
<1>4. heap'.live = heap.live /\ heap'.objects = heap.objects
  <2>1. CASE running /\ map[fd] # Null
    <3>1. PICK o \in heap.live : o = map[fd]
      BY <2>1, InvParts, InHandIsLive
    <3> QED BY <1>3, <1>t, <2>1, <3>1, WriteDestinationIs
  <2>2. CASE ~(running /\ map[fd] # Null)
    BY <1>3, <2>2
  <2> QED BY <2>1, <2>2
<1>5. NamesStay(heap, heap') /\ OthersWait(t)
  BY <1>1, <1>4 DEF NamesStay, OthersWait
<1>6. InodeInv'
  <2>1. \A j \in 1..MaxCalls : j > lastInode => data'[j] = data[j]
    <3>1. i \in Known
      BY <1>f, <1>i DEF InodeInv
    <3> QED BY <1>2, <1>i, <1>t, <3>1, WrittenIsKnown DEF Inodes
  <2>2. Opening(t)' => Opening(t)
    BY <1>1 DEF Opening
  <2> QED BY <1>1, <1>5, <1>i, <2>1, <2>2, CallInode
<1>7. ResultInv'
  BY <1>1 DEF DataInv, ResultInv, Stale
<1>8. ASSUME Healthy'
      PROVE  DestInv' /\ WriteInv' /\ CopyingInv' /\ NamesInv' /\ StopInv'
  <2>1. /\ DestInv /\ WriteInv /\ CopyingInv /\ NamesInv /\ StopInv
        /\ running
    <3>1. Healthy /\ running
      BY <1>1, <1>8 DEF Healthy
    <3> QED BY <3>1, SessionParts DEF DataInv
  <2>2. /\ \A n : BeingOpened(n) => BeingOpened(n)'
        /\ \A n : Unlinking(n)' <=> Unlinking(n)
        /\ \A n : Unmoved(n)' <=> Unmoved(n)
    BY <1>1, SameCalls
  <2>3. session \in 1..MaxSessions
    BY <2>1, InvParts, SessionNumber
  <2>4. /\ OnePath(heap', session)
        /\ \A m \in Names : DestAgrees(heap, session, m) => DestAgrees(heap', session, m)
        /\ \A m \in Names : heap'.bdir[<<session, m>>] = heap.bdir[<<session, m>>]
        /\ \A m \in Names : heap.bdir[<<session, m>>] # Null =>
             heap'.bdata[heap.bdir[<<session, m>>]] =
               IF /\ map[fd] # Null /\ Dest(heap, map[fd]) # NoDestination
                  /\ heap.bdir[<<session, m>>] = Dest(heap, map[fd]).file
               THEN heap.bdata[heap.bdir[<<session, m>>]] \cup content
               ELSE heap.bdata[heap.bdir[<<session, m>>]]
    <3>1. CASE map[fd] # Null
      <4>1. PICK o \in heap.live : o = map[fd]
        BY <3>1, InvParts, InHandIsLive
      <4>2. heap' = WriteDestination(heap, o, content)
        BY <1>3, <2>1, <3>1, <4>1
      <4>3. /\ OnePath(heap, session) => OnePath(heap', session)
            /\ \A m \in Names :
                 DestAgrees(heap, session, m) => DestAgrees(heap', session, m)
            /\ \A m \in Names : heap'.bdir[<<session, m>>] = heap.bdir[<<session, m>>]
            /\ \A m \in Names : heap.bdir[<<session, m>>] # Null =>
                 heap'.bdata[heap.bdir[<<session, m>>]] =
                   IF Dest(heap, o) # NoDestination
                        /\ heap.bdir[<<session, m>>] = Dest(heap, o).file
                   THEN heap.bdata[heap.bdir[<<session, m>>]] \cup content
                   ELSE heap.bdata[heap.bdir[<<session, m>>]]
        BY <1>t, <2>3, <4>2, WriteKeepsBackup
      <4> QED BY <2>1, <3>1, <4>1, <4>3 DEF DestInv
    <3>2. CASE map[fd] = Null
      BY <1>3, <2>1, <3>2 DEF DestInv
    <3> QED BY <3>1, <3>2
  <2>5. DestInv'
    BY <1>1, <2>1, <2>2, <2>4 DEF DestInv
  <2>6. WriteInv'
    <3>1. \A gd \in Fds : Dest(heap', map[gd]) = Dest(heap, map[gd])
      BY <1>4 DEF Dest
    <3> QED BY <1>1, <1>5, <2>1, <2>2, <3>1, CallWrites
  <2>7. CopyingInv'
    <3>1. \A n : Steady(n)
      BY <1>1, <2>2 DEF Steady
    <3> QED BY <1>1, <1>5, <2>1, <2>2, <3>1, CallCopying
  <2>8. NamesInv'
    <3> SUFFICES ASSUME NEW m \in Names, Unmoved(m)' PROVE NameOk(m)'
      BY DEF NamesInv
    <3>1. Unmoved(m) /\ NameOk(m) /\ DestAgrees(heap, session, m)
      BY <2>1, <2>2 DEF NamesInv, DestInv
    <3>2. ToCopy(m) => ToCopy(m)'
      BY <1>1 DEF ToCopy
    <3>3. BackupOf(m)' = BackupOf(m) /\ BackupOf(m) = heap.bdir[<<session, m>>]
      BY <1>1, <2>4 DEF BackupOf, Target
    <3>4. CASE dir[m] = None
      BY <1>1, <2>2, <3>1, <3>3, <3>4 DEF NameOk, GoneOk, ContentOk, CoverOk
    <3>5. CASE dir[m] # None /\ dir[m] # i
      <4>1. data'[dir[m]] = data[dir[m]]
        BY <1>2, <3>5, InvParts DEF TypeInv
      <4>2. BackupSame(heap, heap', session, m)
        <5>1. ASSUME map[fd] # Null, Dest(heap, map[fd]) # NoDestination,
                     heap.bdir[<<session, m>>] = Dest(heap, map[fd]).file
              PROVE  FALSE
          <6>1. PICK o \in heap.live : o = map[fd]
            BY <5>1, InvParts, InHandIsLive
          <6>2. NameOf(o) = m /\ ~heap.objects[o].unlinked
            BY <3>1, <5>1, <6>1 DEF DestAgrees, NameOf
          <6>3. Held(fd, o)
            BY <5>1, <6>1, TameParts DEF AllHeld
          <6>4. Unlinking(m)
            BY <1>f, <3>1, <3>5, <6>2, <6>3 DEF Held, Unmoved
          <6> QED BY <3>5, <6>4, TameParts DEF UnlinkedAreGone, Unlinking
        <5> QED BY <2>4, <5>1 DEF BackupSame
      <4>3. SameName(m)
        BY <1>1, <4>1, <4>2 DEF SameName
      <4> QED BY <1>1, <2>2, <3>1, <3>2, <4>3, NameStays
    <3>6. CASE dir[m] = i
      <4>1. map[fd] # Null /\ NameOf(map[fd]) = m
        BY <1>1, <1>2, <1>f, <1>i, <3>6 DEF InodeInv
      <4>2. PICK o \in heap.live : o = map[fd]
        BY <4>1, InvParts, InHandIsLive
      <4>3. ~heap.objects[o].unlinked
        BY <1>2, <3>6, <4>1, <4>2, TameParts DEF UnlinkedAreGone
      <4>4. Dest(heap, o) # NoDestination
        <5>1. WriteOk(fd)
          BY <2>1 DEF WriteInv
        <5> QED BY <1>1, <1>f, <3>1, <3>6, <4>1, <4>2, <5>1 DEF WriteOk
      <4>5. Dest(heap, o).file = heap.bdir[<<session, m>>]
        BY <3>1, <4>1, <4>2, <4>3, <4>4 DEF DestAgrees, NameOf
      <4>6. BackupOf(m) # Null
        BY <1>t, <3>3, <4>4, <4>5, DestinationFields
      <4>7. heap'.bdata[BackupOf(m)] = heap.bdata[BackupOf(m)] \cup content
        BY <2>4, <3>3, <4>1, <4>2, <4>4, <4>5, <4>6
      <4>8. /\ dir'[m] = i /\ Content(dir[m])' = {i} \X (1..(data[i] + 1))
            /\ Content(dir[m]) = {i} \X (1..data[i])
        BY <1>1, <1>2, <3>6 DEF Content
      <4>c. Content(dir[m])' = Content(dir[m]) \cup content
        BY <1>2, <1>c, <4>8, OneMoreWrite
      <4>b. PICK b : b = BackupOf(m)
        OBVIOUS
      <4>d. BackupOf(m)' = b /\ b # Null /\ heap'.bdata[b] = heap.bdata[b] \cup content
        BY <3>3, <4>6, <4>7, <4>b
      <4>9. GoneOk(m)' /\ ContentOk(m)'
        <5>1. heap.bdata[b] \subseteq Content(dir[m])
          BY <1>2, <3>1, <3>6, <4>6, <4>b DEF NameOk, ContentOk
        <5>2. heap'.bdata[b] \subseteq Content(dir[m])'
          BY <4>c, <4>d, <5>1
        <5> QED BY <1>2, <4>8, <4>d, <5>2 DEF GoneOk, ContentOk
      <4>10. CoverOk(m)'
        <5>1. ToCopy(m) \/ Complete(m)
          BY <1>2, <3>1, <3>6, <4>6 DEF NameOk, CoverOk, Fresh
        <5>2. Complete(m) => Complete(m)'
          <6>1. Complete(m) => heap.bdata[b] = Content(dir[m])
            BY <4>b DEF Complete
          <6> QED BY <4>c, <4>d, <6>1 DEF Complete
        <5> QED BY <3>2, <5>1, <5>2 DEF CoverOk
      <4> QED BY <4>9, <4>10 DEF NameOk
    <3> QED BY <3>4, <3>5, <3>6
  <2>9. StopInv'
    BY <1>1, <2>1 DEF StopInv
  <2> QED BY <2>5, <2>6, <2>7, <2>8, <2>9
<1> QED BY <1>6, <1>7, <1>8 DEF DataInv, SessionInv

LEMMA TruncatePathKeepsData ==
  ASSUME IInv, IInv', DataInv, NEW t \in Threads, NEW n \in Names, TruncatePath(t, n)
  PROVE  DataInv'
<1>1. /\ call[t] = Idle /\ dir[n] # None /\ heap' = heap
      /\ data' = IF running THEN data ELSE [data EXCEPT ![dir[n]] = 0]
      /\ UNCHANGED <<dir, lastInode, fds, map, call, session, running, failed,
                     cpc, copying, todo, renamed, wrong, ghosts, kept>>
  BY DEF TruncatePath, sessionVars
<1>2. OthersWait(t) /\ (Opening(t)' => Opening(t))
  BY <1>1 DEF OthersWait, Opening
<1>3. Still(heap, heap') /\ NamesStay(heap, heap')
  BY <1>1, InvParts, SameHeapIsStill, SameHeapIsQuiet, IdentityKeepsNames
<1>i. InodeInv
  BY DEF DataInv
<1>4. InodeInv'
  <2>1. ASSUME NEW i \in 1..MaxCalls, i > lastInode PROVE data'[i] = data[i]
    <3>1. data[i] = 0 /\ i \in Inodes /\ data \in [Inodes -> Nat]
      BY <1>i, <2>1, InvParts DEF InodeInv, TypeInv, Inodes
    <3> QED BY <1>1, <3>1
  <2> QED BY <1>1, <1>2, <1>3, <1>i, <2>1, CallInode
<1>5. CASE running
  <2>1. call[t].at # "rename capture" /\ call[t].at \notin UnlinkSteps
    BY <1>1, IdleIs DEF UnlinkSteps
  <2>2. Healthy' => Healthy
    BY <1>1 DEF Healthy
  <2>3. /\ \A m : BeingOpened(m) => BeingOpened(m)'
        /\ \A m : Unmoved(m)' => Unmoved(m)
    BY <1>1, SameCalls
  <2>4. ASSUME WriteInv PROVE WriteInv'
    BY <1>1, <1>3, <2>3, <2>4, CallWrites
  <2> QED BY <1>1, <1>2, <1>3, <1>4, <1>5, <2>1, <2>2, <2>3, <2>4, QuietCallStep
<1>6. CASE ~running
  <2>1. ~Healthy'
    BY <1>1, <1>6 DEF Healthy
  <2>2. ResultInv'
    BY <1>1 DEF DataInv, ResultInv, Stale
  <2> QED BY <1>4, <2>1, <2>2 DEF DataInv, SessionInv
<1> QED BY <1>5, <1>6

(* The start of a call that takes effect on the directory. *)
LEMMA BeginKeepsData ==
  ASSUME IInv, IInv', DataInv, NEW t \in Threads, OthersWait(t), call[t] = Idle,
         UNCHANGED <<heap, map, data, session, running, failed, cpc, copying,
                     todo, renamed, wrong, ghosts, kept>>,
         InodeInv',
         \A fd \in Fds : map[fd] # Null =>
           /\ fds'[fd] = fds[fd]
           /\ dir'[NameOf(map[fd])] \in {dir[NameOf(map[fd])], None},
         \A n \in Names :
           \/ dir'[n] = dir[n] \/ ~Unmoved(n)'
           \/ Unlinking(n)' /\ dir'[n] = None
           \/ FirstFile(n) /\ BeingOpened(n)'
  PROVE  DataInv'
<1>1. ResultInv'
  BY DEF DataInv, ResultInv, Stale
<1>2. /\ call[t].at \notin OpenSteps /\ call[t].at # "rename capture"
      /\ call[t].at \notin UnlinkSteps /\ call[t].fd = 0
  BY IdleIs DEF OpenSteps, UnlinkSteps
<1>3. Still(heap, heap') /\ NamesStay(heap, heap')
  BY InvParts, SameHeapIsStill, SameHeapIsQuiet, IdentityKeepsNames
<1>4. \A n : Unmoved(n)' => Unmoved(n)
  BY <1>2, UnmovedBefore
<1>5. \A n : Unlinking(n) => Unlinking(n)'
  BY <1>2, UnlinkingGoesOn
<1>6. \A n : BeingOpened(n) => BeingOpened(n)'
  BY <1>2, BeingOpenedStays
<1>7. ASSUME Healthy'
      PROVE  DestInv' /\ WriteInv' /\ CopyingInv' /\ NamesInv' /\ StopInv'
  <2>1. DestInv /\ WriteInv /\ CopyingInv /\ NamesInv /\ StopInv
    <3>1. Healthy
      BY <1>7 DEF Healthy
    <3> QED BY <3>1, SessionParts DEF DataInv
  <2>2. DestInv'
    BY <1>4, <2>1 DEF DestInv
  <2>3. WriteInv'
    <3>1. \A fd \in Fds, u \in Threads : call[u].fd = fd => call'[u].fd = fd
      BY <1>2, NoDescriptorIsZero DEF OthersWait
    <3> QED BY <1>3, <1>4, <2>1, <3>1, CallWrites
  <2>4. CopyingInv'
    <3>1. ASSUME cpc \in {"open", "create", "data"}, NEW o \in Objects,
                 o = copying.object, NEW n \in Names, n = NameOf(o)
          PROVE  \/ heap'.objects[o].unlinked \/ cpc' = "open"
                 \/ Unlinking(n)' \/ ~Unmoved(n)'
                 \/ dir'[n] = dir[n] /\ ~Unlinking(n)
      <4>1. CASE dir'[n] = dir[n] \/ ~Unmoved(n)' \/ Unlinking(n)'
        BY <1>5, <4>1
      <4>2. CASE FirstFile(n) /\ cpc # "open" /\ Unmoved(n)'
        <5>1. o \in heap.live
          <6>1. o # Null
            BY NullIsNoObject
          <6> QED BY <3>1, <6>1, InvParts, InHandIsLive
        <5>2. copying.inode # None
          BY <3>1, <4>2, InvParts DEF CopierInv
        <5>3. copying.inode = dir[n] \/ Unlinking(n)
          BY <1>4, <2>1, <3>1, <4>2, <5>1 DEF CopyingInv, FirstFile
        <5> QED BY <4>2, <5>2, <5>3 DEF FirstFile
      <4> QED BY <4>1, <4>2
    <3>2. \A o \in Objects : /\ heap'.objects[o].name = NameOf(o)
                             /\ heap.objects[o].unlinked => heap'.objects[o].unlinked
      BY DEF NameOf
    <3> QED BY <1>4, <2>1, <3>1, <3>2, CopyingStays
  <2>5. NamesInv'
    <3> SUFFICES ASSUME NEW n \in Names, Unmoved(n)' PROVE NameOk(n)'
      BY DEF NamesInv
    <3>1. Unmoved(n) /\ NameOk(n) /\ BackupOf(n)' = BackupOf(n)
      BY <1>4, <2>1 DEF NamesInv, BackupOf, Target
    <3>2. CASE dir'[n] = dir[n]
      <4>1. ToCopy(n) => ToCopy(n)'
        BY DEF ToCopy
      <4>2. SameName(n)
        BY <3>2 DEF SameName, BackupSame
      <4> QED BY <1>5, <1>6, <3>1, <4>1, <4>2, NameStays
    <3>3. CASE Unlinking(n)' /\ dir'[n] = None
      BY <3>3 DEF NameOk, GoneOk, ContentOk, CoverOk
    <3>4. CASE FirstFile(n) /\ BeingOpened(n)'
      <4>1. BackupOf(n)' = Null
        BY <3>1, <3>4 DEF NameOk, GoneOk, FirstFile
      <4>2. Fresh(n)'
        BY <3>4, <4>1 DEF Fresh, FirstFile
      <4> QED BY <3>4, <4>1, <4>2 DEF NameOk, GoneOk, ContentOk, CoverOk, FirstFile
    <3> QED BY <3>2, <3>3, <3>4
  <2>6. StopInv'
    BY <2>1 DEF StopInv
  <2> QED BY <2>2, <2>3, <2>4, <2>5, <2>6
<1> QED BY <1>1, <1>7 DEF DataInv, SessionInv

LEMMA NewDescriptor ==
  ASSUME IInv, InodeInv, NEW t \in Threads, NEW fd \in Fds, NEW n \in Names, NEW i,
         Opens(t, fd, n, i)
  PROVE  InodeInv'
<1> USE DEF Opens
<1>1. /\ dir'[n] = i /\ \A m \in Names \ {n} : dir'[m] = dir[m]
      /\ fds'[fd] = i /\ \A gd \in Fds \ {fd} : fds'[gd] = fds[gd]
      /\ map[fd] = Null
  BY InvParts DEF TypeInv, ApartInv
<1>2. Known \subseteq Known'
  BY DEF Known
<1>3. /\ \A m \in Names : dir'[m] \in Known'
      /\ \A gd \in Fds : fds'[gd] \in Known'
  BY <1>1, <1>2 DEF InodeInv
<1>4. \A j \in 1..MaxCalls : j > lastInode' => data'[j] = 0
  BY DEF InodeInv
<1>5. \A m, k \in Names : dir'[m] = dir'[k] /\ dir'[m] # None => m = k
  BY <1>1 DEF InodeInv
<1>6. ASSUME NEW gd \in Fds, NEW m \in Names, fds'[gd] # None, fds'[gd] = dir'[m]
      PROVE  IF map'[gd] # Null THEN heap'.objects[map'[gd]].name = m
             ELSE \E u \in Threads : call'[u].fd = gd
  <2>1. CASE gd = fd
    BY <1>1, <2>1
  <2>2. CASE gd # fd
    <3>1. fds[gd] # None /\ fds[gd] = dir[m]
      BY <1>1, <1>6, <2>2
    <3>2. IF map[gd] # Null THEN NameOf(map[gd]) = m
          ELSE \E u \in Threads : call[u].fd = gd
      BY <3>1 DEF InodeInv
    <3>3. \A u \in Threads : call[u].fd = gd => call'[u].fd = gd
      BY IdleIs, NoDescriptorIsZero DEF OthersWait
    <3> QED BY <3>2, <3>3 DEF NameOf
  <2> QED BY <2>1, <2>2
<1>7. ASSUME NEW u \in Threads, NEW m \in Names, Opening(u)',
             fds'[call'[u].fd] = dir'[m]
      PROVE  m = call'[u].name
  <2>1. CASE u = t
    <3>1. dir'[m] = i
      BY <1>1, <1>7, <2>1
    <3> QED BY <1>1, <2>1, <3>1
  <2>2. CASE u # t
    <3>1. call'[u] = call[u] /\ Opening(u)
      BY <1>7, <2>2 DEF OthersWait, Opening
    <3>2. call[u].fd \in Fds /\ fds[call[u].fd] # None
      BY <3>1, OpeningIs
    <3>3. fds'[call[u].fd] = fds[call[u].fd]
      BY <1>1, <3>2
    <3>4. fds[call[u].fd] = dir[m]
      BY <1>1, <1>7, <3>1, <3>2, <3>3
    <3> QED BY <3>1, <3>4 DEF InodeInv
  <2> QED BY <2>1, <2>2
<1> QED BY <1>3, <1>4, <1>5, <1>6, <1>7 DEF InodeInv, NameOf

LEMMA OpenBeginKeepsData ==
  ASSUME IInv, IInv', DataInv, Tame, "overwrite" \notin Liberties, NEW t \in Threads,
         NEW n \in Names, NEW creates \in BOOLEAN, NEW truncates \in BOOLEAN,
         OpenBegin(t, n, creates, truncates)
  PROVE  DataInv'
<1>1. PICK fd \in Fds :
        /\ Begin(t, [Idle EXCEPT !.at = "open realpath", !.name = n, !.fd = fd,
                                 !.locked = creates])
        /\ IF dir[n] # None
           THEN /\ May("open", n)
                /\ fds' = [fds EXCEPT ![fd] = dir[n]]
                /\ UNCHANGED <<dir, lastInode>>
           ELSE /\ creates /\ May("create", n)
                /\ lastInode' = lastInode + 1
                /\ dir' = [dir EXCEPT ![n] = lastInode']
                /\ fds' = [fds EXCEPT ![fd] = lastInode']
        /\ fd \in {Min({f \in Fds : fds[f] = None} \cup {MaxFds + 1})}
  BY DEF OpenBegin
<1>f. fds[fd] = None
  <2> DEFINE free == {f \in Fds : fds[f] = None}
             S == free \cup {MaxFds + 1}
  <2>0. MaxFds \in Nat
    BY FileTableAssumption DEF FileTableAssumption
  <2>1. S \in SUBSET Nat /\ S # {}
    BY <2>0 DEF Fds
  <2>2. Min(S) \in S
    <3> HIDE DEF S
    <3> QED BY <2>1, MinIsInSet
  <2>3. MaxFds + 1 \notin Fds
    BY <2>0 DEF Fds
  <2>4. fd = Min(S)
    BY <1>1
  <2>5. fd \in free
    <3> HIDE DEF free
    <3> QED BY <2>2, <2>3, <2>4
  <2> QED BY <2>5
<1> DEFINE c == [Idle EXCEPT !.at = "open realpath", !.name = n, !.fd = fd,
                             !.locked = creates]
<1>2. call[t] = Idle /\ callsLeft > 0 /\ callsLeft' = callsLeft - 1
      /\ call' = [call EXCEPT ![t] = c]
  BY <1>1 DEF Begin
<1>c. c \in CallType /\ c.at = "open realpath" /\ c.fd = fd /\ c.name = n
  BY IdleIs DEF CallType, Steps, HoldsFd, OpenSteps
<1> HIDE DEF c
<1>3. OthersWait(t) /\ call'[t] = c
  BY <1>2, <1>c, InvParts, CallBecomes
<1>4. /\ UNCHANGED <<heap, map, data, session, running, failed, cpc, copying,
                     todo, renamed, wrong, ghosts, kept>>
  BY DEF OpenBegin, sessionVars
<1>5. dir[n] = None => ~InUse(n)
  BY <1>1, NamesAreFree DEF Tame
<1>6. dir[n] = None =>
      /\ \A gd \in Fds : map[gd] # Null => NameOf(map[gd]) # n
      /\ \A o \in heap.live : NameOf(o) = n => ~heap.objects[o].unlinked
      /\ ~Unlinking(n)
  BY <1>5, NotInUse
<1>i. InodeInv
  BY DEF DataInv
<1>t. /\ lastInode \in Nat /\ lastInode + 1 \in 1..MaxCalls /\ lastInode' \in Nat
      /\ dir \in [Names -> Inodes \cup {None}] /\ fds \in [Fds -> Inodes \cup {None}]
      /\ map[fd] = Null
  BY <1>f, <1>1, <1>2, InvParts, OneCallLess DEF TypeInv, ApartInv
<1>new. PICK i : i = IF dir[n] # None THEN dir[n] ELSE lastInode'
  OBVIOUS
<1>7. /\ i # None /\ i \in Known'
      /\ dir' = [dir EXCEPT ![n] = i] /\ fds' = [fds EXCEPT ![fd] = i]
      /\ \A m \in Names \ {n} : dir[m] # i
      /\ dir[n] = i \/ \A gd \in Fds : fds[gd] # None => fds[gd] # i
      /\ lastInode' >= lastInode
      /\ dir[n] = None => data[i] = 0
  <2>1. CASE dir[n] # None
    <3>1. /\ fds' = [fds EXCEPT ![fd] = dir[n]] /\ dir' = [dir EXCEPT ![n] = dir[n]]
          /\ lastInode' = lastInode
      BY <1>1, <1>t, <2>1
    <3>2. dir[n] \in Known' /\ \A m \in Names \ {n} : dir[m] # dir[n]
      BY <1>i, <2>1, <3>1 DEF InodeInv, Known
    <3> QED BY <1>6, <1>t, <1>new, <2>1, <3>1, <3>2
  <2>2. CASE dir[n] = None
    <3>1. /\ lastInode' = lastInode + 1 /\ dir' = [dir EXCEPT ![n] = lastInode']
          /\ fds' = [fds EXCEPT ![fd] = lastInode']
      BY <1>1, <2>2
    <3>2. /\ lastInode' \in Known' /\ lastInode' \in 1..MaxCalls
          /\ lastInode' > lastInode /\ lastInode' # None
      BY <1>t, <3>1 DEF Known, None
    <3>3. \A j \in Known : j # None => j # lastInode'
      BY <1>i, <1>t, <3>2, WrittenIsKnown
    <3>4. /\ \A m \in Names \ {n} : dir[m] # lastInode'
          /\ \A gd \in Fds : fds[gd] # None => fds[gd] # lastInode'
          /\ data[lastInode'] = 0
      BY <1>i, <3>2, <3>3 DEF InodeInv
    <3> QED BY <1>t, <1>new, <2>2, <3>1, <3>2, <3>4
  <2> QED BY <2>1, <2>2
<1>8. InodeInv'
  <2>1. call'[t].fd = fd /\ call'[t].name = n
    BY <1>3, <1>c
  <2>2. UNCHANGED <<heap, map, data>> /\ call[t] = Idle /\ OthersWait(t)
    BY <1>2, <1>3, <1>4
  <2>3. Opens(t, fd, n, i)
    BY <1>7, <1>f, <1>t, <2>1, <2>2 DEF Opens
  <2> QED BY <1>i, <2>3, NewDescriptor
<1>9. ASSUME NEW gd \in Fds, map[gd] # Null
      PROVE  /\ fds'[gd] = fds[gd]
             /\ dir'[NameOf(map[gd])] \in {dir[NameOf(map[gd])], None}
  <2>1. gd # fd
    BY <1>9, <1>t
  <2>2. \A m \in Names : dir'[m] = dir[m] \/ (m = n /\ dir[n] = None)
    BY <1>1, <1>7, <1>t
  <2>3. NameOf(map[gd]) \in Names
    BY <1>9, InvParts, InHandIsLive DEF Tidy, NameOf
  <2> QED BY <1>6, <1>7, <1>9, <1>t, <2>1, <2>2, <2>3
<1>10. ASSUME NEW m \in Names
       PROVE  dir'[m] = dir[m] \/ (FirstFile(m) /\ BeingOpened(m)')
  <2>1. CASE m # n \/ dir[n] # None
    BY <1>1, <1>7, <1>t, <2>1
  <2>2. CASE m = n /\ dir[n] = None
    <3>1. BeingOpened(n)'
      BY <1>3, <1>c DEF BeingOpened, OpenSteps
    <3>2. FirstFile(n)
      BY <1>6, <1>7, <1>t, <2>2 DEF FirstFile
    <3> QED BY <2>2, <3>1, <3>2
  <2> QED BY <2>1, <2>2
<1> QED BY <1>2, <1>3, <1>4, <1>8, <1>9, <1>10, BeginKeepsData

LEMMA UnlinkBeginKeepsData ==
  ASSUME IInv, IInv', DataInv, NEW t \in Threads, NEW n \in Names, UnlinkBegin(t, n)
  PROVE  DataInv'
<1> DEFINE c == [Idle EXCEPT !.at = "unlink table", !.name = n, !.locked = TRUE]
<1>1. /\ call[t] = Idle /\ call' = [call EXCEPT ![t] = c]
      /\ dir' = [dir EXCEPT ![n] = None]
      /\ UNCHANGED <<lastInode, fds>>
      /\ UNCHANGED <<heap, map, data, session, running, failed, cpc, copying,
                     todo, renamed, wrong, ghosts, kept>>
  BY DEF UnlinkBegin, Begin, sessionVars
<1>c. c \in CallType /\ c.at = "unlink table" /\ c.name = n
  BY IdleIs DEF CallType, Steps, Locks
<1> HIDE DEF c
<1>2. OthersWait(t) /\ call'[t] = c
  BY <1>1, <1>c, InvParts, CallBecomes
<1>3. dir'[n] = None /\ \A m \in Names \ {n} : dir'[m] = dir[m]
  BY <1>1, InvParts DEF TypeInv
<1>i. InodeInv
  BY DEF DataInv
<1>4. InodeInv'
  <2>1. NamesStay(heap, heap')
    BY <1>1, InvParts, SameHeapIsQuiet, IdentityKeepsNames
  <2>2. ~Opening(t)'
    BY <1>2, <1>c DEF Opening
  <2>3. \A m \in Names : dir'[m] \in {dir[m], None}
    BY <1>3
  <2>4. call[t].fd \notin Fds
    BY <1>1, IdleIs, NoDescriptorIsZero
  <2> QED BY <1>1, <1>2, <1>i, <2>1, <2>2, <2>3, <2>4, CallInode
<1>5. ASSUME NEW fd \in Fds, map[fd] # Null
      PROVE  dir'[NameOf(map[fd])] \in {dir[NameOf(map[fd])], None}
  <2>1. NameOf(map[fd]) \in Names
    BY <1>5, InvParts, InHandIsLive DEF Tidy, NameOf
  <2> QED BY <1>3, <2>1
<1>6. Unlinking(n)'
  BY <1>2, <1>c DEF Unlinking
<1> QED BY <1>1, <1>2, <1>3, <1>4, <1>5, <1>6, BeginKeepsData

LEMMA RenameBeginKeepsData ==
  ASSUME IInv, IInv', DataInv, Tame, NEW t \in Threads, NEW from \in Names,
         NEW to \in Names, RenameBegin(t, from, to)
  PROVE  DataInv'
<1> DEFINE c == [Idle EXCEPT !.at = "rename capture", !.name = from, !.to = to,
                             !.locked = TRUE]
<1>1. /\ call[t] = Idle /\ call' = [call EXCEPT ![t] = c]
      /\ dir[from] # None /\ from # to
      /\ May("rename", from) /\ May("rename", to)
      /\ dir' = [dir EXCEPT ![to] = dir[from], ![from] = None]
      /\ UNCHANGED <<lastInode, fds>>
      /\ UNCHANGED <<heap, map, data, session, running, failed, cpc, copying,
                     todo, renamed, wrong, ghosts, kept>>
  BY DEF RenameBegin, Begin, sessionVars
<1>c. c \in CallType /\ c.at = "rename capture" /\ c.name = from /\ c.to = to
  BY IdleIs DEF CallType, Steps, Locks
<1> HIDE DEF c
<1>2. OthersWait(t) /\ call'[t] = c
  BY <1>1, <1>c, InvParts, CallBecomes
<1>3. /\ dir'[from] = None /\ dir'[to] = dir[from]
      /\ \A m \in Names \ {from, to} : dir'[m] = dir[m]
  BY <1>1, InvParts DEF TypeInv
<1>4. ~InUse(from) /\ ~InUse(to)
  BY <1>1, NamesAreFree DEF Tame
<1>5. /\ \A fd \in Fds : map[fd] # Null => NameOf(map[fd]) \notin {from, to}
      /\ \A fd \in Fds : fds[fd] # None => fds[fd] # dir[from]
      /\ \A u \in Threads : call[u].name \notin {from, to}
  BY <1>4, NotInUse
<1>i. InodeInv
  BY DEF DataInv
<1>6. InodeInv'
  <2>1. /\ \A m \in Names : dir'[m] \in Known'
        /\ \A fd \in Fds : fds'[fd] \in Known'
    BY <1>1, <1>3, <1>i DEF InodeInv, Known
  <2>2. \A j \in 1..MaxCalls : j > lastInode' => data'[j] = 0
    BY <1>1, <1>i DEF InodeInv
  <2>3. ASSUME NEW m \in Names, NEW k \in Names, dir'[m] = dir'[k], dir'[m] # None
        PROVE  m = k
    <3>1. m # from /\ k # from
      BY <1>3, <2>3
    <3>2. dir'[m] = IF m = to THEN dir[from] ELSE dir[m]
      BY <1>3, <3>1
    <3>3. dir'[k] = IF k = to THEN dir[from] ELSE dir[k]
      BY <1>3, <3>1
    <3> QED BY <1>i, <2>3, <3>1, <3>2, <3>3 DEF InodeInv
  <2>4. ASSUME NEW fd \in Fds, NEW m \in Names, fds[fd] # None, fds[fd] = dir'[m]
        PROVE  m \notin {from, to} /\ fds[fd] = dir[m]
    BY <1>3, <1>5, <2>4
  <2>5. ASSUME NEW fd \in Fds, NEW m \in Names, fds'[fd] # None, fds'[fd] = dir'[m]
        PROVE  IF map'[fd] # Null THEN heap'.objects[map'[fd]].name = m
               ELSE \E u \in Threads : call'[u].fd = fd
    <3>1. fds[fd] # None /\ fds[fd] = dir[m]
      BY <1>1, <2>4, <2>5
    <3>2. IF map[fd] # Null THEN NameOf(map[fd]) = m
          ELSE \E u \in Threads : call[u].fd = fd
      BY <1>i, <3>1 DEF InodeInv
    <3>3. \A u \in Threads : call[u].fd = fd => call'[u].fd = fd
      BY <1>1, <1>2, IdleIs, NoDescriptorIsZero DEF OthersWait
    <3> QED BY <1>1, <3>2, <3>3 DEF NameOf
  <2>6. ASSUME NEW u \in Threads, NEW m \in Names, Opening(u)',
               fds'[call'[u].fd] = dir'[m]
        PROVE  m = call'[u].name
    <3>1. call'[u] = call[u] /\ Opening(u)
      BY <1>2, <1>c, <2>6 DEF OthersWait, Opening
    <3>2. call[u].fd \in Fds /\ fds[call[u].fd] # None
      BY <3>1, OpeningIs
    <3>3. fds[call[u].fd] = dir[m]
      BY <1>1, <2>4, <2>6, <3>1, <3>2
    <3> QED BY <1>i, <3>1, <3>3 DEF InodeInv
  <2> QED BY <2>1, <2>2, <2>3, <2>5, <2>6 DEF InodeInv, NameOf
<1>7. ASSUME NEW fd \in Fds, map[fd] # Null
      PROVE  dir'[NameOf(map[fd])] = dir[NameOf(map[fd])]
  <2>1. NameOf(map[fd]) \in Names
    BY <1>7, InvParts, InHandIsLive DEF Tidy, NameOf
  <2> QED BY <1>3, <1>5, <1>7, <2>1
<1>8. ~Unmoved(from)' /\ ~Unmoved(to)'
  <2>1. Renaming(from)' /\ Renaming(to)'
    BY <1>2, <1>c DEF Renaming
  <2> QED BY <2>1 DEF Unmoved
<1> QED BY <1>1, <1>2, <1>3, <1>6, <1>7, <1>8, BeginKeepsData

LEMMA UnlinkCaptureKeepsData ==
  ASSUME IInv, IInv', DataInv, Tame, NEW t \in Threads, UnlinkCapture(t)
  PROVE  DataInv'
<1>0. /\ call[t].at = "unlink capture" /\ call[t].name \in Names
      /\ call[t].object \in heap.live /\ NameOf(call[t].object) = call[t].name
      /\ dir[call[t].name] = None /\ call[t].fd \notin Fds
  BY InvParts, TameParts, InHandIsLive, NoDescriptorIsZero
     DEF UnlinkCapture, CallInv, CallOk, Locks, HoldsFd, OpenSteps, HoldsObject, UnlinkedAreGone
<1>n. PICK n \in Names : n = call[t].name
  BY <1>0
<1>o. PICK o \in heap.live : o = call[t].object /\ NameOf(o) = n
  BY <1>0, <1>n
<1>l. /\ ~heap.objects[o].unlinked /\ o \in Objects /\ heap.live \subseteq Objects
      /\ heap.objects[o].refs \in Nat /\ heap.objects[o].refs >= 1
  <2>1. /\ ~heap.objects[o].unlinked /\ o \in Objects /\ heap.live \subseteq Objects
        /\ heap.objects[o].refs \in Nat
    BY <1>0, <1>n, <1>o, InvParts, TameParts, HeapFields DEF UnlinkedAreGone
  <2>2. <<"call", t>> \in Users(o)
    BY <1>o, <2>1, UserIs
  <2> QED BY <2>1, <2>2, InvParts, UsedIsLive
<1>1. /\ Return(t)
      /\ UNCHANGED <<dir, lastInode, data, fds, map, session, running, cpc,
                     copying, todo, renamed, wrong, ghosts, kept>>
  BY DEF UnlinkCapture, sourceVars, sessionVars
<1>2. OthersWait(t) /\ call'[t] = Idle
  BY <1>1, InvParts, ReturnIs
<1>3. Unlinked(heap, heap', o) /\ failed' = failed
  BY <1>o, TameParts, UnlinkCaptureIs
<1>4. ASSUME NEW p \in heap'.live, p \in Objects
      PROVE  /\ p \in heap.live /\ heap'.objects[p].name = NameOf(p)
             /\ heap.objects[p].unlinked => heap'.objects[p].unlinked
             /\ p = o => heap'.objects[p].unlinked
             /\ Dest(heap, p) # NoDestination => Dest(heap', p) # NoDestination
  <2>1. CASE p = o
    <3>1. heap.objects[o].refs > 1
      BY <1>3, <1>l, <1>4, <2>1 DEF Unlinked
    <3> QED BY <1>3, <2>1, <3>1 DEF Unlinked, NameOf
  <2>2. CASE p # o
    <3>1. heap'.objects[p] = heap.objects[p]
      BY <1>3, <1>4, <2>2 DEF Unlinked, OnlyObject
    <3>2. heap'.live \subseteq heap.live
      BY <1>3, <1>l DEF Unlinked
    <3> QED BY <2>2, <3>1, <3>2 DEF NameOf, Dest
  <2> QED BY <2>1, <2>2
<1>5. /\ \A fd \in Fds : map[fd] # Null => map[fd] \in heap'.live /\ map[fd] \in Objects
      /\ copying.object # Null => copying.object \in heap'.live
  BY <1>1, <1>l, InvParts, InHandStays, InHandIsLive DEF IInv, InHandLive
<1>i. InodeInv
  BY DEF DataInv
<1>6. InodeInv'
  <2>1. ASSUME NEW fd \in Fds
        PROVE  \/ /\ map'[fd] # Null /\ map'[fd] = map[fd]
                  /\ heap'.objects[map[fd]].name = NameOf(map[fd])
               \/ /\ map'[fd] = Null /\ map[fd] = Null
                  /\ \A u \in Threads : call[u].fd = fd => call'[u].fd = fd
    BY <1>0, <1>1, <1>2, <1>4, <1>5 DEF OthersWait
  <2>2. ASSUME NEW u \in Threads, Opening(u)'
        PROVE  /\ Opening(u) /\ call'[u] = call[u] /\ call[u].fd \in Fds
               /\ fds'[call[u].fd] # None
    <3>1. Opening(u) /\ call'[u] = call[u]
      BY <1>2, <2>2, IdleIs DEF OthersWait, Opening
    <3> QED BY <1>1, <3>1, OpeningIs
  <2> QED BY <1>1, <1>i, <2>1, <2>2, InodeStays
<1>7. ResultInv'
  BY <1>1 DEF DataInv, ResultInv, Stale
<1>8. ASSUME Healthy'
      PROVE  DestInv' /\ WriteInv' /\ CopyingInv' /\ NamesInv' /\ StopInv'
  <2>1. Healthy
    BY <1>1, <1>3, <1>8 DEF Healthy
  <2>2. DestInv /\ WriteInv /\ CopyingInv /\ NamesInv /\ StopInv
    BY <2>1, SessionParts DEF DataInv
  <2>3. /\ call[t].at \notin OpenSteps /\ call[t].at # "rename capture"
    BY <1>0 DEF OpenSteps
  <2>4. \A m : Unmoved(m)' => Unmoved(m)
    BY <1>1, <1>2, <2>3, UnmovedBefore
  <2>5. \A m : BeingOpened(m) => BeingOpened(m)'
    BY <1>2, <2>3, BeingOpenedStays
  <2>6. \A m : m # n /\ Unlinking(m) => Unlinking(m)'
    BY <1>2, <1>n, UnlinkingGoesOn
  <2>7. /\ OnePath(heap', session)
        /\ Unmoved(n) => /\ DestAgrees(heap', session, n)
                         /\ heap'.bdir[<<session, n>>] = Null
        /\ \A m \in Names \ {n} :
             /\ BackupSame(heap, heap', session, m)
             /\ DestAgrees(heap, session, m) => DestAgrees(heap', session, m)
    <3>1. PICK s \in 1..MaxSessions : s = session
      BY <2>1, InvParts, SessionNumber DEF Healthy
    <3> DEFINE g == MarkUnlinked(UnlinkBackup(heap, o, <<s, n>>), o)
    <3>2. heap' = g
      <4>1. Target(call[t].name) = <<s, n>> /\ "unlink" \notin Failures
        BY <1>n, <3>1 DEF Target, Tame, Orderly
      <4> QED BY <1>o, <2>1, <4>1 DEF UnlinkCapture, CreationFails, Healthy
    <3>3. /\ Tidy(heap) /\ FilesApart(heap, s) /\ DestinationsIn(heap, s, kept)
          /\ heap.objects[o].name = n /\ OnePath(heap, s)
      BY <1>o, <2>1, <2>2, <3>1, InvParts 
         DEF Healthy, BackupInv, Current, DestInv, NameOf
    <3>4. /\ OnePath(g, s)
          /\ n \notin {p[2] : p \in kept} =>
               DestAgrees(g, s, n) /\ g.bdir[<<s, n>>] = Null
          /\ \A m \in Names \ {n} :
               /\ BackupSame(heap, g, s, m)
               /\ DestAgrees(heap, s, m) => DestAgrees(g, s, m)
      BY <1>l, <3>3, UnlinkKeepsBackup
    <3> HIDE DEF g
    <3>5. Unmoved(n) => n \notin {p[2] : p \in kept}
      <4>1. \A p \in kept : p[1] < session
        BY <2>1, InvParts DEF Healthy, BackupInv
      <4> QED BY <4>1 DEF Unmoved, Stale
    <3> QED BY <3>1, <3>2, <3>4, <3>5
  <2>8. DestInv'
    BY <1>1, <2>2, <2>4, <2>7 DEF DestInv
  <2>9. WriteInv'
    <3> SUFFICES ASSUME NEW fd \in Fds PROVE WriteOk(fd)'
      BY DEF WriteInv
    <3>1. WriteOk(fd)
      BY <2>2 DEF WriteInv
    <3>2. \A u \in Threads : call[u].fd = fd => call'[u].fd = fd
      BY <1>0, <1>2 DEF OthersWait
    <3>3. map[fd] # Null => fds[fd] # None
      BY InvParts DEF ApartInv
    <3> QED BY <1>1, <1>4, <1>5, <2>4, <3>1, <3>2, <3>3, WriteStays
  <2>10. CopyingInv'
    <3>1. ASSUME NEW p \in Objects, p = copying.object
          PROVE  /\ heap'.objects[p].name = NameOf(p)
                 /\ heap.objects[p].unlinked => heap'.objects[p].unlinked
                 /\ \A m \in Names : m = NameOf(p) =>
                      \/ heap'.objects[p].unlinked \/ Unlinking(m)'
                      \/ dir'[m] = dir[m] /\ ~Unlinking(m)
      <4>1. p \in heap'.live
        BY <1>5, <3>1, NullIsNoObject
      <4>2. p # o => NameOf(p) # n
        BY <1>4, <1>o, <4>1, InvParts DEF Tidy, NameOf
      <4> QED BY <1>1, <1>4, <2>6, <4>1, <4>2
    <3> QED BY <1>1, <2>2, <2>4, <3>1, CopyingStays
  <2>11. NamesInv'
    <3> SUFFICES ASSUME NEW m \in Names, Unmoved(m)' PROVE NameOk(m)'
      BY DEF NamesInv
    <3>1. CASE m = n
      <4>1. dir'[n] = None /\ BackupOf(n)' = Null
        <5>1. Unmoved(n)
          BY <2>4, <3>1
        <5> QED BY <1>0, <1>1, <1>n, <2>7, <5>1 DEF BackupOf, Target
      <4> QED BY <3>1, <4>1 DEF NameOk, GoneOk, ContentOk, CoverOk
    <3>2. CASE m # n
      <4>1. NameOk(m)
        BY <2>2, <2>4 DEF NamesInv
      <4>2. ToCopy(m) => ToCopy(m)'
        BY <1>1 DEF ToCopy
      <4>3. SameName(m)
        BY <1>1, <2>7, <3>2 DEF SameName
      <4> QED BY <1>1, <2>5, <2>6, <3>2, <4>1, <4>2, <4>3, NameStays
    <3> QED BY <3>1, <3>2
  <2>12. StopInv'
    BY <1>1, <2>2 DEF StopInv
  <2> QED BY <2>8, <2>9, <2>10, <2>11, <2>12
<1> QED BY <1>6, <1>7, <1>8 DEF DataInv, SessionInv

LEMMA RenameCaptureKeepsData ==
  ASSUME IInv, IInv', DataInv, Tame, EnoughObjects, NEW t \in Threads, RenameCapture(t)
  PROVE  DataInv'
<1>0. /\ call[t].at = "rename capture" /\ call[t].name \in Names
      /\ call[t].to \in Names /\ call[t].fd \notin Fds
  BY InvParts, NoDescriptorIsZero DEF RenameCapture, CallInv, CallOk, Locks, HoldsFd, OpenSteps
<1>f. PICK from \in Names : from = call[t].name
  BY <1>0
<1>t. PICK to \in Names : to = call[t].to
  BY <1>0
<1>1. /\ Return(t)
      /\ UNCHANGED <<dir, lastInode, data, fds, map, session, running, cpc,
                     copying, wrong, ghosts, kept>>
  BY DEF RenameCapture, sourceVars, sessionVars
<1>2. OthersWait(t) /\ call'[t] = Idle
  BY <1>1, InvParts, ReturnIs
<1>3. /\ heap' = heap \/ \E o \in Objects : Renamed(heap, heap', o, from, to)
      /\ running => /\ renamed' = renamed \cup {from, to} /\ failed' = failed
                    /\ todo' = todo \cup {Elsewhere}
                    /\ OnePath(heap, session) =>
                         BackupRenamed(heap, heap', session, from, to)
  BY <1>f, <1>t, TameParts, RenameCaptureIs
<1>l. heap.live \subseteq Objects
  BY InvParts, HeapFields
<1>5. ASSUME NEW p \in heap.live
      PROVE  \/ heap'.objects[p] = heap.objects[p]
             \/ /\ NameOf(p) = from /\ heap'.objects[p].name = to
                /\ \A fd \in Fds : map[fd] # p
  <2>1. CASE heap' = heap
    BY <2>1
  <2>2. ASSUME NEW o \in Objects, Renamed(heap, heap', o, from, to)
        PROVE  \/ heap'.objects[p] = heap.objects[p]
               \/ /\ NameOf(p) = from /\ heap'.objects[p].name = to
                  /\ \A fd \in Fds : map[fd] # p
    <3>1. CASE p # o
      BY <1>l, <2>2, <3>1 DEF Renamed, OnlyObject
    <3>2. CASE p = o
      <4>1. NameOf(p) = from /\ heap'.objects[p].name = to
        BY <2>2, <3>2 DEF Renamed, NameOf
      <4> QED BY <1>0, <1>f, <4>1, OnlyTheCopier
    <3> QED BY <3>1, <3>2
  <2> QED BY <1>3, <2>1, <2>2
<1>6. ASSUME NEW fd \in Fds, map[fd] # Null
      PROVE  map[fd] \in heap.live /\ heap'.objects[map[fd]] = heap.objects[map[fd]]
  <2>1. map[fd] \in heap.live
    BY <1>6, InvParts, InHandIsLive
  <2> QED BY <1>5, <1>6, <2>1
<1>i. InodeInv
  BY DEF DataInv
<1>7. InodeInv'
  <2>1. ASSUME NEW fd \in Fds
        PROVE  \/ /\ map'[fd] # Null /\ map'[fd] = map[fd]
                  /\ heap'.objects[map[fd]].name = NameOf(map[fd])
               \/ /\ map'[fd] = Null /\ map[fd] = Null
                  /\ \A u \in Threads : call[u].fd = fd => call'[u].fd = fd
    BY <1>0, <1>1, <1>2, <1>6 DEF OthersWait, NameOf
  <2>2. ASSUME NEW u \in Threads, Opening(u)'
        PROVE  /\ Opening(u) /\ call'[u] = call[u] /\ call[u].fd \in Fds
               /\ fds'[call[u].fd] # None
    <3>1. Opening(u) /\ call'[u] = call[u]
      BY <1>2, <2>2, IdleIs DEF OthersWait, Opening
    <3> QED BY <1>1, <3>1, OpeningIs
  <2> QED BY <1>1, <1>i, <2>1, <2>2, InodeStays
<1>8. ResultInv'
  <2>1. renamed \subseteq renamed'
    BY <1>3 DEF RenameCapture
  <2> QED BY <1>1, <2>1 DEF DataInv, ResultInv, Stale
<1>9. ASSUME Healthy'
      PROVE  DestInv' /\ WriteInv' /\ CopyingInv' /\ NamesInv' /\ StopInv'
  <2>0. running
    BY <1>1, <1>9 DEF Healthy
  <2>1. Healthy
    <3>1. failed' = failed
      BY <1>3, <2>0
    <3> QED BY <1>1, <1>9, <2>0, <3>1 DEF Healthy
  <2>2. DestInv /\ WriteInv /\ CopyingInv /\ NamesInv /\ StopInv
    BY <2>1, SessionParts DEF DataInv
  <2>3. /\ call[t].at \notin OpenSteps /\ call[t].at \notin UnlinkSteps
    BY <1>0 DEF OpenSteps, UnlinkSteps
  <2>r. /\ renamed' = renamed \cup {from, to} /\ todo' = todo \cup {Elsewhere}
        /\ BackupRenamed(heap, heap', session, from, to)
    BY <1>3, <2>0, <2>2 DEF DestInv
  <2>m. ~Unmoved(from)' /\ ~Unmoved(to)'
    BY <2>r DEF Unmoved
  <2>4. \A m : Unmoved(m)' => Unmoved(m)
    BY <1>1, <1>2, <1>f, <1>t, <2>r, UnmovedBefore
  <2>5. \A m : BeingOpened(m) => BeingOpened(m)'
    BY <1>2, <2>3, BeingOpenedStays
  <2>6. \A m : Unlinking(m) => Unlinking(m)'
    BY <1>2, <2>3, UnlinkingGoesOn
  <2>7. DestInv'
    <3>1. \A m \in Names : Unmoved(m)' => m \in Names \ {from, to} /\ Unmoved(m)
      BY <2>4, <2>m
    <3>2. \A m \in Names : Unmoved(m)' => DestAgrees(heap', session, m)
      BY <2>2, <2>r, <3>1 DEF DestInv, BackupRenamed
    <3> QED BY <1>1, <2>r, <3>2 DEF DestInv, BackupRenamed
  <2>8. WriteInv'
    <3> SUFFICES ASSUME NEW fd \in Fds PROVE WriteOk(fd)'
      BY DEF WriteInv
    <3>1. WriteOk(fd)
      BY <2>2 DEF WriteInv
    <3>2. \A u \in Threads : call[u].fd = fd => call'[u].fd = fd
      BY <1>0, <1>2 DEF OthersWait
    <3>3. map[fd] # Null => fds[fd] # None
      BY InvParts DEF ApartInv
    <3> QED BY <1>1, <1>6, <2>4, <3>1, <3>2, <3>3, WriteStays DEF NameOf, Dest
  <2>9. CopyingInv'
    <3> SUFFICES ASSUME cpc \in {"open", "create", "data"}, NEW o \in Objects,
                        o = copying.object
                 PROVE  CopyingInv'
      BY <1>1 DEF CopyingInv
    <3>1. o \in heap.live
      BY NullIsNoObject, InvParts, InHandIsLive
    <3>2. CASE heap'.objects[o] = heap.objects[o]
      <4>1. \A m : dir'[m] = dir[m] /\ (Unlinking(m) => Unlinking(m)')
        BY <1>1, <2>6
      <4>2. ASSUME NEW p \in Objects, p = copying.object PROVE p = o
        BY <4>2
      <4> QED BY <1>1, <2>2, <2>4, <3>2, <4>1, <4>2, CopyingStays DEF NameOf
    <3>3. CASE NameOf(o) = from /\ heap'.objects[o].name = to
      <4>n. PICK n : n = copying.name
        OBVIOUS
      <4>1. n = from \/ ~Unmoved(n)
        BY <2>2, <3>3, <4>n DEF CopyingInv
      <4>2. ~Unmoved(n)'
        BY <2>4, <2>m, <4>1
      <4>3. ~Unmoved(copying.name)'
        BY <1>1, <4>2, <4>n DEF Unmoved, Renaming
      <4> QED BY <1>1, <2>m, <3>3, <4>3 DEF CopyingInv, NameOf, Unmoved, Renaming
    <3> QED BY <1>5, <3>1, <3>2, <3>3
  <2>10. NamesInv'
    <3> SUFFICES ASSUME NEW m \in Names, Unmoved(m)' PROVE NameOk(m)'
      BY DEF NamesInv
    <3>1. NameOk(m) /\ m \notin {from, to}
      BY <2>2, <2>4, <2>m DEF NamesInv
    <3>2. ToCopy(m) => ToCopy(m)'
      BY <1>1, <2>r DEF ToCopy
    <3>3. SameName(m)
      BY <1>1, <2>r, <3>1 DEF SameName, BackupRenamed
    <3> QED BY <1>1, <2>5, <2>6, <3>1, <3>2, <3>3, NameStays
  <2>11. StopInv'
    <3>1. Elsewhere \notin Names
      BY FileTableAssumption DEF Elsewhere
    <3> QED BY <1>1, <2>2, <2>r, <3>1 DEF StopInv
  <2> QED BY <2>7, <2>8, <2>9, <2>10, <2>11
<1> QED BY <1>7, <1>8, <1>9 DEF DataInv, SessionInv

LEMMA CopyCreateKeepsData ==
  ASSUME IInv, IInv', DataInv, Tame, CopyCreate PROVE DataInv'
<1>0. /\ cpc = "create" /\ running /\ copying.name \in Names
      /\ copying.object \in heap.live
      /\ NameOf(copying.object) = copying.name
           \/ ~NeedsDestination(heap, copying.object)
  BY InvParts, InHandIsLive DEF CopyCreate, CopierInv, CopierHolds, CopyInv
<1>n. PICK n \in Names : n = copying.name
  BY <1>0
<1>o. PICK o \in heap.live : o = copying.object
  BY <1>0
<1>1. UNCHANGED <<dir, lastInode, data, fds, map, call, session, running, todo,
                  failed, copying, renamed, wrong, ghosts, kept>>
  BY DEF CopyCreate, CopierVarsUnchanged, sourceVars
<1>2. \/ /\ dir[n] = None /\ heap' = heap /\ cpc' = "close"
      \/ dir[n] # None /\ heap' = heap /\ cpc' = "give up"
      \/ /\ dir[n] # None /\ heap' = TryToCreateDestination(heap, o, Target(n))
         /\ cpc' = IF Dest(heap', o) # NoDestination THEN "data" ELSE "close"
  BY <1>n, <1>o DEF CopyCreate
<1>3. CASE /\ heap' = heap
           /\ (dir[n] = None /\ cpc' = "close") \/ cpc' = "give up"
  <2>1. Still(heap, heap') /\ NamesStay(heap, heap')
    BY <1>3, InvParts, SameHeapIsStill, SameHeapIsQuiet, IdentityKeepsNames
  <2>2. Healthy' => Healthy /\ dir[n] = None
    BY <1>0, <1>1, <1>3 DEF Healthy
  <2>3. dir[n] = None => \A m \in Names : ToCopy(m) => dir[m] = None \/ ToCopy(m)'
    BY <1>0, <1>1, <1>n DEF ToCopy
  <2>4. CopyingInv' /\ StopInv'
    BY <1>3 DEF CopyingInv, StopInv
  <2>5. \A fd \in Fds : map[fd] # Null => Dest(heap', map[fd]) = Dest(heap, map[fd])
    BY <1>3
  <2> QED BY <1>1, <2>1, <2>2, <2>3, <2>4, <2>5, QuietCopierStep
<1>4. CASE /\ dir[n] # None /\ heap' = TryToCreateDestination(heap, o, Target(n))
           /\ cpc' = IF Dest(heap', o) # NoDestination THEN "data" ELSE "close"
  <2>i. SameIdentity(heap, heap') /\ NamesStay(heap, heap')
    <3>1. session \in 1..MaxSessions
      BY <1>0, InvParts, SessionNumber
    <3>2. SameIdentity(heap, heap')
      BY <1>0, <1>4, <1>n, <1>o, <3>1, InvParts, CreateInSession
         DEF BackupInv, Current, Target, NameOf
    <3> QED BY <3>2, InvParts, IdentityKeepsNames
  <2>1. InodeInv'
    BY <1>1, <2>i, CopierInode DEF DataInv
  <2>2. ResultInv'
    BY <1>1 DEF DataInv, ResultInv, Stale
  <2>3. ASSUME Healthy'
        PROVE  DestInv' /\ WriteInv' /\ CopyingInv' /\ NamesInv' /\ StopInv'
    <3>1. DestInv /\ WriteInv /\ CopyingInv /\ NamesInv /\ StopInv
      <4>1. Healthy
        BY <1>0, <1>1, <2>3 DEF Healthy
      <4> QED BY <4>1, SessionParts DEF DataInv
    <3>2. /\ BackupCreated(heap, heap', session, n) /\ DestinationsIn(heap', session, kept)
          /\ \A p \in heap.live : Dest(heap, p) # NoDestination =>
               Dest(heap', p) # NoDestination
          /\ ~heap.objects[o].unlinked => Dest(heap', o) # NoDestination
      BY <1>0, <1>4, <1>n, <1>o, <3>1, CreateData DEF DestInv
    <3>c. /\ \A m : BeingOpened(m) => BeingOpened(m)'
          /\ \A m : Unlinking(m)' <=> Unlinking(m)
          /\ \A m : Unmoved(m)' <=> Unmoved(m)
      BY <1>1, SameCalls
    <3>3. DestInv'
      BY <1>1, <3>1, <3>2, <3>c DEF DestInv, BackupCreated
    <3>4. WriteInv'
      <4>1. \A fd \in Fds : map[fd] # Null => map[fd] \in heap.live
        BY InvParts, InHandIsLive
      <4> QED BY <1>1, <2>i, <3>1, <3>2, <4>1, CopierWrites
    <3>5. CopyingInv'
      <4>1. \A p \in Objects : /\ heap'.objects[p].name = NameOf(p)
                               /\ heap.objects[p].unlinked => heap'.objects[p].unlinked
        BY <2>i DEF SameIdentity, NameOf
      <4>2. \A m : Unlinking(m)' \/ (dir'[m] = dir[m] /\ ~Unlinking(m))
        BY <1>1, <3>c
      <4> QED BY <1>0, <1>1, <3>1, <3>c, <4>1, <4>2, CopyingStays
    <3>6. NamesInv'
      <4> SUFFICES ASSUME NEW m \in Names, Unmoved(m)' PROVE NameOk(m)'
        BY DEF NamesInv
      <4>1. Unmoved(m) /\ NameOk(m)
        BY <3>1, <3>c DEF NamesInv
      <4>2. CASE m = n
        <5>1. NameOf(o) = n
          <6>1. PICK k : k = NameOf(o)
            OBVIOUS
          <6>2. k \in Names /\ o \in Objects
            BY <6>1, InvParts, HeapFields DEF Tidy, NameOf
          <6>3. k = n \/ ~Unmoved(n)
            <7>1. k = copying.name \/ ~Unmoved(copying.name)
              BY <1>0, <1>o, <3>1, <6>1, <6>2 DEF CopyingInv
            <7> QED BY <1>n, <7>1
          <6> QED BY <4>1, <4>2, <6>1, <6>3
        <5>2. ~heap.objects[o].unlinked
          BY <1>4, <5>1, TameParts DEF UnlinkedAreGone
        <5>3. Dest(heap', o) # NoDestination
          BY <3>2, <5>2
        <5>4. heap'.bdir[Target(n)] # Null
          <6>1. /\ o \in heap'.live /\ heap'.objects[o].name = n
                /\ ~heap'.objects[o].unlinked
            BY <2>i, <5>1, <5>2, InvParts, HeapFields DEF SameIdentity, NameOf
          <6>2. /\ heap'.bdir[Dest(heap', o).path] # Null
                /\ Dest(heap', o).path[2] = n
                /\ Dest(heap', o).path[1] = session \/ Dest(heap', o).path \in kept
            BY <3>2, <5>3, <6>1, DestinationIs
          <6>3. Unmoved(n) /\ kept' = kept
            BY <1>1, <4>1, <4>2 DEF Unmoved, Renaming
          <6>4. Dest(heap', o).path = <<session, n>>
            BY <1>0, <5>3, <6>1, <6>2, <6>3, InSession
          <6> QED BY <6>2, <6>4 DEF Target
        <5>5. \/ BackupSame(heap, heap', session, n)
              \/ /\ heap.bdir[<<session, n>>] = Null
                 /\ heap'.bdata[heap'.bdir[<<session, n>>]] = {}
          BY <3>2 DEF BackupCreated
        <5>6. data[dir[n]] \in Nat
          BY <1>4, InvParts DEF TypeInv
        <5>7. ToCopy(n) => ToCopy(n)'
          BY <1>1, <1>4, <1>n, <5>3 DEF ToCopy
        <5> QED BY <1>1, <1>4, <4>1, <4>2, <5>4, <5>5, <5>6, <5>7, CreatedName
      <4>3. CASE m # n
        <5>1. SameName(m)
          BY <1>1, <3>2, <4>3 DEF SameName, BackupCreated
        <5>2. ToCopy(m) => ToCopy(m)'
          BY <1>0, <1>1, <1>n, <4>3 DEF ToCopy
        <5> QED BY <1>1, <3>c, <4>1, <5>1, <5>2, NameStays
      <4> QED BY <4>2, <4>3
    <3>7. StopInv'
      BY <1>4 DEF StopInv
    <3> QED BY <3>3, <3>4, <3>5, <3>6, <3>7
  <2> QED BY <2>1, <2>2, <2>3 DEF DataInv, SessionInv
<1> QED BY <1>2, <1>3, <1>4

LEMMA CopyDataKeepsData ==
  ASSUME IInv, IInv', DataInv, Tame, CopyData PROVE DataInv'
<1>0. /\ cpc = "data" /\ cpc' = "close" /\ running /\ copying.name \in Names
      /\ copying.object \in heap.live /\ copying.inode # None
      /\ copying.inode \in Inodes /\ Dest(heap, copying.object) # NoDestination
  BY InvParts, InHandIsLive DEF CopyData, CopierInv, CopierHolds, CopyInv, TypeInv
<1>n. PICK n \in Names : n = copying.name
  BY <1>0
<1>o. PICK o \in heap.live : o = copying.object
  BY <1>0
<1>c. PICK content \in SUBSET (Inodes \X Nat) : content = Content(copying.inode)
  <2>1. data[copying.inode] \in Nat
    BY <1>0, InvParts DEF TypeInv
  <2>2. \A k \in 1..data[copying.inode] : k \in Nat
    BY <2>1
  <2>3. Content(copying.inode) \in SUBSET (Inodes \X Nat)
    BY <1>0, <2>2 DEF Content
  <2> QED BY <2>3
<1>1. /\ heap' = IF failed THEN heap ELSE WriteDestination(heap, o, content)
      /\ UNCHANGED <<dir, lastInode, data, fds, map, call, session, running,
                     todo, failed, copying, renamed, wrong, ghosts, kept>>
  BY <1>o, <1>c DEF CopyData, CopierVarsUnchanged, sourceVars
<1>t. Tidy(heap) /\ o \in Objects
  BY InvParts, HeapFields
<1>2. CASE failed
  <2>1. heap' = heap /\ ~Healthy'
    BY <1>1, <1>2 DEF Healthy
  <2>2. Still(heap, heap') /\ NamesStay(heap, heap')
    BY <2>1, <1>t, SameHeapIsStill, SameHeapIsQuiet, IdentityKeepsNames
  <2>3. InodeInv'
    BY <1>1, <2>2, CopierInode DEF DataInv
  <2>4. ResultInv'
    BY <1>1 DEF DataInv, ResultInv, Stale
  <2> QED BY <2>1, <2>3, <2>4 DEF DataInv, SessionInv
<1>3. CASE ~failed
  <2>1. heap' = WriteDestination(heap, o, content)
    BY <1>1, <1>3
  <2>2. session \in 1..MaxSessions
    BY <1>0, InvParts, SessionNumber
  <2>3. /\ heap'.live = heap.live /\ heap'.objects = heap.objects
        /\ OnePath(heap, session) => OnePath(heap', session)
        /\ \A m \in Names :
             DestAgrees(heap, session, m) => DestAgrees(heap', session, m)
        /\ \A m \in Names : heap'.bdir[<<session, m>>] = heap.bdir[<<session, m>>]
        /\ \A m \in Names : heap.bdir[<<session, m>>] # Null =>
             heap'.bdata[heap.bdir[<<session, m>>]] =
               IF Dest(heap, o) # NoDestination
                    /\ heap.bdir[<<session, m>>] = Dest(heap, o).file
               THEN heap.bdata[heap.bdir[<<session, m>>]] \cup content
               ELSE heap.bdata[heap.bdir[<<session, m>>]]
    BY <1>t, <2>1, <2>2, WriteKeepsBackup
  <2>4. NamesStay(heap, heap')
    BY <2>3 DEF NamesStay
  <2>5. InodeInv'
    BY <1>1, <2>4, CopierInode DEF DataInv
  <2>6. ResultInv'
    BY <1>1 DEF DataInv, ResultInv, Stale
  <2>7. DestInv /\ WriteInv /\ CopyingInv /\ NamesInv /\ StopInv
    <3>1. Healthy
      BY <1>0, <1>3 DEF Healthy
    <3> QED BY <3>1, SessionParts DEF DataInv
  <2>c. /\ \A m : BeingOpened(m) => BeingOpened(m)'
        /\ \A m : Unlinking(m)' <=> Unlinking(m)
        /\ \A m : Unmoved(m)' <=> Unmoved(m)
    BY <1>1, SameCalls
  <2>8. DestInv'
    BY <1>1, <2>3, <2>7, <2>c DEF DestInv
  <2>9. WriteInv'
    BY <1>1, <2>3, <2>4, <2>7, CopierWrites DEF Dest
  <2>10. CopyingInv' /\ StopInv'
    BY <1>0 DEF CopyingInv, StopInv
  <2>11. NamesInv'
    <3> SUFFICES ASSUME NEW m \in Names, Unmoved(m)' PROVE NameOk(m)'
      BY DEF NamesInv
    <3>1. Unmoved(m) /\ NameOk(m) /\ DestAgrees(heap, session, m)
      BY <2>7, <2>c DEF NamesInv, DestInv
    <3>2. BackupOf(m)' = BackupOf(m) /\ BackupOf(m) = heap.bdir[<<session, m>>]
      BY <1>1, <2>3 DEF BackupOf, Target
    <3>3. PICK k \in Names : k = NameOf(o)
      BY <1>t DEF Tidy, NameOf
    <3>4. /\ k = n \/ (~Unmoved(k) /\ ~Unmoved(n))
          /\ Unmoved(k) /\ ~heap.objects[o].unlinked =>
               copying.inode = dir[k] \/ Unlinking(k)
      <4>1. /\ k = copying.name \/ (~Unmoved(k) /\ ~Unmoved(copying.name))
            /\ Unmoved(k) /\ ~heap.objects[o].unlinked =>
                 copying.inode = dir[k] \/ Unlinking(k)
        BY <1>0, <1>o, <1>t, <2>7, <3>3 DEF CopyingInv
      <4> QED BY <1>n, <4>1
    <3>5. CASE dir[m] = None
      BY <1>1, <2>c, <3>1, <3>2, <3>5 DEF NameOk, GoneOk, ContentOk, CoverOk
    <3>6. CASE dir[m] # None /\ BackupOf(m) # Dest(heap, o).file
      <4>1. SameName(m)
        BY <1>1, <2>3, <3>2, <3>6 DEF SameName, BackupSame
      <4>2. m # n
        <5> SUFFICES ASSUME m = n PROVE FALSE
          OBVIOUS
        <5>1. NameOf(o) = m
          BY <3>1, <3>3, <3>4
        <5>2. ~heap.objects[o].unlinked
          <6>1. dir[NameOf(o)] # None
            BY <3>6, <5>1
          <6>2. UnlinkedAreGone
            BY TameParts
          <6> QED BY <6>1, <6>2 DEF UnlinkedAreGone
        <5> QED BY <1>0, <1>o, <3>1, <3>2, <3>6, <5>1, <5>2 DEF DestAgrees, NameOf
      <4>3. ToCopy(m) => ToCopy(m)'
        BY <1>0, <1>1, <1>n, <4>2 DEF ToCopy
      <4> QED BY <1>1, <2>c, <3>1, <4>1, <4>3, NameStays
    <3>7. CASE dir[m] # None /\ BackupOf(m) = Dest(heap, o).file
      <4>1. NameOf(o) = m /\ ~heap.objects[o].unlinked
        BY <1>0, <1>o, <3>1, <3>2, <3>7 DEF DestAgrees, NameOf
      <4>2. copying.inode = dir[m]
        <5>1. ~Unlinking(m)
          BY <3>7, TameParts DEF UnlinkedAreGone, Unlinking
        <5> QED BY <3>1, <3>3, <3>4, <4>1, <5>1
      <4>b. PICK b : b = BackupOf(m)
        OBVIOUS
      <4>3. b # Null
        BY <1>0, <1>o, <1>t, <3>7, <4>b, DestinationFields
      <4>4. heap'.bdata[b] = heap.bdata[b] \cup content
        BY <1>0, <1>o, <2>3, <3>2, <3>7, <4>b, <4>3
      <4>5. heap.bdata[b] \subseteq content /\ content = Content(dir[m])
        BY <1>c, <3>1, <3>7, <4>2, <4>b, <4>3 DEF NameOk, ContentOk
      <4>6. /\ BackupOf(m)' = b /\ dir'[m] = dir[m]
            /\ heap'.bdata[b] = Content(dir[m])'
        <5>1. Content(dir[m])' = Content(dir[m])
          BY <1>1 DEF Content
        <5> QED BY <1>1, <3>2, <4>b, <4>4, <4>5, <5>1
      <4> QED BY <3>7, <4>3, <4>6 DEF NameOk, GoneOk, ContentOk, CoverOk, Complete
    <3> QED BY <3>5, <3>6, <3>7
  <2> QED BY <2>5, <2>6, <2>8, <2>9, <2>10, <2>11 DEF DataInv, SessionInv
<1> QED BY <1>2, <1>3

LEMMA StartBackupKeepsData ==
  ASSUME IInv, IInv', Tame, StartBackup PROVE InodeInv => DataInv'
<1> SUFFICES ASSUME InodeInv PROVE DataInv'
  OBVIOUS
<1>0. MaxFds \in Nat /\ MaxSessions \in Nat
  BY FileTableAssumption DEF FileTableAssumption
<1>1. /\ cpc = "idle" /\ session' = session + 1 /\ wrong' = {} /\ renamed' = {}
      /\ session \in 0..MaxSessions /\ session < MaxSessions
      /\ UNCHANGED <<dir, lastInode, data, fds, map, call, ghosts, kept>>
  BY InvParts DEF StartBackup, sourceVars, TypeInv
<1>2. PICK last \in 0..MaxFds :
        /\ heap' = Prepare(heap, session + 1, last)
        /\ failed' = TRUE \/ (last = MaxFds /\ cpc' = "list")
  <2>1. CASE heap' = Prepare(heap, session + 1, MaxFds) /\ cpc' = "list"
    <3>1. MaxFds \in 0..MaxFds
      BY <1>0
    <3> QED BY <2>1, <3>1
  <2>2. ASSUME NEW fd \in Fds, heap' = Prepare(heap, session + 1, fd - 1), failed' = TRUE
        PROVE  \E last \in 0..MaxFds :
                 heap' = Prepare(heap, session + 1, last) /\ failed' = TRUE
    <3>1. fd - 1 \in 0..MaxFds
      BY <1>0 DEF Fds
    <3> QED BY <2>2, <3>1
  <2> QED BY <2>1, <2>2 DEF StartBackup
<1>s. PICK s \in 1..MaxSessions : s = session + 1 /\ s - 1 = session
  BY <1>0, <1>1
<1>3. SameIdentity(heap, heap') /\ Prepared(heap, heap', s, last, kept)
  <2>1. Mapped(last) \subseteq heap.live
    BY InvParts, MappedIsLive
  <2>2. heap' = Prepare(heap, s, last)
    BY <1>2, <1>s
  <2>3. /\ Tidy(heap) /\ DestinationsIn(heap, 0, kept)
        /\ FilesApart(heap, s - 1)
    BY <1>1, <1>s, InvParts DEF CopierInv, BackupInv, Current
  <2> QED BY <2>1, <2>2, <2>3, PrepareIs
<1>4. NamesStay(heap, heap')
  BY <1>3, InvParts, IdentityKeepsNames
<1>5. InodeInv'
  BY <1>1, <1>4, CopierInode
<1>6. ResultInv'
  BY <1>1 DEF ResultInv
<1>7. ASSUME Healthy'
      PROVE  DestInv' /\ WriteInv' /\ CopyingInv' /\ NamesInv' /\ StopInv'
  <2>1. last = MaxFds /\ cpc' = "list" /\ session' = s
    BY <1>1, <1>2, <1>7, <1>s DEF Healthy
  <2>k. \A n : Unmoved(n)' => n \notin {p[2] : p \in kept} /\ n \notin ghosts
    <3>1. \A p \in kept : p[1] \in Nat /\ p[1] <= session
      BY InvParts DEF BackupInv, TypeInv, Paths
    <3>2. \A p \in kept : p[1] < session'
      BY <1>1, <3>1
    <3> QED BY <1>1, <3>2 DEF Unmoved, Stale
  <2>2. DestInv'
    BY <1>3, <2>1, <2>k DEF DestInv, Prepared
  <2>3. CopyingInv' /\ StopInv'
    BY <2>1 DEF CopyingInv, StopInv
  <2>4. ASSUME NEW fd \in Fds, map[fd] # Null
        PROVE  /\ map[fd] \in Mapped(last) /\ map[fd] \in heap.live
               /\ map[fd] \in Objects /\ fds[fd] # None
    BY <2>1, <2>4, InvParts, InHandIsLive DEF Mapped, Fds, ApartInv
  <2>5. WriteInv'
    <3> SUFFICES ASSUME NEW fd \in Fds, map[fd] # Null,
                        fds[fd] = dir[heap'.objects[map[fd]].name]
                 PROVE  Dest(heap', map[fd]) # NoDestination
      BY <1>1 DEF WriteInv, WriteOk, NameOf
    <3>1. heap'.objects[map[fd]].name = NameOf(map[fd])
      BY <1>3, <2>4 DEF SameIdentity, NameOf
    <3>2. ~heap.objects[map[fd]].unlinked
      BY <2>4, <3>1, TameParts DEF UnlinkedAreGone
    <3> QED BY <1>3, <2>4, <3>2 DEF Prepared
  <2>6. NamesInv'
    <3> SUFFICES ASSUME NEW n \in Names, Unmoved(n)' PROVE NameOk(n)'
      BY DEF NamesInv
    <3>1. BackupOf(n)' = heap'.bdir[<<s, n>>]
      BY <2>1 DEF BackupOf, Target
    <3>2. BackupOf(n)' # Null => heap'.bdata[BackupOf(n)'] = {}
      BY <1>3, <3>1 DEF Prepared
    <3>3. GoneOk(n)'
      <4> SUFFICES ASSUME dir'[n] = None, ~Unlinking(n)', BackupOf(n)' # Null
                   PROVE  FALSE
        BY DEF GoneOk
      <4>1. dir[n] = None /\ ~Unlinking(n)
        BY <1>1, SameCalls
      <4>2. PICK o \in Mapped(last) : heap.objects[o].name = n /\ ~heap.objects[o].unlinked
        BY <1>3, <3>1 DEF Prepared
      <4>3. PICK fd \in Fds : o = map[fd] /\ map[fd] # Null
        BY <2>1 DEF Mapped, Fds
      <4>4. Held(fd, o)
        BY <4>3, TameParts DEF AllHeld
      <4> QED BY <2>4, <2>k, <4>1, <4>2, <4>3, <4>4 DEF Held, NameOf
    <3>4. ContentOk(n)'
      BY <3>2 DEF ContentOk
    <3>5. CoverOk(n)'
      BY <2>1 DEF CoverOk, ToCopy
    <3> QED BY <3>3, <3>4, <3>5 DEF NameOk
  <2> QED BY <2>2, <2>3, <2>5, <2>6
<1> QED BY <1>5, <1>6, <1>7 DEF DataInv, SessionInv

(* No call on the name is under way. *)
LEMMA SettledIs ==
  ASSUME NEW n, n \notin Unsettled
  PROVE  ~Renaming(n) /\ ~Unlinking(n) /\ ~BeingOpened(n)
<1>1. \A t \in Threads : n # call[t].name /\ n # call[t].to
  BY DEF Unsettled
<1> QED BY <1>1 DEF Renaming, Unlinking, BeingOpened

LEMMA StopBackupKeepsData ==
  ASSUME IInv, IInv', DataInv, StopBackup PROVE DataInv'
<1>1. /\ cpc = "stop" /\ running' = FALSE
      /\ heap' = DisableDescriptions(heap)
      /\ UNCHANGED <<dir, lastInode, data, fds, map, call, session, renamed, ghosts>>
      /\ kept \subseteq kept'
  BY DEF StopBackup, sourceVars
<1>w. wrong' = IF failed THEN {} ELSE {n \in Names \ Unsettled : ~BackedUp(n)}
  BY DEF StopBackup
<1>2. NamesStay(heap, heap')
  <2>1. MaxFds \in 0..MaxFds
    BY FileTableAssumption DEF FileTableAssumption
  <2>2. Mapped(MaxFds) \subseteq heap.live
    BY <2>1, InvParts, MappedIsLive
  <2>3. SameIdentity(heap, heap')
    BY <1>1, <2>2, InvParts, DisableDescriptionsIs
  <2> QED BY <2>3, InvParts, IdentityKeepsNames
<1>3. InodeInv'
  BY <1>1, <1>2, CopierInode DEF DataInv
<1>4. ResultInv'
  <2>0. Stale \subseteq Stale'
    BY <1>1 DEF Stale
  <2> SUFFICES ASSUME NEW n \in wrong' PROVE n \in renamed \cup ghosts \cup Stale
    BY <1>1, <2>0 DEF ResultInv
  <2>1. /\ ~failed /\ n \in Names /\ n \notin Unsettled /\ ~BackedUp(n)
    BY <1>w
  <2>2. Healthy
    BY <1>1, <2>1, InvParts DEF Healthy, CopierInv
  <2>3. NamesInv /\ StopInv
    BY <2>2, SessionParts DEF DataInv
  <2>4. ~Renaming(n) /\ ~Unlinking(n) /\ ~BeingOpened(n)
    BY <2>1, SettledIs
  <2>5. ASSUME n \notin renamed \cup ghosts \cup Stale PROVE FALSE
    <3>1. NameOk(n)
      BY <2>1, <2>3, <2>4, <2>5 DEF NamesInv, Unmoved
    <3>2. ~ToCopy(n)
      BY <1>1, <2>1, <2>3 DEF StopInv, ToCopy
    <3>3. dir[n] = None => BackupOf(n) = Null
      BY <2>4, <3>1 DEF NameOk, GoneOk
    <3>4. dir[n] # None => Complete(n)
      BY <2>4, <3>1, <3>2 DEF NameOk, CoverOk, Fresh
    <3> QED BY <2>1, <3>3, <3>4 DEF BackedUp, BackupOf, Complete
  <2> QED BY <2>5
<1>5. ~Healthy'
  BY <1>1 DEF Healthy
<1> QED BY <1>3, <1>4, <1>5 DEF DataInv, SessionInv

LEMMA StutteringKeepsData == ASSUME IInv, IInv', DataInv, UNCHANGED vars PROVE DataInv'
<1>1. /\ heap' = heap /\ cpc' = cpc /\ failed' = failed
      /\ UNCHANGED <<dir, lastInode, data, fds, map, call, session, running,
                     copying, todo, renamed, wrong, ghosts, kept>>
  BY DEF vars
<1>2. Still(heap, heap') /\ NamesStay(heap, heap')
  BY <1>1, InvParts, SameHeapIsStill, SameHeapIsQuiet, IdentityKeepsNames
<1>3. Healthy' => Healthy
  BY <1>1 DEF Healthy
<1>4. \A n \in Names : ToCopy(n) => ToCopy(n)'
  BY <1>1 DEF ToCopy
<1>5. CopyingInv => CopyingInv'
  BY <1>1 DEF CopyingInv, NameOf, Unmoved, Stale, Renaming, Unlinking
<1>6. StopInv => StopInv'
  BY <1>1 DEF StopInv
<1>7. \A fd \in Fds : map[fd] # Null => Dest(heap', map[fd]) = Dest(heap, map[fd])
  BY <1>1
<1> QED BY <1>1, <1>2, <1>3, <1>4, <1>5, <1>6, <1>7, QuietCopierStep

LEMMA InitImpliesData == ASSUME Init PROVE DataInv
<1>1. /\ \A n \in Names : dir[n] \in {n, None}
      /\ lastInode = 0 /\ data = [i \in Inodes |-> IF i \in Names THEN 1 ELSE 0]
      /\ \A fd \in Fds : fds[fd] = None
      /\ \A t \in Threads : call[t].at = "idle"
      /\ running = FALSE /\ wrong = {}
  BY IdleIs DEF Init
<1>2. /\ \A n \in Names : dir[n] \in Known
      /\ \A fd \in Fds : fds[fd] \in Known
  BY <1>1 DEF Known
<1>3. \A i \in 1..MaxCalls : data[i] = 0
  <2> SUFFICES ASSUME NEW i \in 1..MaxCalls PROVE data[i] = 0
    OBVIOUS
  <2>1. i \in Inodes /\ i \notin Names
    BY FileTableAssumption DEF FileTableAssumption, Inodes
  <2> QED BY <1>1, <2>1
<1>4. InodeInv
  BY <1>1, <1>2, <1>3 DEF InodeInv, Opening
<1> QED BY <1>1, <1>4 DEF DataInv, ResultInv, SessionInv, Healthy

----------------------------------------------------------------------------
(*                              The theorems                               *)

(* Every step keeps the invariant and leaves finished backups alone. *)
LEMMA AppStepKeepsInv ==
  ASSUME IInv, Orderly, EnoughObjects, NEW t \in Threads, AppStep(t)
  PROVE  IInv' /\ FinishedStay
<1>1. CASE \E n \in Names, creates, truncates \in BOOLEAN :
             OpenBegin(t, n, creates, truncates)
  BY <1>1, OpenBeginKeepsInv
<1>2. CASE OpenRealpath(t) \/ OpenTable(t)
  BY <1>2, OpenRealpathKeepsInv, OpenTableKeepsInv
<1>3. CASE OpenMap(t)
  BY <1>3, OpenMapKeepsInv
<1>4. CASE OpenCapture(t) \/ OpenTranslate(t)
  BY <1>4, OpenCaptureKeepsInv, OpenTranslateKeepsInv
<1>5. CASE \E fd \in Fds : CloseBegin(t, fd) \/ Write(t, fd)
  BY <1>5, CloseBeginKeepsInv, WriteKeepsInv
<1>6. CASE CloseMap(t)
  BY <1>6, CloseMapKeepsInv
<1>7. CASE CloseTable(t)
  BY <1>7, CloseTableKeepsInv
<1>8. CASE \E n \in Names : TruncatePath(t, n) \/ UnlinkBegin(t, n)
  BY <1>8, TruncatePathKeepsInv, UnlinkBeginKeepsInv
<1>9. CASE UnlinkTable(t)
  BY <1>9, UnlinkTableKeepsInv
<1>10. CASE UnlinkCapture(t)
  BY <1>10, UnlinkCaptureKeepsInv
<1>11. CASE \E from, to \in Names : RenameBegin(t, from, to)
  BY <1>11, RenameBeginKeepsInv
<1>12. CASE RenameCapture(t)
  BY <1>12, RenameCaptureKeepsInv
<1> QED BY <1>1, <1>2, <1>3, <1>4, <1>5, <1>6, <1>7, <1>8, <1>9, <1>10, <1>11,
           <1>12 DEF AppStep

LEMMA BackupStepKeepsInv ==
  ASSUME IInv, EnoughObjects, BackupStep
  PROVE  IInv' /\ FinishedStay
<1>1. CASE StartBackup
  BY <1>1, StartBackupKeepsInv
<1>2. CASE ListDirectory
  BY <1>2, ListDirectoryKeepsInv
<1>3. CASE CopyNext
  BY <1>3, CopyNextKeepsInv
<1>4. CASE CopyLookup
  BY <1>4, CopyLookupKeepsInv
<1>5. CASE CopyOpenSource
  BY <1>5, CopyOpenSourceKeepsInv
<1>6. CASE CopyCreate
  BY <1>6, CopyCreateKeepsInv
<1>7. CASE CopyData
  BY <1>7, CopyDataKeepsInv
<1>8. CASE CopyRemoveDestination
  BY <1>8, CopyRemoveDestinationKeepsInv
<1>9. CASE CopyRelease
  BY <1>9, CopyReleaseKeepsInv
<1>10. CASE StopBackup
  BY <1>10, StopBackupKeepsInv
<1> QED BY <1>1, <1>2, <1>3, <1>4, <1>5, <1>6, <1>7, <1>8, <1>9, <1>10
        DEF BackupStep

LEMMA StutteringKeepsInv == ASSUME IInv, UNCHANGED vars PROVE IInv'
<1>1. /\ TypeInv' /\ Tidy(heap)' /\ CopierInv' /\ CrashInv'
  BY DEF IInv, vars, TypeInv, CopierInv, CrashInv
<1>2. CallInv' /\ ApartInv' /\ CopyInv'
  BY DEF IInv, vars, CallInv, CallOk, ApartInv, CopyInv, NameOf
<1>3. RefsInv'
  BY DEF IInv, vars, RefsInv, ReferencesMatchUsers, Users
<1>5. HeldInv'
  BY DEF IInv, vars, HeldInv, AllHeld, Held, Unlinking, NameOf
<1>6. UnlinkInv' /\ RenameInv'
  BY ZenonT(60) DEF IInv, vars, UnlinkInv, UnlinkedAreGone, RenameInv, NameOf
<1>7. BackupInv'
  BY DEF IInv, vars, BackupInv, Current
<1> QED BY <1>1, <1>2, <1>3, <1>5, <1>6, <1>7 DEF IInv

LEMMA NextKeepsInv ==
  ASSUME IInv, Orderly, EnoughObjects, [Next]_vars
  PROVE  IInv' /\ (FinishedStay \/ UNCHANGED vars)
  BY AppStepKeepsInv, BackupStepKeepsInv, StutteringKeepsInv DEF Next

LEMMA Invariance == ASSUME Orderly, EnoughObjects PROVE Spec => []IInv
<1>1. Init => IInv
  BY InitImpliesInv
<1>2. IInv /\ [Next]_vars => IInv'
  BY NextKeepsInv
<1> QED BY <1>1, <1>2, PTL DEF Spec

(* Every variable has values of its type, see FileTable's TypeOK, as long   *)
(* as the application renames no file that is in use and none to the name  *)
(* of one, and unlink and rename get the destinations they ask for.        *)
THEOREM TypeCorrect == ASSUME Orderly, EnoughObjects PROVE Spec => []TypeOK
<1>1. IInv => TypeOK
  <2> SUFFICES ASSUME IInv PROVE TypeOK
    OBVIOUS
  <2> USE InvParts
  <2>1. /\ heap.objects \in
             [Objects -> [name : Names \cup {NoName}, refs : Nat,
                          unlinked : BOOLEAN,
                          dest : [file : BackupFiles, path : Paths]
                                     \cup {NoDestination}]]
        /\ heap.live \subseteq Objects
        /\ heap.table \in Seq(Objects)
        /\ heap.bdir \in [Paths -> BackupFiles \cup {Null}]
    BY HeapFields DEF SourceFileType, Destinations
  <2>2. UNION ToSet(heap.bdata) \subseteq (Inodes \X Nat)
    BY HeapFields DEF ToSet
  <2>3. \A t \in Threads :
          call[t] \in [at : {"idle", "open realpath", "open table", "open map",
                             "open capture", "open translate", "close map",
                             "close table", "unlink table", "unlink capture",
                             "rename capture"},
                       name : Names \cup {NoName}, to : Names \cup {NoName},
                       fd : Fds \cup {0}, object : Objects \cup {Null},
                       locked : BOOLEAN]
    <3>1. Steps = {"idle", "open realpath", "open table", "open map",
                   "open capture", "open translate", "close map",
                   "close table", "unlink table", "unlink capture",
                   "rename capture"}
      BY DEF Steps, HoldsFd, OpenSteps, Locks
    <3> QED BY <3>1 DEF TypeInv, CallType
  <2>4. cpc \in {"idle", "list", "next", "lookup", "open", "create", "data",
                 "close", "release", "give up", "stop"}
    BY DEF TypeInv, CopierHolds
  <2> QED BY <2>1, <2>2, <2>3, <2>4 DEF TypeOK, TypeInv
<1> QED BY <1>1, Invariance, PTL

(* Each source_file is counted for each descriptor, call and copier that   *)
(* uses it, and is deleted with the last of them, however often files are  *)
(* opened, created, unlinked and overwritten, if none is renamed that is   *)
(* in use, or to the name of one that is, and if unlink and rename get     *)
(* the destinations they ask for.                                          *)
THEOREM ReferencesMatchUsersHolds ==
  ASSUME Orderly, EnoughObjects PROVE Spec => []ReferencesMatchUsers
<1>1. IInv => ReferencesMatchUsers
  BY DEF IInv, RefsInv
<1> QED BY <1>1, Invariance, PTL

LEMMA LiveMatchesTable ==
  ASSUME Tidy(heap) PROVE Cardinality(heap.live) = Len(heap.table)
<1> DEFINE n == Len(heap.table)
           f == [k \in 1..n |-> heap.table[k]]
<1>1. n \in Nat
  BY HeapFields, LenProperties
<1>2. /\ \A k \in 1..n : heap.table[k] \in heap.live
      /\ \A o \in heap.live : \E k \in 1..n : heap.table[k] = o
      /\ \A j, k \in 1..n : heap.table[j] = heap.table[k] => j = k
  BY DEF Tidy, Entries, Distinct
<1> HIDE DEF n
<1>3. f \in [1..n -> heap.live]
  BY <1>2
<1>4. f \in Bijection(1..n, heap.live)
  BY <1>2, <1>3 DEF Bijection, Injection, Surjection, IsInjective
<1>5. ExistsBijection(1..n, heap.live)
  BY <1>4 DEF ExistsBijection
<1> QED BY <1>1, <1>5, FS_CountingElements DEF n

(* The table has each source_file once, and one for each name, under the   *)
(* same two conditions: a rename to a name that has a source_file breaks   *)
(* it, and Orderly leaves that out.                                        *)
THEOREM OneObjectPerNameHolds ==
  ASSUME Orderly, EnoughObjects PROVE Spec => []OneObjectPerName
<1>1. IInv => OneObjectPerName
  <2> SUFFICES ASSUME IInv PROVE OneObjectPerName
    OBVIOUS
  <2>1. Tidy(heap)
    BY DEF IInv
  <2>2. ToSet(heap.table) = heap.live
    <3>1. DOMAIN heap.table = 1..Len(heap.table)
      BY <2>1, HeapFields, LenProperties
    <3> QED BY <2>1, <3>1 DEF Tidy, ToSet, Entries
  <2>3. \A o, p \in heap.live : heap.objects[o].name = heap.objects[p].name => o = p
    BY <2>1 DEF Tidy
  <2> QED BY <2>1, <2>2, <2>3, LiveMatchesTable DEF OneObjectPerName
<1> QED BY <1>1, Invariance, PTL

(* Neither the copier nor unlink nor rename uses a destination that is not *)
(* there, if no file in use is renamed and no name in use created anew,    *)
(* and unlink and rename get the destinations they ask for.  That open and *)
(* truncate may use a null pointer is not excluded.                        *)
THEOREM DestinationsAreThereHolds ==
  ASSUME Orderly, NoRecreation, EnoughObjects
  PROVE  Spec => []DestinationsAreThere
<1>1. IInv => DestinationsAreThere
  BY DEF IInv, TypeInv, CrashInv, DestinationsAreThere
<1> QED BY <1>1, Invariance, PTL

(* A backup that has ended is not changed by any later step but at the     *)
(* names that were open more than once, or in the hands of a call, when it *)
(* ended; if no file in use is renamed, and unlink and rename get the      *)
(* destinations they ask for.  Files may be opened any number of times,    *)
(* unlinked and created anew, by calls that outlast any number of backups. *)
THEOREM FinishedBackupsStayHolds ==
  ASSUME Orderly, EnoughObjects PROVE Spec => FinishedBackupsStay
<1>1. IInv /\ [Next]_vars => [FinishedStay]_vars
  BY NextKeepsInv
<1>2. Spec => [][FinishedStay]_vars
  BY <1>1, Invariance, PTL DEF Spec
<1> QED BY <1>2 DEF FinishedBackupsStay, FinishedStay

LEMMA AppStepKeepsData ==
  ASSUME IInv, IInv', DataInv, Tame, EnoughObjects, "overwrite" \notin Liberties,
         NEW t \in Threads, AppStep(t)
  PROVE  DataInv'
<1>1. CASE \E n \in Names, creates, truncates \in BOOLEAN :
             OpenBegin(t, n, creates, truncates)
  BY <1>1, OpenBeginKeepsData
<1>2. CASE OpenRealpath(t) \/ OpenTable(t)
  BY <1>2, OpenRealpathKeepsData, OpenTableKeepsData
<1>3. CASE OpenMap(t)
  BY <1>3, OpenMapKeepsData
<1>4. CASE OpenCapture(t) \/ OpenTranslate(t)
  BY <1>4, OpenCaptureKeepsData, OpenTranslateKeepsData
<1>5. CASE \E fd \in Fds : CloseBegin(t, fd) \/ Write(t, fd)
  BY <1>5, CloseBeginKeepsData, WriteKeepsData
<1>6. CASE CloseMap(t)
  BY <1>6, CloseMapKeepsData
<1>7. CASE CloseTable(t)
  BY <1>7, CloseTableKeepsData
<1>8. CASE \E n \in Names : TruncatePath(t, n) \/ UnlinkBegin(t, n)
  BY <1>8, TruncatePathKeepsData, UnlinkBeginKeepsData
<1>9. CASE UnlinkTable(t)
  BY <1>9, UnlinkTableKeepsData
<1>10. CASE UnlinkCapture(t)
  BY <1>10, UnlinkCaptureKeepsData
<1>11. CASE \E from, to \in Names : RenameBegin(t, from, to)
  BY <1>11, RenameBeginKeepsData
<1>12. CASE RenameCapture(t)
  BY <1>12, RenameCaptureKeepsData
<1> QED BY <1>1, <1>2, <1>3, <1>4, <1>5, <1>6, <1>7, <1>8, <1>9, <1>10, <1>11,
           <1>12 DEF AppStep

LEMMA BackupStepKeepsData ==
  ASSUME IInv, IInv', DataInv, Tame, EnoughObjects, BackupStep PROVE DataInv'
<1>1. CASE StartBackup
  BY <1>1, StartBackupKeepsData DEF DataInv
<1>2. CASE ListDirectory
  BY <1>2, ListDirectoryKeepsData
<1>3. CASE CopyNext
  BY <1>3, CopyNextKeepsData
<1>4. CASE CopyLookup
  BY <1>4, CopyLookupKeepsData
<1>5. CASE CopyOpenSource
  BY <1>5, CopyOpenSourceKeepsData
<1>6. CASE CopyCreate
  BY <1>6, CopyCreateKeepsData
<1>7. CASE CopyData
  BY <1>7, CopyDataKeepsData
<1>8. CASE CopyRemoveDestination
  BY <1>8, CopyRemoveDestinationKeepsData
<1>9. CASE CopyRelease
  BY <1>9, CopyReleaseKeepsData
<1>10. CASE StopBackup
  BY <1>10, StopBackupKeepsData
<1> QED BY <1>1, <1>2, <1>3, <1>4, <1>5, <1>6, <1>7, <1>8, <1>9, <1>10
        DEF BackupStep

(* After a backup without errors, what is wrong in it was renamed while it *)
(* ran, or is a ghost, or was kept by an earlier backup; if no file that   *)
(* is in use is created anew or renamed, none is overwritten by            *)
(* open(O_TRUNC) while a backup runs, which the copy is not told of, and   *)
(* unlink and rename get the destinations they ask for.                    *)
THEOREM UnrenamedFilesAreBackedUpHolds ==
  ASSUME Tame, EnoughObjects, "overwrite" \notin Liberties
  PROVE  Spec => []UnrenamedFilesAreBackedUp
<1>1. Init => IInv /\ DataInv
  BY InitImpliesInv, InitImpliesData
<1>2. IInv /\ DataInv /\ [Next]_vars => (IInv /\ DataInv)'
  <2> SUFFICES ASSUME IInv, DataInv, [Next]_vars PROVE IInv' /\ DataInv'
    OBVIOUS
  <2>1. IInv'
    BY NextKeepsInv DEF Tame
  <2> QED BY <2>1, AppStepKeepsData, BackupStepKeepsData, StutteringKeepsData DEF Next
<1>3. DataInv => UnrenamedFilesAreBackedUp
  BY DEF DataInv, ResultInv, Stale, UnrenamedFilesAreBackedUp
<1> QED BY <1>1, <1>2, <1>3, PTL DEF Spec

====
