-------------------------- MODULE CephBackup_proofs --------------------------
(***************************************************************************)
(* Proofs about the backup and restore helpers of scripts/ceph.py, for     *)
(* every set of blocks and values and every bound on calls and clock.     *)
(***************************************************************************)
EXTENDS CephBackup, TLAPS

\* A benji snapshot as it appears in the list of rbd snap ls.
Rec == [name : Names, data : Contents]

\* Snapshot names strictly increase along the list: rbd lists snapshots by
\* id, and each new name is the current second, later than every older one.
NamesSorted(s) == \A i, j \in DOMAIN s : i < j => s[i].name < s[j].name

NamesOf(s) == {s[i].name : i \in DOMAIN s}

DataOf(s, n) == s[CHOOSE i \in DOMAIN s : s[i].name = n].data

\* The list s without its snapshot named n, as WithoutSnap computes it.
RemoveFrom(s, n) ==
    LET i == CHOOSE k \in DOMAIN s : s[k].name = n
    IN  [j \in 1..(Len(s) - 1) |-> IF j < i THEN s[j] ELSE s[j + 1]]

LEMMA SnapDefs ==
    /\ SnapNames = NamesOf(snaps)
    /\ \A n : SnapData(n) = DataOf(snaps, n)
    /\ \A n : WithoutSnap(n) = RemoveFrom(snaps, n)
BY DEF SnapNames, NamesOf, SnapData, DataOf, WithoutSnap, RemoveFrom

\* What a list entry holds.
LEMMA EntryType ==
    ASSUME NEW s \in Seq(Rec), NEW i \in DOMAIN s
    PROVE  s[i] \in Rec /\ s[i].name \in Names /\ s[i].name \in Nat
           /\ s[i].data \in Contents
<1>1. s[i] \in Rec
  OBVIOUS
<1>. QED
  BY <1>1, CephAssumption DEF Rec, Names

\* The contents of a listed name.
LEMMA DataType ==
    ASSUME NEW s \in Seq(Rec), NEW n \in NamesOf(s)
    PROVE  DataOf(s, n) \in Contents
<1>1. \E i \in DOMAIN s : s[i].name = n
  BY DEF NamesOf
<1>. QED
  BY <1>1, EntryType DEF DataOf

\* In a sorted list a name is at exactly one index.
LEMMA NameIndex ==
    ASSUME NEW s \in Seq(Rec), NamesSorted(s), NEW i \in DOMAIN s
    PROVE  (CHOOSE k \in DOMAIN s : s[k].name = s[i].name) = i
<1>1. \A k \in DOMAIN s : s[k].name = s[i].name => k = i
  <2> SUFFICES ASSUME NEW k \in DOMAIN s, s[k].name = s[i].name PROVE k = i
    OBVIOUS
  <2>1. s[k].name \in Nat /\ s[i].name \in Nat
    BY EntryType
  <2>. QED
    BY <2>1 DEF NamesSorted
<1>. QED
  BY <1>1

\* Appending a snapshot named after a later second keeps the list sorted
\* and leaves the contents of every other name as they were.
LEMMA AppendSnap ==
    ASSUME NEW s \in Seq(Rec), NamesSorted(s), NEW c \in Names,
           NEW d \in Contents, \A i \in DOMAIN s : s[i].name < c
    PROVE  LET t == Append(s, [name |-> c, data |-> d])
           IN  /\ t \in Seq(Rec)
               /\ NamesSorted(t)
               /\ Len(t) = Len(s) + 1
               /\ NamesOf(t) = NamesOf(s) \cup {c}
               /\ DataOf(t, c) = d
               /\ \A n \in NamesOf(s) : DataOf(t, n) = DataOf(s, n)
               /\ \A i \in DOMAIN t : t[i].name <= c
<1> DEFINE t == Append(s, [name |-> c, data |-> d])
<1>1. t \in Seq(Rec) /\ Len(t) = Len(s) + 1 /\ DOMAIN t = 1..(Len(s) + 1)
  BY DEF Rec
<1>2. /\ \A i \in 1..Len(s) : t[i] = s[i]
      /\ t[Len(s) + 1] = [name |-> c, data |-> d]
  OBVIOUS
<1>3. \A i \in DOMAIN s : s[i].name \in Nat
  BY EntryType
<1>4. c \in Nat
  BY CephAssumption DEF Names
<1>5. NamesSorted(t)
  BY <1>1, <1>2, <1>3, <1>4 DEF NamesSorted
<1>6. NamesOf(t) = NamesOf(s) \cup {c}
  BY <1>1, <1>2 DEF NamesOf
<1>7. DataOf(t, c) = d
  <2>1. Len(s) + 1 \in DOMAIN t /\ t[Len(s) + 1].name = c
    BY <1>1, <1>2
  <2>2. (CHOOSE k \in DOMAIN t : t[k].name = c) = Len(s) + 1
    BY <1>1, <1>5, <2>1, NameIndex
  <2>3. DataOf(t, c) = t[Len(s) + 1].data
    BY <2>2, Zenon DEF DataOf
  <2>. QED
    BY <2>3, <1>2
<1>8. ASSUME NEW n \in NamesOf(s) PROVE DataOf(t, n) = DataOf(s, n)
  <2>1. PICK i \in DOMAIN s : s[i].name = n
    BY DEF NamesOf
  <2>2. (CHOOSE k \in DOMAIN s : s[k].name = s[i].name) = i
    BY NameIndex
  <2>3. i \in DOMAIN t /\ t[i] = s[i]
    BY <1>1, <1>2
  <2>4. (CHOOSE k \in DOMAIN t : t[k].name = t[i].name) = i
    BY <1>1, <1>5, <2>3, NameIndex
  <2>. QED
    BY <2>1, <2>2, <2>3, <2>4 DEF DataOf
<1>9. \A i \in DOMAIN t : t[i].name <= c
  BY <1>1, <1>2, <1>3, <1>4
<1>. QED
  BY <1>1, <1>5, <1>6, <1>7, <1>8, <1>9

\* Removing the snapshot of a name keeps the list sorted and leaves the
\* contents of every other name as they were; removing the first one drops
\* the head of the list.
LEMMA RemoveSnap ==
    ASSUME NEW s \in Seq(Rec), NamesSorted(s), NEW n \in NamesOf(s)
    PROVE  LET t == RemoveFrom(s, n)
           IN  /\ t \in Seq(Rec)
               /\ NamesSorted(t)
               /\ Len(t) = Len(s) - 1
               /\ NamesOf(t) = NamesOf(s) \ {n}
               /\ \A m \in NamesOf(t) : DataOf(t, m) = DataOf(s, m)
               /\ n = s[1].name => \A j \in DOMAIN t : t[j] = s[j + 1]
<1> DEFINE t == RemoveFrom(s, n)
<1>1. PICK i \in DOMAIN s : s[i].name = n
  BY DEF NamesOf
<1>2. (CHOOSE k \in DOMAIN s : s[k].name = n) = i
  BY <1>1, NameIndex
<1>3. t = [j \in 1..(Len(s) - 1) |-> IF j < i THEN s[j] ELSE s[j + 1]]
  BY <1>2 DEF RemoveFrom
<1>4. Len(s) \in Nat /\ Len(s) >= 1 /\ DOMAIN s = 1..Len(s)
  BY <1>1
<1>5. t \in Seq(Rec) /\ Len(t) = Len(s) - 1 /\ DOMAIN t = 1..(Len(s) - 1)
  BY <1>3, <1>4
<1>6. \A j \in DOMAIN t : t[j] = s[IF j < i THEN j ELSE j + 1]
  BY <1>3, <1>5
<1>7. \A k \in DOMAIN s : s[k].name \in Nat
  BY EntryType
\* The index in s of the entry at index j of t.
<1> DEFINE Src(j) == IF j < i THEN j ELSE j + 1
<1>a. \A j \in DOMAIN t : Src(j) \in DOMAIN s /\ Src(j) # i /\ t[j] = s[Src(j)]
  BY <1>4, <1>5, <1>6
<1>b. \A j, k \in DOMAIN t : j < k => Src(j) < Src(k)
  BY <1>4, <1>5
<1>8. NamesSorted(t)
  <2> SUFFICES ASSUME NEW j \in DOMAIN t, NEW k \in DOMAIN t, j < k
               PROVE  t[j].name < t[k].name
    BY DEF NamesSorted
  <2>. QED
    BY <1>a, <1>b DEF NamesSorted
<1>9. NamesOf(t) = NamesOf(s) \ {n}
  <2>1. NamesOf(t) \subseteq NamesOf(s) \ {n}
    <3> SUFFICES ASSUME NEW j \in DOMAIN t PROVE t[j].name \in NamesOf(s) \ {n}
      BY DEF NamesOf
    <3>1. Src(j) \in DOMAIN s /\ Src(j) # i /\ t[j] = s[Src(j)]
      BY <1>a
    <3>2. s[Src(j)].name # s[i].name
      BY <3>1, <1>7, <1>4 DEF NamesSorted
    <3>. QED
      BY <3>1, <3>2, <1>1 DEF NamesOf
  <2>2. NamesOf(s) \ {n} \subseteq NamesOf(t)
    <3> SUFFICES ASSUME NEW k \in DOMAIN s, s[k].name # n
                 PROVE  s[k].name \in NamesOf(t)
      BY DEF NamesOf
    <3>1. k # i
      BY <1>1
    <3>2. CASE k < i
      BY <3>2, <1>4, <1>5, <1>6 DEF NamesOf
    <3>3. CASE k > i
      <4>1. k - 1 \in DOMAIN t /\ ~(k - 1 < i) /\ (k - 1) + 1 = k
        BY <3>3, <1>4, <1>5
      <4>. QED
        BY <4>1, <1>6 DEF NamesOf
    <3>. QED
      BY <3>1, <3>2, <3>3, <1>4
  <2>. QED
    BY <2>1, <2>2
<1>10. ASSUME NEW m \in NamesOf(t) PROVE DataOf(t, m) = DataOf(s, m)
  <2>1. PICK j \in DOMAIN t : t[j].name = m
    BY DEF NamesOf
  <2>2. PICK k \in DOMAIN s : k = (IF j < i THEN j ELSE j + 1)
    BY <1>4, <1>5
  <2>3. t[j] = s[k]
    BY <2>2, <1>6
  <2>4. (CHOOSE x \in DOMAIN t : t[x].name = t[j].name) = j
    BY <1>5, <1>8, NameIndex
  <2>5. (CHOOSE x \in DOMAIN s : s[x].name = s[k].name) = k
    BY NameIndex
  <2>. QED
    BY <2>1, <2>3, <2>4, <2>5 DEF DataOf
<1>11. n = s[1].name => \A j \in DOMAIN t : t[j] = s[j + 1]
  <2> SUFFICES ASSUME n = s[1].name PROVE \A j \in DOMAIN t : t[j] = s[j + 1]
    OBVIOUS
  <2>1. i = 1
    BY <1>1, <1>4, <1>7 DEF NamesSorted
  <2>. QED
    BY <2>1, <1>5, <1>6
<1>. QED
  BY <1>5, <1>8, <1>9, <1>10, <1>11


-----------------------------------------------------------------------------
(* The inductive invariant.                                                *)

VersionRecs == [snap : Names, data : Contents, source : Contents,
                status : {"valid", "invalid"}]

ValidVersions == {v \in versions : v.status = "valid"}

\* The blocks h name every block where the contents from and to differ.
Covers(h, from, to) == \A b \in Blocks : from[b] # to[b] => b \in h

DiffPcs == {"diffCreate", "diffDiff", "diffRmLast", "diffBackup"}

\* Types, with the versions and the base version of a differential backup.
TypeInv ==
    /\ TypeOK
    /\ versions \subseteq VersionRecs
    /\ base \in VersionRecs \cup {NoVersion}

\* Names are seconds that have passed, and lists are in creation order.
OrderInv ==
    /\ NamesSorted(snaps)
    /\ \A i \in DOMAIN snaps : snaps[i].name <= clock
    /\ \A i, j \in DOMAIN listed : i < j => listed[i] < listed[j]
    /\ \A i \in DOMAIN listed : listed[i] <= clock

\* How many snapshots each point of backup() can see.
CountInv ==
    /\ pc \in {"idle", "snapLs"} => Len(snaps) <= 2
    /\ pc = "rmOlder" => listed = NameSeq(snaps) /\ Len(snaps) <= 2
    /\ pc \in {"benjiLs", "rmLast", "diffCreate"} => Len(snaps) = 1
    /\ pc = "initCreate" => snaps = << >>
    /\ pc \in {"initDiff", "initBackup", "diffBackup"} => Len(snaps) <= 1
    /\ pc \in {"diffDiff", "diffRmLast"} => Len(snaps) <= 2

(* With receivers that re-raise: a valid version is the contents of its    *)
(* snapshot while that exists, and a name whose snapshot is gone belongs  *)
(* to a second that has passed, so it is never reused; the base of a      *)
(* differential backup is a valid version of last_snapshot, created       *)
(* before the new snapshot, and the hints cover every block in which the  *)
(* new snapshot differs from the base.                                     *)
ValidSnapsKept ==
    \A v \in ValidVersions : v.snap \in SnapNames => SnapData(v.snap) = v.source

GoneNamesPast ==
    \A v \in ValidVersions : v.snap \notin SnapNames => v.snap < clock

BaseValid == pc \in DiffPcs => base \in ValidVersions /\ base.snap = last

LastUnknown == pc = "rmLast" => \A v \in ValidVersions : v.snap # last

NewSnapLater ==
    pc \in {"diffDiff", "diffRmLast", "diffBackup"} =>
        snapshot \in SnapNames /\ last < snapshot

DiffHints ==
    pc \in {"diffRmLast", "diffBackup"} =>
        Covers(hints, base.data, SnapData(snapshot))

InitHints ==
    pc = "initBackup" =>
        snapshot \in SnapNames /\ Covers(hints, SparseImage, SnapData(snapshot))

\* What a running call knows of its snapshots, hints and base.
CallInv == BaseValid /\ LastUnknown /\ NewSnapLater /\ DiffHints /\ InitHints

FaithBody == VersionsFaithful /\ ValidSnapsKept /\ GoneNamesPast /\ CallInv

FaithInv == raiseOnError => FaithBody

\* The invariant the snapshot bound rests on.
CountBase == TypeInv /\ OrderInv /\ CountInv

IInv == CountBase /\ FaithInv


\* The newest of a one-name list is a name.
LEMMA NewestName ==
    ASSUME NEW l \in Seq(Names), Len(l) = 1
    PROVE  Newest(l) \in Names
BY DEF Newest

LEMMA InitIInv == Init => IInv
<1> SUFFICES ASSUME Init PROVE IInv
  OBVIOUS
<1>1. TypeInv
  BY CephAssumption DEF Init, TypeInv, TypeOK, SparseImage, NoVersion,
                        Contents, Names, Pcs
<1>2. OrderInv
  BY DEF Init, OrderInv, NamesSorted
<1>3. CountInv
  BY DEF Init, CountInv
<1>4. FaithInv
  BY DEF Init, FaithInv, FaithBody, VersionsFaithful, ValidSnapsKept,
         GoneNamesPast, CallInv, BaseValid, LastUnknown, NewSnapLater,
         DiffHints, InitHints, ValidVersions, DiffPcs
<1>. QED
  BY <1>1, <1>2, <1>3, <1>4 DEF IInv, CountBase

\* Every step keeps the types.
LEMMA TypeStep == TypeInv /\ OrderInv /\ [Next]_vars => TypeInv'
<1> SUFFICES ASSUME TypeInv, OrderInv, [Next]_vars PROVE TypeInv'
  OBVIOUS
<1>. USE CephAssumption DEF TypeInv, TypeOK, Pcs
<1>0. /\ snaps \in Seq(Rec)
      /\ NoVersion \in [snap : Names, data : Contents, source : Contents,
                        status : {"none"}]
      /\ SparseImage \in Contents
  BY DEF Rec, NoVersion, SparseImage, Contents, Names
<1>1. ASSUME NEW b \in Blocks, NEW v \in Vals, WriteBlock(b, v) PROVE TypeInv'
  BY <1>1 DEF WriteBlock, Contents, Locals
<1>2. CASE Tick
  BY <1>2 DEF Tick, Names, Locals
<1>3. CASE BackupStart
  BY <1>3 DEF BackupStart, Locals
<1>4. CASE SnapLs
  <2>1. NameSeq(snaps) \in Seq(Names)
    BY <1>0, EntryType DEF NameSeq
  <2>. QED
    BY <1>4, <2>1 DEF SnapLs, RaiseFrom
<1>5. CASE RmOlder
  <2>1. ASSUME Head(listed) \in SnapNames
        PROVE  WithoutSnap(Head(listed)) \in Seq(Rec)
    BY <2>1, <1>0, SnapDefs, RemoveSnap DEF OrderInv
  <2>2. Len(listed) = 1 => Newest(listed) \in Names
    BY NewestName
  <2>3. Len(listed) > 1 => Tail(listed) \in Seq(Names)
    OBVIOUS
  <2>. QED
    BY <1>5, <2>1, <2>2, <2>3 DEF RmOlder, RaiseFrom, Rec
<1>6. CASE BenjiLs
  BY <1>6 DEF BenjiLs, RaiseFrom, VersionRecs
<1>7. CASE RmLast
  <2>1. ASSUME last \in SnapNames PROVE WithoutSnap(last) \in Seq(Rec)
    BY <2>1, <1>0, SnapDefs, RemoveSnap DEF OrderInv
  <2>. QED
    BY <1>7, <2>1 DEF RmLast, RaiseFrom, Rec, Locals
<1>8. ASSUME NEW from \in Pcs, NEW to \in Pcs, SnapshotCreate(from, to)
      PROVE  TypeInv'
  <2>1. Append(snaps, [name |-> clock, data |-> image]) \in Seq(Rec)
    BY <1>0 DEF Rec
  <2>. QED
    BY <1>8, <2>1 DEF SnapshotCreate, Rec
<1>9. CASE InitDiff
  BY <1>9 DEF InitDiff, HintSets, RaiseFrom
<1>10. CASE DiffDiff
  BY <1>10 DEF DiffDiff, HintSets, RaiseFrom
<1>11. CASE DiffRmLast
  <2>1. ASSUME last \in SnapNames PROVE WithoutSnap(last) \in Seq(Rec)
    BY <2>1, <1>0, SnapDefs, RemoveSnap DEF OrderInv
  <2>. QED
    BY <1>11, <2>1 DEF DiffRmLast, RaiseFrom, Rec, Locals
<1>12. ASSUME NEW from \in Pcs, NEW bd \in Contents, BenjiBackup(from, bd)
       PROVE  TypeInv'
  <2>1. snapshot \in SnapNames => SnapData(snapshot) \in Contents
    BY <1>0, SnapDefs, DataType
  <2>2. Assemble(hints, SnapData(snapshot), bd) \in Contents
          \/ snapshot \notin SnapNames
    BY <2>1 DEF Assemble, Contents
  <2>3. (IF snapshot \in SnapNames THEN SnapData(snapshot) ELSE SparseImage)
          \in Contents
    BY <2>1, <1>0
  <2>4. snapshot \in SnapNames =>
          [snap |-> snapshot, data |-> Assemble(hints, SnapData(snapshot), bd),
           source |-> SnapData(snapshot), status |-> "valid"] \in VersionRecs
    BY <2>1, <2>2 DEF VersionRecs
  <2>5. [snap |-> snapshot, data |-> SparseImage,
         source |-> IF snapshot \in SnapNames THEN SnapData(snapshot)
                                             ELSE SparseImage,
         status |-> "invalid"] \in VersionRecs
    BY <2>3, <1>0 DEF VersionRecs
  <2>6. versions' \subseteq VersionRecs
    BY <1>12, <2>4, <2>5 DEF BenjiBackup
  <2>. QED
    BY <1>12, <2>6 DEF BenjiBackup, RaiseFrom, Locals
<1>13. ASSUME NEW v \in versions, Restore(v) PROVE TypeInv'
  BY <1>13 DEF Restore, VersionRecs, Locals
<1>14. CASE UNCHANGED vars
  BY <1>14 DEF vars
<1>15. base.data \in Contents
  BY <1>0 DEF VersionRecs
<1>. QED
  BY <1>1, <1>2, <1>3, <1>4, <1>5, <1>6, <1>7, <1>8, <1>9, <1>10, <1>11,
     <1>12, <1>13, <1>14, <1>15, <1>0 DEF Next, Pcs


\* Removing a snapshot keeps every remaining name at most c.
LEMMA RemoveBound ==
    ASSUME NEW s \in Seq(Rec), NamesSorted(s), NEW n \in NamesOf(s),
           NEW c \in Nat, \A i \in DOMAIN s : s[i].name <= c
    PROVE  \A i \in DOMAIN RemoveFrom(s, n) : RemoveFrom(s, n)[i].name <= c
<1>1. NamesOf(RemoveFrom(s, n)) \subseteq NamesOf(s)
  BY RemoveSnap
<1>. QED
  BY <1>1 DEF NamesOf

\* Every step keeps the names in creation order and in the past.
LEMMA OrderStep == TypeInv /\ OrderInv /\ [Next]_vars => OrderInv'
<1> SUFFICES ASSUME TypeInv, OrderInv, [Next]_vars PROVE OrderInv'
  OBVIOUS
<1>. USE CephAssumption DEF TypeInv, TypeOK
<1>0. snaps \in Seq(Rec) /\ clock \in Nat
  BY DEF Rec, Names
\* Removing a listed snapshot.
<1>1. ASSUME NEW n \in SnapNames
      PROVE  /\ NamesSorted(WithoutSnap(n))
             /\ \A i \in DOMAIN WithoutSnap(n) : WithoutSnap(n)[i].name <= clock
  BY <1>0, SnapDefs, RemoveSnap, RemoveBound DEF OrderInv
<1>2. ASSUME NEW b \in Blocks, NEW v \in Vals, WriteBlock(b, v) PROVE OrderInv'
  BY <1>2 DEF WriteBlock, Locals, OrderInv
<1>3. CASE Tick
  <2>1. /\ \A i \in DOMAIN snaps : snaps[i].name \in Nat
        /\ \A i \in DOMAIN listed : listed[i] \in Nat
    BY <1>0, EntryType DEF Names
  <2>2. UNCHANGED <<snaps, listed>> /\ clock' = clock + 1
    BY <1>3 DEF Tick, Locals
  <2>. QED
    BY <2>1, <2>2, <1>0 DEF OrderInv, NamesSorted
<1>4. CASE BackupStart
  BY <1>4 DEF BackupStart, Locals, OrderInv
<1>5. CASE SnapLs
  <2>1. UNCHANGED <<snaps, clock>>
    BY <1>5 DEF SnapLs
  <2>2. UNCHANGED listed \/ listed' = NameSeq(snaps)
    BY <1>5 DEF SnapLs, RaiseFrom
  <2>3. LET l == NameSeq(snaps)
        IN  /\ \A i, j \in DOMAIN l : i < j => l[i] < l[j]
            /\ \A i \in DOMAIN l : l[i] <= clock
    BY DEF OrderInv, NameSeq, NamesSorted
  <2>. QED
    BY <2>1, <2>2, <2>3 DEF OrderInv
<1>6. CASE RmOlder
  <2>1. Len(listed) > 1 =>
          /\ \A i, j \in DOMAIN Tail(listed) :
                i < j => Tail(listed)[i] < Tail(listed)[j]
          /\ \A i \in DOMAIN Tail(listed) : Tail(listed)[i] <= clock
    BY DEF OrderInv
  <2>. QED
    BY <1>6, <1>1, <2>1 DEF RmOlder, RaiseFrom, OrderInv
<1>7. CASE BenjiLs
  BY <1>7 DEF BenjiLs, RaiseFrom, OrderInv
<1>8. CASE RmLast
  BY <1>8, <1>1 DEF RmLast, RaiseFrom, Locals, OrderInv
<1>9. ASSUME NEW from, NEW to, SnapshotCreate(from, to) PROVE OrderInv'
  <2>1. ASSUME clock \notin SnapNames
        PROVE  LET t == Append(snaps, [name |-> clock, data |-> image])
               IN  NamesSorted(t) /\ \A i \in DOMAIN t : t[i].name <= clock
    <3>1. \A i \in DOMAIN snaps : snaps[i].name < clock
      BY <2>1, <1>0, EntryType DEF OrderInv, SnapNames
    <3>. QED
      BY <3>1, <1>0, AppendSnap DEF OrderInv
  <2>. QED
    BY <1>9, <2>1 DEF SnapshotCreate, OrderInv
<1>10. CASE InitDiff
  BY <1>10 DEF InitDiff, RaiseFrom, OrderInv
<1>11. CASE DiffDiff
  BY <1>11 DEF DiffDiff, RaiseFrom, OrderInv
<1>12. CASE DiffRmLast
  BY <1>12, <1>1 DEF DiffRmLast, RaiseFrom, Locals, OrderInv
<1>13. ASSUME NEW from, NEW bd, BenjiBackup(from, bd) PROVE OrderInv'
  BY <1>13 DEF BenjiBackup, RaiseFrom, Locals, OrderInv
<1>14. ASSUME NEW v \in versions, Restore(v) PROVE OrderInv'
  BY <1>14 DEF Restore, Locals, OrderInv
<1>15. CASE UNCHANGED vars
  BY <1>15 DEF vars, OrderInv
<1>. QED
  BY <1>2, <1>3, <1>4, <1>5, <1>6, <1>7, <1>8, <1>9, <1>10, <1>11, <1>12,
     <1>13, <1>14, <1>15 DEF Next


\* Every step keeps the snapshot count of each control point.
LEMMA CountStep == CountBase /\ [Next]_vars => CountInv'
<1> SUFFICES ASSUME TypeInv, OrderInv, CountInv, [Next]_vars PROVE CountInv'
  BY DEF CountBase
<1>0. snaps \in Seq(Rec)
  BY DEF TypeInv, TypeOK, Rec
<1>. USE <1>0
<1>00. listed \in Seq(Names)
  BY DEF TypeInv, TypeOK
<1>1. ASSUME NEW n \in SnapNames
      PROVE  Len(WithoutSnap(n)) = Len(snaps) - 1
  BY <1>0, SnapDefs, RemoveSnap DEF OrderInv
<1>2. ASSUME NEW b \in Blocks, NEW v \in Vals, WriteBlock(b, v) PROVE CountInv'
  BY <1>2 DEF WriteBlock, Locals, CountInv
<1>3. CASE Tick
  BY <1>3 DEF Tick, Locals, CountInv
<1>4. CASE BackupStart
  BY <1>4 DEF BackupStart, Locals, CountInv
<1>5. CASE SnapLs
  BY <1>5 DEF SnapLs, RaiseFrom, CountInv
<1>6. CASE RmOlder
  <2>1. pc = "rmOlder" /\ listed = NameSeq(snaps) /\ Len(snaps) <= 2
    BY <1>6 DEF RmOlder, CountInv
  <2>2. CASE Len(listed) > 1 /\ Head(listed) \in SnapNames
             /\ snaps' = WithoutSnap(Head(listed)) /\ listed' = Tail(listed)
             /\ pc' = "rmOlder"
    <3>1. Head(listed) = snaps[1].name /\ Len(snaps) > 1
      BY <2>1, <2>2 DEF NameSeq
    <3>2. /\ Len(snaps') = Len(snaps) - 1
          /\ \A j \in DOMAIN snaps' : snaps'[j] = snaps[j + 1]
      BY <2>2, <3>1, <1>0, SnapDefs, RemoveSnap DEF OrderInv
    <3>3. snaps' \in Seq(Rec)
      BY <2>2, <1>0, SnapDefs, RemoveSnap DEF OrderInv
    <3>4. listed' = NameSeq(snaps')
      <4>1. Len(listed) = Len(snaps) /\ listed \in Seq(Names)
        BY <2>1, <1>00 DEF NameSeq
      <4>2. listed' \in Seq(Names) /\ Len(listed') = Len(snaps')
        BY <2>2, <4>1, <3>2, <3>1
      <4>3. \A j \in 1..Len(snaps') : listed'[j] = snaps'[j].name
        BY <2>1, <2>2, <3>2, <4>1 DEF NameSeq
      <4>. QED
        BY <4>2, <4>3, <3>3 DEF NameSeq
    <3>. QED
      BY <2>1, <2>2, <3>2, <3>4 DEF CountInv
  <2>3. CASE Len(listed) = 1 /\ pc' = "benjiLs" /\ UNCHANGED snaps
    BY <2>1, <2>3 DEF NameSeq, CountInv
  <2>4. CASE pc' = "idle" /\ UNCHANGED snaps
    BY <2>1, <2>4 DEF CountInv
  <2>. QED
    BY <1>6, <2>2, <2>3, <2>4 DEF RmOlder, RaiseFrom
<1>7. CASE BenjiLs
  <2>1. pc = "benjiLs" /\ UNCHANGED snaps /\ pc' \in {"diffCreate", "rmLast", "idle"}
    BY <1>7 DEF BenjiLs, RaiseFrom
  <2>. QED
    BY <2>1 DEF CountInv
<1>8. CASE RmLast
  <2>1. ASSUME last \in SnapNames PROVE WithoutSnap(last) = << >>
    <3>1. Len(WithoutSnap(last)) = Len(snaps) - 1
      BY <2>1, <1>1
    <3>2. Len(snaps) = 1
      BY <1>8 DEF RmLast, CountInv
    <3>3. WithoutSnap(last) \in Seq(Rec)
      BY <2>1, <1>0, SnapDefs, RemoveSnap DEF OrderInv
    <3>. QED
      BY <3>1, <3>2, <3>3
  <2>2. pc' \in {"initCreate", "idle"} /\ (pc' = "idle" => UNCHANGED snaps)
        /\ (pc' = "initCreate" => snaps' = WithoutSnap(last) /\ last \in SnapNames)
    BY <1>8 DEF RmLast, RaiseFrom
  <2>3. Len(snaps) = 1
    BY <1>8 DEF RmLast, CountInv
  <2>4. CASE pc' = "idle"
    BY <2>2, <2>3, <2>4 DEF CountInv
  <2>5. CASE pc' = "initCreate"
    BY <2>1, <2>2, <2>5 DEF CountInv
  <2>. QED
    BY <2>2, <2>4, <2>5
<1>9. ASSUME NEW from, NEW to, SnapshotCreate(from, to),
             \/ from = "initCreate" /\ to = "initDiff"
             \/ from = "diffCreate" /\ to = "diffDiff"
      PROVE  CountInv'
  <2>1. Len(Append(snaps, [name |-> clock, data |-> image])) = Len(snaps) + 1
    BY <1>0
  <2>2. \/ UNCHANGED snaps
        \/ snaps' = Append(snaps, [name |-> clock, data |-> image])
    BY <1>9 DEF SnapshotCreate
  <2>3. pc = from /\ pc' \in {to, "idle"}
    BY <1>9 DEF SnapshotCreate
  <2>4. CASE from = "initCreate" /\ to = "initDiff"
    <3>1. Len(snaps) = 0
      BY <2>4, <2>3, <1>0 DEF CountInv
    <3>2. Len(snaps') <= 1
      <4>1. CASE UNCHANGED snaps
        BY <4>1, <3>1
      <4>2. CASE snaps' = Append(snaps, [name |-> clock, data |-> image])
        BY <4>2, <2>1, <3>1
      <4>. QED
        BY <2>2, <4>1, <4>2
    <3>3. pc' \in {"initDiff", "idle"}
      BY <2>3, <2>4
    <3>. QED
      BY <3>2, <3>3 DEF CountInv
  <2>5. CASE from = "diffCreate" /\ to = "diffDiff"
    <3>1. Len(snaps) = 1
      BY <2>5, <2>3 DEF CountInv
    <3>2. Len(snaps') <= 2
      BY <2>1, <2>2, <3>1
    <3>3. pc' \in {"diffDiff", "idle"}
      BY <2>3, <2>5
    <3>. QED
      BY <3>2, <3>3 DEF CountInv
  <2>. QED
    BY <1>9, <2>4, <2>5
<1>10. CASE InitDiff
  BY <1>10 DEF InitDiff, RaiseFrom, CountInv
<1>11. CASE DiffDiff
  BY <1>11 DEF DiffDiff, RaiseFrom, CountInv
<1>12. CASE DiffRmLast
  BY <1>12, <1>1 DEF DiffRmLast, RaiseFrom, Locals, CountInv
<1>13. ASSUME NEW from, NEW bd, BenjiBackup(from, bd),
              from \in {"initBackup", "diffBackup"}
       PROVE  CountInv'
  BY <1>13 DEF BenjiBackup, RaiseFrom, Locals, CountInv
<1>14. ASSUME NEW v \in versions, Restore(v) PROVE CountInv'
  BY <1>14 DEF Restore, Locals, CountInv
<1>15. CASE UNCHANGED vars
  BY <1>15 DEF vars, CountInv
<1>. QED
  BY <1>2, <1>3, <1>4, <1>5, <1>6, <1>7, <1>8, <1>9, <1>10, <1>11, <1>12,
     <1>13, <1>14, <1>15 DEF Next


\* No step changes the receivers' vote.
LEMMA RaiseFixed == [Next]_vars => raiseOnError' = raiseOnError
BY DEF Next, vars, WriteBlock, Tick, BackupStart, SnapLs, RmOlder, BenjiLs,
       RmLast, SnapshotCreate, InitDiff, DiffDiff, DiffRmLast, BenjiBackup,
       Restore

\* Control points at which a call holds no snapshot, hints or base yet.
QuietPcs == {"idle", "snapLs", "rmOlder", "benjiLs", "initCreate", "initDiff"}

LEMMA CallQuiet == pc' \in QuietPcs => CallInv'
BY DEF CallInv, BaseValid, LastUnknown, NewSnapLater, DiffHints, InitHints,
       DiffPcs, QuietPcs

\* Removing a snapshot whose valid versions belong to past seconds keeps
\* every other valid version's snapshot, and the removed name in the past.
LEMMA RemoveKeeps ==
    ASSUME NEW s \in Seq(Rec), NamesSorted(s), NEW n \in NamesOf(s),
           NEW c, NEW V,
           \A v \in V : v.snap \in NamesOf(s) => DataOf(s, v.snap) = v.source,
           \A v \in V : v.snap \notin NamesOf(s) => v.snap < c,
           \A v \in V : v.snap = n => n < c
    PROVE  /\ \A v \in V : v.snap \in NamesOf(RemoveFrom(s, n)) =>
                             DataOf(RemoveFrom(s, n), v.snap) = v.source
           /\ \A v \in V : v.snap \notin NamesOf(RemoveFrom(s, n)) => v.snap < c
<1>1. /\ NamesOf(RemoveFrom(s, n)) = NamesOf(s) \ {n}
      /\ \A m \in NamesOf(RemoveFrom(s, n)) :
            DataOf(RemoveFrom(s, n), m) = DataOf(s, m)
  BY RemoveSnap
<1>. QED
  BY <1>1

\* Appending the snapshot of a second no snapshot has yet keeps every valid
\* version's snapshot.
LEMMA AppendKeeps ==
    ASSUME NEW s \in Seq(Rec), NamesSorted(s), NEW c \in Names,
           NEW d \in Contents, \A i \in DOMAIN s : s[i].name < c,
           NEW V \in SUBSET VersionRecs,
           \A v \in V : v.snap \in NamesOf(s) => DataOf(s, v.snap) = v.source,
           \A v \in V : v.snap \notin NamesOf(s) => v.snap < c
    PROVE  LET t == Append(s, [name |-> c, data |-> d])
           IN  /\ \A v \in V : v.snap \in NamesOf(t) => DataOf(t, v.snap) = v.source
               /\ \A v \in V : v.snap \notin NamesOf(t) => v.snap < c
<1> DEFINE t == Append(s, [name |-> c, data |-> d])
<1>1. /\ NamesOf(t) = NamesOf(s) \cup {c}
      /\ \A n \in NamesOf(s) : DataOf(t, n) = DataOf(s, n)
  BY AppendSnap
<1>2. \A v \in V : v.snap \in Nat /\ c \in Nat
  BY CephAssumption DEF VersionRecs, Names
<1>3. \A v \in V : v.snap \in NamesOf(t) => v.snap \in NamesOf(s)
  BY <1>1, <1>2
<1>. QED
  BY <1>1, <1>3

\* Hints that cover every changed block make the assembled contents those
\* of the snapshot.
LEMMA AssembleCovers ==
    ASSUME NEW h, NEW from \in Contents, NEW to \in Contents, Covers(h, from, to)
    PROVE  Assemble(h, to, from) = to
BY DEF Assemble, Covers, Contents

\* With receivers that re-raise, every step keeps the versions faithful to
\* their snapshots and what a running call knows of them.
LEMMA FaithStep == IInv /\ raiseOnError /\ [Next]_vars => FaithBody'
<1> SUFFICES ASSUME TypeInv, OrderInv, CountInv, raiseOnError,
                    VersionsFaithful, ValidSnapsKept, GoneNamesPast, CallInv,
                    [Next]_vars
             PROVE  FaithBody'
  BY DEF IInv, CountBase, FaithInv, FaithBody
<1>0. /\ snaps \in Seq(Rec) /\ NamesSorted(snaps) /\ clock \in Nat
      /\ \A i \in DOMAIN snaps : snaps[i].name <= clock
      /\ versions \subseteq VersionRecs /\ ValidVersions \subseteq VersionRecs
      /\ base \in VersionRecs \cup {NoVersion} /\ pc \in Pcs
  BY CephAssumption DEF TypeInv, TypeOK, Rec, OrderInv, Names, ValidVersions
<1>d. /\ SnapNames' = NamesOf(snaps')
      /\ \A n : SnapData(n)' = DataOf(snaps', n)
  BY DEF SnapNames, SnapData, NamesOf, DataOf
<1>v. /\ \A v \in ValidVersions : v.snap \in NamesOf(snaps) =>
                                    DataOf(snaps, v.snap) = v.source
      /\ \A v \in ValidVersions : v.snap \notin NamesOf(snaps) => v.snap < clock
  BY SnapDefs DEF ValidSnapsKept, GoneNamesPast
\* Steps that leave the versions, the snapshots and the clock alone.
<1>q. UNCHANGED <<versions, snaps, clock>> =>
        (VersionsFaithful /\ ValidSnapsKept /\ GoneNamesPast)'
  BY DEF VersionsFaithful, ValidSnapsKept, GoneNamesPast, ValidVersions,
         SnapNames, SnapData
\* Steps that leave the running call alone.
<1>c. UNCHANGED <<versions, snaps, pc, last, snapshot, hints, base>> => CallInv'
  BY DEF CallInv, BaseValid, LastUnknown, NewSnapLater, DiffHints, InitHints,
         ValidVersions, SnapNames, SnapData
\* Steps that replace the snapshots by t and keep the versions.
<1>r. ASSUME NEW t, snaps' = t, UNCHANGED <<versions, clock>>,
             \A v \in ValidVersions : v.snap \in NamesOf(t) =>
                                        DataOf(t, v.snap) = v.source,
             \A v \in ValidVersions : v.snap \notin NamesOf(t) => v.snap < clock
      PROVE  (VersionsFaithful /\ ValidSnapsKept /\ GoneNamesPast)'
  <2>1. ValidVersions' = ValidVersions
    BY <1>r DEF ValidVersions
  <2>2. VersionsFaithful'
    BY <1>r DEF VersionsFaithful
  <2>. QED
    BY <1>r, <1>d, <2>1, <2>2 DEF ValidSnapsKept, GoneNamesPast
<1>1. ASSUME NEW b \in Blocks, NEW v \in Vals, WriteBlock(b, v) PROVE FaithBody'
  BY <1>1, <1>q, <1>c DEF WriteBlock, Locals, FaithBody
<1>2. CASE Tick
  <2>1. UNCHANGED <<versions, snaps, pc, last, snapshot, hints, base>>
        /\ clock' = clock + 1
    BY <1>2 DEF Tick, Locals
  <2>2. GoneNamesPast'
    <3>1. \A v \in ValidVersions : v.snap \in Nat
      BY <1>0, CephAssumption DEF VersionRecs, Names
    <3>. QED
      BY <2>1, <3>1, <1>0 DEF GoneNamesPast, ValidVersions, SnapNames
  <2>3. (VersionsFaithful /\ ValidSnapsKept)'
    BY <2>1 DEF VersionsFaithful, ValidSnapsKept, ValidVersions, SnapNames,
                SnapData
  <2>. QED
    BY <2>1, <2>2, <2>3, <1>c DEF FaithBody
<1>3. CASE BackupStart
  BY <1>3, <1>q, CallQuiet DEF BackupStart, Locals, FaithBody, QuietPcs
<1>4. CASE SnapLs
  BY <1>4, <1>q, CallQuiet DEF SnapLs, RaiseFrom, FaithBody, QuietPcs
<1>5. CASE RmOlder
  <2>1. pc' \in QuietPcs
    BY <1>5 DEF RmOlder, RaiseFrom, QuietPcs
  <2>2. CASE UNCHANGED snaps
    BY <1>5, <2>1, <2>2, <1>q, CallQuiet DEF RmOlder, FaithBody
  <2>3. CASE /\ Len(listed) > 1 /\ Head(listed) \in SnapNames
             /\ snaps' = WithoutSnap(Head(listed))
    <3> DEFINE n == Head(listed)
    <3>1. listed = NameSeq(snaps) /\ Len(snaps) <= 2
      BY <1>5 DEF RmOlder, CountInv
    <3>2. Len(snaps) = 2 /\ n = snaps[1].name
      <4>1. DOMAIN listed = 1..Len(snaps) /\ listed \in Seq(Names)
        BY <3>1 DEF NameSeq, TypeInv, TypeOK
      <4>2. Len(listed) = Len(snaps)
        BY <4>1, <1>0
      <4>3. Len(snaps) = 2
        BY <4>2, <3>1, <2>3
      <4>. QED
        BY <4>3, <3>1 DEF NameSeq
    <3>3. n < snaps[2].name /\ snaps[2].name <= clock
      <4>1. 1 \in DOMAIN snaps /\ 2 \in DOMAIN snaps
        BY <3>2, <1>0
      <4>. QED
        BY <4>1, <3>2, <1>0 DEF NamesSorted
    <3>4. n < clock /\ n \in NamesOf(snaps)
      <4>1. n \in NamesOf(snaps)
        BY <2>3, SnapDefs
      <4>2. 2 \in DOMAIN snaps /\ snaps[2].name \in Nat /\ n \in Nat
        BY <3>2, <1>0, EntryType
      <4>. QED
        BY <4>1, <4>2, <3>3, <1>0
    <3>5. /\ \A v \in ValidVersions : v.snap \in NamesOf(RemoveFrom(snaps, n)) =>
                       DataOf(RemoveFrom(snaps, n), v.snap) = v.source
          /\ \A v \in ValidVersions : v.snap \notin NamesOf(RemoveFrom(snaps, n)) =>
                       v.snap < clock
      <4>1. \A v \in ValidVersions : v.snap = n => n < clock
        BY <3>4
      <4>2. snaps \in Seq(Rec) /\ NamesSorted(snaps)
        BY <1>0
      <4>. QED
        BY <3>4, <4>1, <4>2, <1>v, RemoveKeeps, Zenon
    <3>6. snaps' = RemoveFrom(snaps, n) /\ UNCHANGED <<versions, clock>>
      BY <2>3, <1>5, SnapDefs DEF RmOlder
    <3>. QED
      BY <3>5, <3>6, <1>r, <2>1, CallQuiet DEF FaithBody
  <2>. QED
    BY <1>5, <2>2, <2>3 DEF RmOlder, RaiseFrom
<1>6. CASE BenjiLs
  <2>1. UNCHANGED <<versions, snaps, clock, last, snapshot, hints>>
    BY <1>6 DEF BenjiLs
  <2>2. (VersionsFaithful /\ ValidSnapsKept /\ GoneNamesPast)'
    BY <2>1, <1>q
  <2>3. ValidVersions' = ValidVersions
    BY <2>1 DEF ValidVersions
  <2>4. CASE \E v \in versions : /\ v.snap = last /\ v.status = "valid"
                                 /\ base' = v /\ pc' = "diffCreate"
    <3>1. base' \in ValidVersions /\ base'.snap = last
      BY <2>4 DEF ValidVersions
    <3>. QED
      BY <2>1, <2>2, <2>3, <2>4, <3>1
         DEF FaithBody, CallInv, BaseValid, LastUnknown, NewSnapLater,
             DiffHints, InitHints, DiffPcs
  <2>5. CASE ~(\E v \in versions : v.snap = last /\ v.status = "valid")
             /\ pc' = "rmLast"
    <3>1. \A v \in ValidVersions : v.snap # last
      BY <2>5 DEF ValidVersions
    <3>. QED
      BY <2>1, <2>2, <2>3, <2>5, <3>1
         DEF FaithBody, CallInv, BaseValid, LastUnknown, NewSnapLater,
             DiffHints, InitHints, DiffPcs
  <2>6. CASE pc' = "idle"
    BY <2>2, <2>6, CallQuiet DEF FaithBody, QuietPcs
  <2>. QED
    BY <1>6, <2>4, <2>5, <2>6 DEF BenjiLs, RaiseFrom
<1>7. CASE RmLast
  <2>1. pc' \in QuietPcs
    BY <1>7 DEF RmLast, RaiseFrom, QuietPcs
  <2>2. CASE UNCHANGED snaps
    BY <1>7, <2>1, <2>2, <1>q, CallQuiet DEF RmLast, FaithBody
  <2>3. CASE last \in SnapNames /\ snaps' = WithoutSnap(last)
    <3>1. \A v \in ValidVersions : v.snap # last
      BY <1>7 DEF RmLast, CallInv, LastUnknown
    <3>2. /\ \A v \in ValidVersions : v.snap \in NamesOf(RemoveFrom(snaps, last)) =>
                       DataOf(RemoveFrom(snaps, last), v.snap) = v.source
          /\ \A v \in ValidVersions : v.snap \notin NamesOf(RemoveFrom(snaps, last)) =>
                       v.snap < clock
      <4>1. \A v \in ValidVersions : v.snap = last => last < clock
        BY <3>1
      <4>2. snaps \in Seq(Rec) /\ NamesSorted(snaps) /\ last \in NamesOf(snaps)
        BY <1>0, <2>3, SnapDefs
      <4>. QED
        BY <4>1, <4>2, <1>v, RemoveKeeps, Zenon
    <3>3. snaps' = RemoveFrom(snaps, last) /\ UNCHANGED <<versions, clock>>
      BY <2>3, <1>7, SnapDefs DEF RmLast
    <3>. QED
      BY <3>2, <3>3, <1>r, <2>1, CallQuiet DEF FaithBody
  <2>. QED
    BY <1>7, <2>2, <2>3 DEF RmLast, RaiseFrom
\* snapshot_create: the data conjuncts, whichever branch is taken.
<1>8. ASSUME NEW from, NEW to, SnapshotCreate(from, to)
      PROVE  (VersionsFaithful /\ ValidSnapsKept /\ GoneNamesPast)'
  <2>1. UNCHANGED <<versions, clock>>
    BY <1>8 DEF SnapshotCreate
  <2>2. CASE UNCHANGED snaps
    BY <2>1, <2>2, <1>q
  <2>3. CASE clock \notin SnapNames
             /\ snaps' = Append(snaps, [name |-> clock, data |-> image])
    <3> DEFINE t == Append(snaps, [name |-> clock, data |-> image])
    <3>1. \A i \in DOMAIN snaps : snaps[i].name < clock
      <4>1. \A i \in DOMAIN snaps : snaps[i].name \in Nat
        BY <1>0, EntryType
      <4>. QED
        BY <4>1, <2>3, <1>0 DEF SnapNames
    <3>2. clock \in Names /\ image \in Contents
      BY DEF TypeInv, TypeOK
    <3>3. /\ \A v \in ValidVersions : v.snap \in NamesOf(t) =>
                                        DataOf(t, v.snap) = v.source
          /\ \A v \in ValidVersions : v.snap \notin NamesOf(t) => v.snap < clock
      <4>1. snaps \in Seq(Rec) /\ NamesSorted(snaps)
            /\ ValidVersions \in SUBSET VersionRecs
        BY <1>0
      <4>. QED
        BY <3>1, <3>2, <4>1, <1>v, AppendKeeps, Zenon
    <3>. QED
      BY <2>1, <2>3, <3>3, <1>r, Zenon
  <2>. QED
    BY <1>8, <2>2, <2>3 DEF SnapshotCreate
<1>9. CASE SnapshotCreate("initCreate", "initDiff")
  <2>1. pc' \in QuietPcs
    BY <1>9 DEF SnapshotCreate, QuietPcs
  <2>. QED
    BY <1>8, <1>9, <2>1, CallQuiet DEF FaithBody
<1>10. CASE SnapshotCreate("diffCreate", "diffDiff")
  <2>1. pc = "diffCreate" /\ UNCHANGED <<versions, last, base, hints>>
        /\ snapshot' = clock
    BY <1>10 DEF SnapshotCreate
  <2>2. CASE pc' = "idle"
    BY <1>8, <1>10, <2>2, CallQuiet DEF FaithBody, QuietPcs
  <2>3. CASE pc' = "diffDiff"
    <3>1. clock \notin SnapNames
          /\ snaps' = Append(snaps, [name |-> clock, data |-> image])
      BY <1>10, <2>3 DEF SnapshotCreate
    <3>2. base \in ValidVersions /\ base.snap = last
      BY <2>1 DEF CallInv, BaseValid, DiffPcs
    <3>3. last < clock
      <4>1. last \in Nat /\ clock \in Nat
        BY CephAssumption DEF TypeInv, TypeOK, Names
      <4>2. CASE last \in SnapNames
        <5>1. last <= clock
          BY <4>2, <1>0 DEF SnapNames
        <5>. QED
          BY <5>1, <4>1, <4>2, <3>1
      <4>3. CASE last \notin SnapNames
        BY <4>3, <3>2 DEF GoneNamesPast
      <4>. QED
        BY <4>2, <4>3
    <3>4. snapshot' \in SnapNames'
      <4>1. clock \in NamesOf(snaps')
        BY <3>1 DEF NamesOf
      <4>. QED
        BY <4>1, <2>1, <1>d
    <3>5. base' \in ValidVersions' /\ base'.snap = last'
      BY <3>2, <2>1 DEF ValidVersions
    <3>6. CallInv'
      BY <3>3, <3>4, <3>5, <2>1, <2>3
         DEF CallInv, BaseValid, LastUnknown, NewSnapLater, DiffHints,
             InitHints, DiffPcs
    <3>. QED
      BY <1>8, <1>10, <3>6 DEF FaithBody
  <2>. QED
    BY <1>10, <2>2, <2>3 DEF SnapshotCreate
<1>11. CASE InitDiff
  <2>1. UNCHANGED <<versions, snaps, clock, snapshot, base, last>>
    BY <1>11 DEF InitDiff
  <2>2. CASE pc' = "idle"
    BY <2>1, <2>2, <1>q, CallQuiet DEF FaithBody, QuietPcs
  <2>3. CASE pc' = "initBackup"
    <3>1. snapshot \in SnapNames
          /\ hints' \in HintSets(SparseImage, SnapData(snapshot))
      BY <1>11, <2>3 DEF InitDiff, RaiseFrom
    <3>2. InitHints'
      BY <3>1, <2>1, <2>3 DEF InitHints, HintSets, Covers, SnapNames, SnapData
    <3>. QED
      BY <2>1, <2>3, <3>2, <1>q
         DEF FaithBody, CallInv, BaseValid, LastUnknown, NewSnapLater,
             DiffHints, DiffPcs
  <2>. QED
    BY <1>11, <2>2, <2>3 DEF InitDiff, RaiseFrom
<1>12. CASE DiffDiff
  <2>1. UNCHANGED <<versions, snaps, clock, snapshot, base, last>>
        /\ pc = "diffDiff"
    BY <1>12 DEF DiffDiff
  <2>2. CASE pc' = "idle"
    BY <2>1, <2>2, <1>q, CallQuiet DEF FaithBody, QuietPcs
  <2>3. CASE pc' = "diffRmLast"
    <3>1. {last, snapshot} \subseteq SnapNames
          /\ hints' \in HintSets(SnapData(last), SnapData(snapshot))
      BY <1>12, <2>3 DEF DiffDiff, RaiseFrom
    <3>2. base \in ValidVersions /\ base.snap = last
      BY <2>1 DEF CallInv, BaseValid, DiffPcs
    <3>3. base.data = SnapData(last)
      <4>1. base.data = base.source
        BY <3>2 DEF VersionsFaithful, ValidVersions
      <4>2. SnapData(base.snap) = base.source
        BY <3>1, <3>2 DEF ValidSnapsKept
      <4>. QED
        BY <4>1, <4>2, <3>2
    <3>4. DiffHints'
      <4>1. SnapData(snapshot)' = SnapData(snapshot)
        BY <2>1 DEF SnapData
      <4>2. Covers(hints', SnapData(last), SnapData(snapshot))
        BY <3>1 DEF HintSets, Covers
      <4>. QED
        BY <4>1, <4>2, <3>3, <2>1, <2>3 DEF DiffHints
    <3>5. (BaseValid /\ NewSnapLater)'
      BY <2>1, <2>3 DEF CallInv, BaseValid, NewSnapLater, DiffPcs,
                        ValidVersions, SnapNames
    <3>. QED
      BY <2>1, <2>3, <3>4, <3>5, <1>q
         DEF FaithBody, CallInv, LastUnknown, InitHints
  <2>. QED
    BY <1>12, <2>2, <2>3 DEF DiffDiff, RaiseFrom
<1>13. CASE DiffRmLast
  <2>1. UNCHANGED <<versions, clock, snapshot, base, last, hints>>
        /\ pc = "diffRmLast"
    BY <1>13 DEF DiffRmLast, Locals
  <2>2. CASE pc' = "idle" /\ UNCHANGED snaps
    BY <2>1, <2>2, <1>q, CallQuiet DEF FaithBody, QuietPcs
  <2>3. CASE pc' = "diffBackup" /\ last \in SnapNames
             /\ snaps' = WithoutSnap(last)
    <3>1. snapshot \in SnapNames /\ last < snapshot
      BY <2>1 DEF CallInv, NewSnapLater
    <3>2. last < clock
      <4>1. snapshot <= clock
        BY <3>1, <1>0 DEF SnapNames
      <4>2. last \in Nat /\ snapshot \in Nat /\ clock \in Nat
        BY CephAssumption DEF TypeInv, TypeOK, Names
      <4>. QED
        BY <3>1, <4>1, <4>2
    <3>3. /\ snaps \in Seq(Rec) /\ NamesSorted(snaps)
          /\ last \in NamesOf(snaps) /\ snapshot \in NamesOf(snaps)
          /\ snaps' = RemoveFrom(snaps, last)
      BY <1>0, <2>3, <3>1, SnapDefs
    <3>4. /\ \A v \in ValidVersions : v.snap \in NamesOf(RemoveFrom(snaps, last)) =>
                       DataOf(RemoveFrom(snaps, last), v.snap) = v.source
          /\ \A v \in ValidVersions : v.snap \notin NamesOf(RemoveFrom(snaps, last)) =>
                       v.snap < clock
      <4>1. \A v \in ValidVersions : v.snap = last => last < clock
        BY <3>2
      <4>. QED
        BY <4>1, <3>3, <1>v, RemoveKeeps, Zenon
    <3>5. (VersionsFaithful /\ ValidSnapsKept /\ GoneNamesPast)'
      BY <3>3, <3>4, <2>1, <1>r, Zenon
    <3>6. /\ snapshot \in NamesOf(snaps')
          /\ DataOf(snaps', snapshot) = DataOf(snaps, snapshot)
      <4>1. /\ NamesOf(RemoveFrom(snaps, last)) = NamesOf(snaps) \ {last}
            /\ \A m \in NamesOf(RemoveFrom(snaps, last)) :
                  DataOf(RemoveFrom(snaps, last), m) = DataOf(snaps, m)
        BY <3>3, RemoveSnap
      <4>2. snapshot # last
        BY <3>1, CephAssumption DEF TypeInv, TypeOK, Names
      <4>. QED
        BY <4>1, <4>2, <3>3
    <3>7. /\ snapshot' \in SnapNames'
          /\ SnapData(snapshot)' = SnapData(snapshot)
      <4>1. snapshot' \in SnapNames'
        BY <3>6, <2>1, <1>d
      <4>2. SnapData(snapshot)' = DataOf(snaps', snapshot)
        BY <2>1 DEF SnapData, DataOf
      <4>3. SnapData(snapshot) = DataOf(snaps, snapshot)
        BY SnapDefs
      <4>. QED
        BY <4>1, <4>2, <4>3, <3>6
    <3>8. CallInv'
      BY <3>1, <3>7, <2>1, <2>3
         DEF CallInv, BaseValid, LastUnknown, NewSnapLater, DiffHints,
             InitHints, DiffPcs, ValidVersions
    <3>. QED
      BY <3>5, <3>8 DEF FaithBody
  <2>. QED
    BY <1>13, <2>2, <2>3 DEF DiffRmLast, RaiseFrom
\* benji backup: hints that cover the changed blocks make a faithful version.
<1>14. ASSUME NEW from, NEW bd \in Contents, BenjiBackup(from, bd),
              snapshot \in SnapNames => Covers(hints, bd, SnapData(snapshot))
       PROVE  FaithBody'
  <2>1. pc' = "idle" /\ UNCHANGED <<snaps, clock>>
    BY <1>14 DEF BenjiBackup, RaiseFrom
  <2>2. /\ SnapNames' = SnapNames
        /\ \A n : SnapData(n)' = SnapData(n)
    BY <2>1 DEF SnapNames, SnapData
  <2>3. CASE snapshot \in SnapNames
             /\ versions' = versions \cup
                  {[snap |-> snapshot,
                    data |-> Assemble(hints, SnapData(snapshot), bd),
                    source |-> SnapData(snapshot), status |-> "valid"]}
    <3> DEFINE w == [snap |-> snapshot,
                     data |-> Assemble(hints, SnapData(snapshot), bd),
                     source |-> SnapData(snapshot), status |-> "valid"]
    <3>1. SnapData(snapshot) \in Contents
      BY <2>3, <1>0, SnapDefs, DataType
    <3>2. w.data = w.source
      BY <3>1, <2>3, <1>14, AssembleCovers
    <3>3. ValidVersions' = ValidVersions \cup {w}
      BY <2>3 DEF ValidVersions
    <3>4. VersionsFaithful'
      BY <3>2, <2>3 DEF VersionsFaithful, ValidVersions
    <3>5. ValidSnapsKept'
      BY <3>3, <2>2, <2>3 DEF ValidSnapsKept
    <3>6. GoneNamesPast'
      BY <3>3, <2>1, <2>2, <2>3 DEF GoneNamesPast
    <3>. QED
      BY <2>1, <3>4, <3>5, <3>6, CallQuiet DEF FaithBody, QuietPcs
  <2>4. CASE \/ UNCHANGED versions
             \/ \E w \in [snap : {snapshot}, data : {SparseImage},
                          source : Contents, status : {"invalid"}] :
                  versions' = versions \cup {w}
    <3>1. ValidVersions' = ValidVersions
      BY <2>4 DEF ValidVersions
    <3>2. VersionsFaithful'
      BY <3>1 DEF VersionsFaithful, ValidVersions
    <3>. QED
      BY <2>1, <2>2, <3>1, <3>2, CallQuiet
         DEF FaithBody, ValidSnapsKept, GoneNamesPast, QuietPcs
  <2>5. (IF snapshot \in SnapNames THEN SnapData(snapshot) ELSE SparseImage)
          \in Contents
    <3>1. snapshot \in SnapNames => SnapData(snapshot) \in Contents
      BY <1>0, SnapDefs, DataType
    <3>2. SparseImage \in Contents
      BY CephAssumption DEF SparseImage, Contents
    <3>. QED
      BY <3>1, <3>2
  <2>. QED
    BY <1>14, <2>3, <2>4, <2>5 DEF BenjiBackup
<1>15. CASE BenjiBackup("initBackup", SparseImage)
  <2>1. pc = "initBackup"
    BY <1>15 DEF BenjiBackup
  <2>2. Covers(hints, SparseImage, SnapData(snapshot))
    BY <2>1 DEF CallInv, InitHints
  <2>3. SparseImage \in Contents
    BY CephAssumption DEF SparseImage, Contents
  <2>. QED
    BY <1>15, <2>2, <2>3, <1>14
<1>16. CASE BenjiBackup("diffBackup", base.data)
  <2>1. pc = "diffBackup"
    BY <1>16 DEF BenjiBackup
  <2>2. Covers(hints, base.data, SnapData(snapshot))
    BY <2>1 DEF CallInv, DiffHints
  <2>3. base.data \in Contents
    BY <2>1, <1>0 DEF CallInv, BaseValid, DiffPcs, VersionRecs
  <2>. QED
    BY <1>16, <2>2, <2>3, <1>14
<1>17. ASSUME NEW v \in versions, Restore(v) PROVE FaithBody'
  BY <1>17, <1>q, CallQuiet DEF Restore, Locals, FaithBody, QuietPcs
<1>18. CASE UNCHANGED vars
  BY <1>18, <1>q, <1>c DEF vars, FaithBody
<1>. QED
  BY <1>1, <1>2, <1>3, <1>4, <1>5, <1>6, <1>7, <1>9, <1>10, <1>11, <1>12,
     <1>13, <1>15, <1>16, <1>17, <1>18 DEF Next

(* Whichever rbd or benji command fails, and however calls interleave with *)
(* the clock, the image never carries more than two benji snapshots, for   *)
(* every number of calls and blocks (SnapshotsBounded): the delete loop of *)
(* backup() and the removal of last_snapshot keep them from piling up.     *)
THEOREM SnapshotsBoundedHolds == Spec => []SnapshotsBounded
<1>1. Init => CountBase
  BY InitIInv DEF IInv
<1>2. CountBase /\ [Next]_vars => CountBase'
  BY TypeStep, OrderStep, CountStep DEF CountBase
<1>3. CountBase => SnapshotsBounded
  <2> SUFFICES ASSUME CountBase PROVE Len(snaps) <= 2
    BY DEF SnapshotsBounded
  <2>1. snaps \in Seq(Rec) /\ pc \in Pcs
    BY DEF CountBase, TypeInv, TypeOK, Rec
  <2>. QED
    BY <2>1 DEF CountBase, CountInv, Pcs
<1>. QED
  BY <1>1, <1>2, <1>3, PTL DEF Spec


\* The inductive invariant is kept by every step.
LEMMA IInvStep == IInv /\ [Next]_vars => IInv'
<1> SUFFICES ASSUME IInv, [Next]_vars PROVE IInv'
  OBVIOUS
<1>1. CountBase'
  BY TypeStep, OrderStep, CountStep DEF IInv, CountBase
<1>2. FaithInv'
  <2>1. raiseOnError' = raiseOnError
    BY RaiseFixed
  <2>2. CASE raiseOnError
    BY <2>2, FaithStep DEF FaithInv
  <2>3. CASE ~raiseOnError
    BY <2>1, <2>3 DEF FaithInv
  <2>. QED
    BY <2>2, <2>3
<1>. QED
  BY <1>1, <1>2 DEF IInv

(* With post_error receivers that re-raise, or none connected, every      *)
(* version benji holds as valid has exactly the contents of its RBD       *)
(* snapshot, for every number of blocks, values, calls and seconds          *)
(* (VersionsFaithfulWhenRaising): backup() bases a differential backup    *)
(* only on a valid version of last_snapshot, rbd diff --from-snap covers   *)
(* every changed block, and a deleted snapshot's name is a past second,   *)
(* never reused by snapshot_create.                                        *)
THEOREM VersionsFaithfulWhenRaisingHolds == Spec => []VersionsFaithfulWhenRaising
<1>1. IInv => VersionsFaithfulWhenRaising
  BY DEF IInv, FaithInv, FaithBody, VersionsFaithfulWhenRaising
<1>. QED
  BY <1>1, InitIInv, IInvStep, PTL DEF Spec

=============================================================================
