----------------------- MODULE JobStatusTracker_proofs -----------------------
(***************************************************************************)
(* Proofs about the operator's tracking of its Jobs in the parent's        *)
(* status.dependantJobs (k8s_operator/resources.py), for every set of      *)
(* Jobs and every bound on failed pods.                                    *)
(***************************************************************************)
EXTENDS JobStatusTracker, FiniteSetTheorems, TLAPS

\* No uid appears at two indices of the list s.
UniqueUids(s) == \A a, b \in DOMAIN s : s[a].uid = s[b].uid => a = b

-----------------------------------------------------------------------------
(* The list helpers.                                                       *)

\* derive_job_status gives one of the four statuses.
LEMMA EntryType ==
    ASSUME NEW j \in Jobs, NEW s \in JobStatuses
    PROVE  DependantEntry(j, s) \in Entries
BY DEF DependantEntry, DeriveJobStatus, Entries, DependantStatuses, JobStatuses

\* update_status_list replaces the entry of the Job or appends one, and so
\* keeps every uid at most once.
LEMMA UpdateUnique ==
    ASSUME NEW lst \in Seq(Entries), UniqueUids(lst),
           NEW j \in Jobs, NEW s \in JobStatuses
    PROVE  /\ UpdateStatusList(lst, j, s) \in Seq(Entries)
           /\ UniqueUids(UpdateStatusList(lst, j, s))
<1> DEFINE e == DependantEntry(j, s)
<1>1. e \in Entries /\ e.uid = j
  BY EntryType DEF DependantEntry
<1>2. CASE \E i \in DOMAIN lst : lst[i].uid = j
  <2>1. PICK p \in DOMAIN lst : lst[p].uid = j
    BY <1>2
  <2>2. \A k \in 1..(p - 1) : lst[k].uid # j
    BY <2>1 DEF UniqueUids
  <2>3. (CHOOSE i \in DOMAIN lst :
            lst[i].uid = j /\ \A k \in 1..(i - 1) : lst[k].uid # j) = p
    BY <2>1, <2>2 DEF UniqueUids
  <2>4. UpdateStatusList(lst, j, s) = [lst EXCEPT ![p] = e]
    BY <1>2, <2>3, Zenon DEF UpdateStatusList
  <2>5. [lst EXCEPT ![p] = e] \in Seq(Entries)
    BY <1>1
  <2>6. UniqueUids([lst EXCEPT ![p] = e])
    BY <1>1, <2>1 DEF UniqueUids
  <2>. QED
    BY <2>4, <2>5, <2>6
<1>3. CASE ~\E i \in DOMAIN lst : lst[i].uid = j
  <2>1. UpdateStatusList(lst, j, s) = Append(lst, e)
    BY <1>3 DEF UpdateStatusList
  <2>2. Append(lst, e) \in Seq(Entries)
    BY <1>1
  <2>3. UniqueUids(Append(lst, e))
    BY <1>1, <1>3 DEF UniqueUids
  <2>. QED
    BY <2>1, <2>2, <2>3
<1>. QED
  BY <1>2, <1>3

\* The kept indices are finitely many, and every rank from 1 to their
\* number is the rank of exactly one of them.
LEMMA KeptRanks ==
    ASSUME NEW lst \in Seq(Entries), NEW j
    PROVE  LET K == KeptIndices(lst, j)
           IN  /\ IsFiniteSet(K) /\ Cardinality(K) \in Nat
               /\ \A i \in K : KeptRank(lst, j, i) \in 1..Cardinality(K)
               /\ \A i1, i2 \in K :
                     KeptRank(lst, j, i1) = KeptRank(lst, j, i2) => i1 = i2
               /\ \A k \in 1..Cardinality(K) : \E i \in K : KeptRank(lst, j, i) = k
<1> DEFINE K == KeptIndices(lst, j)
           Upto(i) == {k \in K : k <= i}
           n == Cardinality(K)
<1>1. K \subseteq 1..Len(lst) /\ IsFiniteSet(K) /\ n \in Nat
  <2>1. K \subseteq 1..Len(lst)
    BY DEF KeptIndices
  <2>2. IsFiniteSet(1..Len(lst))
    BY FS_Interval
  <2>3. IsFiniteSet(K)
    BY <2>1, <2>2, FS_Subset
  <2>. QED
    BY <2>1, <2>3, FS_CardinalityType
<1>2. \A i \in K : KeptRank(lst, j, i) = Cardinality(Upto(i))
  BY DEF KeptRank
<1>3. ASSUME NEW i \in K
      PROVE  /\ IsFiniteSet(Upto(i))
             /\ Cardinality(Upto(i)) \in Nat
             /\ Cardinality(Upto(i)) \in 1..n
  <2>1. IsFiniteSet(Upto(i)) /\ Cardinality(Upto(i)) <= n
    BY <1>1, FS_Subset
  <2>2. Cardinality(Upto(i)) \in Nat
    BY <2>1, FS_CardinalityType
  <2>3. Cardinality(Upto(i)) # 0
    <3>1. Upto(i) # {}
      BY <1>1
    <3>2. Cardinality(Upto(i)) = 0 <=> Upto(i) = {}
      BY <2>1, FS_EmptySet, Zenon
    <3>. QED
      BY <3>1, <3>2
  <2>. QED
    BY <2>1, <2>2, <2>3, <1>1
<1>4. ASSUME NEW i1 \in K, NEW i2 \in K, i1 < i2
      PROVE  Cardinality(Upto(i1)) < Cardinality(Upto(i2))
  <2>1. Upto(i1) \subseteq Upto(i2) /\ i2 \in Upto(i2) \ Upto(i1)
    BY <1>1, <1>4
  <2>2. IsFiniteSet(Upto(i2))
    BY <1>3
  <2>3. /\ Cardinality(Upto(i1)) <= Cardinality(Upto(i2))
        /\ Cardinality(Upto(i2)) = Cardinality(Upto(i1)) => Upto(i2) = Upto(i1)
    BY <2>1, <2>2, FS_Subset
  <2>4. Cardinality(Upto(i1)) \in Nat /\ Cardinality(Upto(i2)) \in Nat
    BY <1>3, <1>1, Zenon
  <2>. QED
    BY <2>1, <2>3, <2>4
<1>5. \A i1, i2 \in K : KeptRank(lst, j, i1) = KeptRank(lst, j, i2) => i1 = i2
  <2> SUFFICES ASSUME NEW i1 \in K, NEW i2 \in K, i1 # i2
               PROVE  Cardinality(Upto(i1)) # Cardinality(Upto(i2))
    BY <1>2, Zenon
  <2>1. i1 \in Nat /\ i2 \in Nat
    BY <1>1
  <2>2. Cardinality(Upto(i1)) \in Nat /\ Cardinality(Upto(i2)) \in Nat
    BY <1>3, Zenon
  <2>3. CASE i1 < i2
    <3>1. Cardinality(Upto(i1)) < Cardinality(Upto(i2))
      BY <2>3, <1>4, Zenon
    <3>. QED
      BY <3>1, <2>2
  <2>4. CASE i2 < i1
    <3>1. Cardinality(Upto(i2)) < Cardinality(Upto(i1))
      BY <2>4, <1>4, Zenon
    <3>. QED
      BY <3>1, <2>2
  <2>. QED
    BY <2>1, <2>3, <2>4
<1>6. \A k \in 1..n : \E i \in K : KeptRank(lst, j, i) = k
  <2> DEFINE f == [i \in K |-> KeptRank(lst, j, i)]
  <2>1. f \in Injection(K, 1..n)
    BY <1>2, <1>3, <1>5, Zenon DEF Injection, IsInjective
  <2>2. IsFiniteSet(1..n) /\ Cardinality(1..n) = n
    BY <1>1, FS_Interval
  <2>3. f \in Surjection(K, 1..n)
    BY <2>1, <2>2, FS_Injection
  <2>. QED
    BY <2>3, Zenon DEF Surjection
<1>. QED
  BY <1>1, <1>2, <1>3, <1>5, <1>6, Zenon

\* The index of the kept entry of rank k.
KeptAt(lst, j, k) == CHOOSE i \in KeptIndices(lst, j) : KeptRank(lst, j, i) = k

\* delete_from_status_list keeps every uid at most once.
LEMMA DeleteUnique ==
    ASSUME NEW lst \in Seq(Entries), UniqueUids(lst), NEW j
    PROVE  /\ DeleteFromStatusList(lst, j) \in Seq(Entries)
           /\ UniqueUids(DeleteFromStatusList(lst, j))
<1> DEFINE K == KeptIndices(lst, j)
           n == Cardinality(K)
           F == [k \in 1..n |-> lst[KeptAt(lst, j, k)]]
<1>1. /\ n \in Nat
      /\ \A k \in 1..n : \E i \in K : KeptRank(lst, j, i) = k
  BY KeptRanks
<1>2. \A k \in 1..n : KeptAt(lst, j, k) \in K /\ KeptRank(lst, j, KeptAt(lst, j, k)) = k
  BY <1>1 DEF KeptAt
<1>3. DeleteFromStatusList(lst, j) = F
  BY DEF DeleteFromStatusList, KeptAt
<1>4. K \subseteq DOMAIN lst
  BY DEF KeptIndices
<1>5. F \in Seq(Entries)
  BY <1>1, <1>2, <1>4
<1>6. UniqueUids(F)
  <2> SUFFICES ASSUME NEW a \in 1..n, NEW b \in 1..n,
                      lst[KeptAt(lst, j, a)].uid = lst[KeptAt(lst, j, b)].uid
               PROVE  a = b
    BY DEF UniqueUids
  <2>1. KeptAt(lst, j, a) = KeptAt(lst, j, b)
    BY <1>2, <1>4 DEF UniqueUids
  <2>2. KeptRank(lst, j, KeptAt(lst, j, a)) = a
        /\ KeptRank(lst, j, KeptAt(lst, j, b)) = b
    BY <1>2
  <2>. QED
    BY <2>1, <2>2
<1>. QED
  BY <1>3, <1>5, <1>6

\* The list a run computes is well typed and keeps every uid at most once.
LEMMA BuildUnique ==
    ASSUME NEW lst \in Seq(Entries), UniqueUids(lst),
           NEW j \in Jobs, NEW r, NEW s \in JobStatuses
    PROVE  /\ BuildDependantJobs(lst, j, r, s) \in Seq(Entries)
           /\ UniqueUids(BuildDependantJobs(lst, j, r, s))
BY UpdateUnique, DeleteUnique DEF BuildDependantJobs

\* The entries of a list, as a set.
ListedSet(lst) == {lst[i] : i \in DOMAIN lst}

\* Every entry of lst belongs to a Job of the parent.
UidsLabelled(lst) == \A i \in DOMAIN lst : lst[i].uid \in Labelled

\* delete_from_status_list only keeps entries of lst whose uid is not j's.
LEMMA DeleteKeeps ==
    ASSUME NEW lst \in Seq(Entries), NEW j
    PROVE  \A k \in DOMAIN DeleteFromStatusList(lst, j) :
              DeleteFromStatusList(lst, j)[k] \in {lst[i] : i \in KeptIndices(lst, j)}
<1> DEFINE K == KeptIndices(lst, j)
           n == Cardinality(K)
<1>1. /\ n \in Nat
      /\ \A k \in 1..n : \E i \in K : KeptRank(lst, j, i) = k
  BY KeptRanks
<1>2. \A k \in 1..n : KeptAt(lst, j, k) \in K
  BY <1>1 DEF KeptAt
<1>3. DeleteFromStatusList(lst, j) = [k \in 1..n |-> lst[KeptAt(lst, j, k)]]
  BY DEF DeleteFromStatusList, KeptAt
<1>. QED
  BY <1>2, <1>3

\* The list a run computes for a Job of the parent only has entries of
\* Jobs of the parent when the list it read had.
LEMMA BuildLabelled ==
    ASSUME NEW lst \in Seq(Entries), UidsLabelled(lst),
           NEW j \in Labelled, NEW r, NEW s \in JobStatuses
    PROVE  UidsLabelled(BuildDependantJobs(lst, j, r, s))
<1>1. CASE r = "delete"
  <2>1. \A k \in DOMAIN DeleteFromStatusList(lst, j) :
           DeleteFromStatusList(lst, j)[k] \in {lst[i] : i \in KeptIndices(lst, j)}
    BY DeleteKeeps
  <2>2. KeptIndices(lst, j) \subseteq DOMAIN lst
    BY DEF KeptIndices
  <2>. QED
    BY <1>1, <2>1, <2>2 DEF BuildDependantJobs, UidsLabelled
<1>2. CASE r # "delete"
  <2>1. DependantEntry(j, s).uid = j
    BY DEF DependantEntry
  <2>. QED
    BY <1>2, <2>1 DEF BuildDependantJobs, UpdateStatusList, UidsLabelled
<1>. QED
  BY <1>1, <1>2

\* On a list that holds at most the entry of Job j, update_status_list
\* leaves exactly j's new entry.
LEMMA UpdateSingle ==
    ASSUME NEW lst \in Seq(Entries), UniqueUids(lst),
           NEW j \in Jobs, NEW s \in JobStatuses,
           \A i \in DOMAIN lst : lst[i].uid = j
    PROVE  ListedSet(UpdateStatusList(lst, j, s)) = {DependantEntry(j, s)}
<1> DEFINE e == DependantEntry(j, s)
<1>1. CASE \E i \in DOMAIN lst : lst[i].uid = j
  <2>1. PICK p \in DOMAIN lst : lst[p].uid = j
    BY <1>1
  <2>2. DOMAIN lst = {p}
    <3>1. \A i \in DOMAIN lst : i = p
      BY <2>1 DEF UniqueUids
    <3>. QED
      BY <3>1, <2>1, Zenon
  <2>3. \A k \in 1..(p - 1) : lst[k].uid # j
    BY <2>1 DEF UniqueUids
  <2>4. (CHOOSE i \in DOMAIN lst :
            lst[i].uid = j /\ \A k \in 1..(i - 1) : lst[k].uid # j) = p
    BY <2>1, <2>2, <2>3
  <2>5. UpdateStatusList(lst, j, s) = [lst EXCEPT ![p] = e]
    BY <1>1, <2>4, Zenon DEF UpdateStatusList
  <2>. QED
    BY <2>2, <2>5 DEF ListedSet
<1>2. CASE ~\E i \in DOMAIN lst : lst[i].uid = j
  <2>1. lst = << >>
    BY <1>2
  <2>2. UpdateStatusList(lst, j, s) = << e >>
    BY <1>2, <2>1 DEF UpdateStatusList
  <2>. QED
    BY <2>2 DEF ListedSet
<1>. QED
  BY <1>1, <1>2

\* On a list that holds at most the entry of Job j, delete_from_status_list
\* leaves nothing.
LEMMA DeleteSingle ==
    ASSUME NEW lst \in Seq(Entries), NEW j,
           \A i \in DOMAIN lst : lst[i].uid = j
    PROVE  ListedSet(DeleteFromStatusList(lst, j)) = {}
<1>1. KeptIndices(lst, j) = {}
  BY DEF KeptIndices
<1>2. \A k \in DOMAIN DeleteFromStatusList(lst, j) :
         DeleteFromStatusList(lst, j)[k] \in {lst[i] : i \in KeptIndices(lst, j)}
  BY DeleteKeeps
<1>. QED
  BY <1>1, <1>2 DEF ListedSet


-----------------------------------------------------------------------------
(* The inductive invariant.                                                *)

\* No Job appears twice in the parent's list.
UniqueEntries ==
    \A a, b \in DOMAIN depList : depList[a].uid = depList[b].uid => a = b

\* The list a run is about to patch has every uid at most once.
PatchesUnique == \A j \in Jobs : hpc[j] = "patch" => UniqueUids(hnew[j])

IInv == TypeOK /\ UniqueEntries /\ PatchesUnique

LEMMA InitIInv == Init => IInv
<1> SUFFICES ASSUME Init PROVE IInv
  OBVIOUS
<1>1. TypeOK
  BY TrackerAssumption DEF Init, TypeOK, JobStatuses, Reasons
<1>2. UniqueEntries /\ PatchesUnique
  BY DEF Init, UniqueEntries, PatchesUnique
<1>. QED
  BY <1>1, <1>2 DEF IInv

\* Every step keeps the types, the parent's list free of duplicates and the
\* list each run is about to patch free of duplicates.
LEMMA IInvStep == IInv /\ [Next]_vars => IInv'
<1> SUFFICES ASSUME TypeOK, UniqueEntries, PatchesUnique, [Next]_vars
             PROVE  IInv'
  BY DEF IInv
<1>0. UniqueUids(depList) /\ depList \in Seq(Entries)
  BY DEF UniqueEntries, UniqueUids, TypeOK
<1>1. ASSUME NEW j \in Jobs, CreateJob(j) PROVE IInv'
  BY <1>1 DEF CreateJob, IInv, TypeOK, Reasons, UniqueEntries, PatchesUnique
<1>2. ASSUME NEW j \in Jobs, JobProgress(j) PROVE IInv'
  <2>1. jstatus' \in [Jobs -> JobStatuses]
    <3>1. jstatus[j] \in JobStatuses /\ MaxFailed \in Nat
      BY TrackerAssumption DEF TypeOK
    <3>2. CASE jstatus' = [jstatus EXCEPT ![j].start = TRUE]
      <4>1. [jstatus[j] EXCEPT !.start = TRUE] \in JobStatuses
        BY <3>1, Zenon DEF JobStatuses
      <4>2. jstatus' = [jstatus EXCEPT ![j] = [jstatus[j] EXCEPT !.start = TRUE]]
        BY <3>2
      <4>. QED
        BY <4>1, <4>2 DEF TypeOK
    <3>3. CASE jstatus[j].failed < MaxFailed
               /\ jstatus' = [jstatus EXCEPT ![j].failed = @ + 1]
      <4>1. [jstatus[j] EXCEPT !.failed = @ + 1] \in JobStatuses
        BY <3>1, <3>3 DEF JobStatuses
      <4>. QED
        BY <4>1, <3>3 DEF TypeOK
    <3>4. CASE jstatus' = [jstatus EXCEPT ![j].completion = TRUE]
      <4>1. [jstatus[j] EXCEPT !.completion = TRUE] \in JobStatuses
        BY <3>1, Zenon DEF JobStatuses
      <4>2. jstatus' = [jstatus EXCEPT ![j] = [jstatus[j] EXCEPT !.completion = TRUE]]
        BY <3>4
      <4>. QED
        BY <4>1, <4>2 DEF TypeOK
    <3>. QED
      BY <1>2, <3>2, <3>3, <3>4 DEF JobProgress
  <2>2. evt' \in [Jobs -> Reasons \cup {"none"}]
    BY <1>2 DEF JobProgress, Touch, TypeOK, Reasons
  <2>. QED
    BY <1>2, <2>1, <2>2 DEF JobProgress, IInv, TypeOK, UniqueEntries,
                            PatchesUnique
<1>3. ASSUME NEW j \in Jobs, DeleteJob(j) PROVE IInv'
  BY <1>3 DEF DeleteJob, IInv, TypeOK, Reasons, UniqueEntries, PatchesUnique
<1>4. ASSUME NEW j \in Jobs, HandleEvent(j) PROVE IInv'
  <2>1. evt[j] \in Reasons /\ jstatus[j] \in JobStatuses
    BY <1>4 DEF HandleEvent, TypeOK
  <2>2. /\ BuildDependantJobs(depList, j, evt[j], jstatus[j]) \in Seq(Entries)
        /\ UniqueUids(BuildDependantJobs(depList, j, evt[j], jstatus[j]))
    BY <2>1, <1>0, BuildUnique
  <2>3. /\ evt' = [evt EXCEPT ![j] = "none"]
        /\ hreason' = [hreason EXCEPT ![j] = evt[j]]
        /\ UNCHANGED <<jphase, jstatus, depList, parent, dd, ddList>>
    BY <1>4 DEF HandleEvent
  <2>4. CASE /\ hnew' = [hnew EXCEPT ![j] =
                          BuildDependantJobs(depList, j, evt[j], jstatus[j])]
             /\ hpc' = [hpc EXCEPT ![j] = "patch"]
    <3>1. TypeOK'
      BY <2>1, <2>2, <2>3, <2>4 DEF TypeOK
    <3>2. PatchesUnique'
      BY <2>2, <2>4 DEF PatchesUnique, TypeOK
    <3>. QED
      BY <2>3, <3>1, <3>2 DEF IInv, UniqueEntries
  <2>5. CASE /\ hnew' = hnew
             /\ hpc' = [hpc EXCEPT ![j] = IF evt[j] # "delete" THEN "deleteOrphan"
                                                             ELSE "idle"]
    <3>1. TypeOK'
      BY <2>1, <2>3, <2>5 DEF TypeOK
    <3>2. PatchesUnique'
      BY <2>5 DEF PatchesUnique, TypeOK
    <3>. QED
      BY <2>3, <3>1, <3>2 DEF IInv, UniqueEntries
  <2>. QED
    BY <1>4, <2>4, <2>5 DEF HandleEvent
<1>5. ASSUME NEW j \in Jobs, PatchParent(j) PROVE IInv'
  <2>1. UniqueUids(hnew[j]) /\ hnew[j] \in Seq(Entries)
    BY <1>5 DEF PatchParent, PatchesUnique, TypeOK
  <2>2. UniqueEntries'
    BY <1>5, <2>1, <1>0 DEF PatchParent, UniqueEntries, UniqueUids
  <2>. QED
    BY <1>5, <2>1, <2>2 DEF PatchParent, IInv, TypeOK, PatchesUnique
<1>6. ASSUME NEW j \in Jobs, DeleteOrphan(j) PROVE IInv'
  <2>1. /\ hpc' = [hpc EXCEPT ![j] = "idle"]
        /\ jphase' \in [Jobs -> {"absent", "live", "gone"}]
        /\ evt' \in [Jobs -> Reasons \cup {"none"}]
        /\ UNCHANGED <<jstatus, hreason, hnew, depList, parent, dd, ddList>>
    <3>1. CASE jphase[j] = "live" /\ jphase' = [jphase EXCEPT ![j] = "gone"]
               /\ evt' = [evt EXCEPT ![j] = "delete"]
               /\ hpc' = [hpc EXCEPT ![j] = "idle"]
      BY <1>6, <3>1 DEF DeleteOrphan, TypeOK, Reasons
    <3>2. CASE UNCHANGED jphase /\ Retry(j)
      <4>1. hreason[j] \in Reasons
        BY DEF TypeOK
      <4>. QED
        BY <1>6, <3>2, <4>1 DEF DeleteOrphan, Retry, TypeOK, Reasons
    <3>. QED
      BY <1>6, <3>1, <3>2 DEF DeleteOrphan
  <2>. QED
    BY <2>1 DEF IInv, TypeOK, UniqueEntries, PatchesUnique
<1>7. ASSUME NEW j \in Jobs, StrayDelete(j) PROVE IInv'
  <2>1. /\ jphase' = [jphase EXCEPT ![j] = "gone"]
        /\ evt' = [evt EXCEPT ![j] = "delete"]
        /\ UNCHANGED <<jstatus, hpc, hreason, hnew, depList, parent, dd, ddList>>
    BY <1>7 DEF StrayDelete
  <2>. QED
    BY <2>1 DEF IInv, TypeOK, Reasons, UniqueEntries, PatchesUnique
<1>8. ASSUME NEW j \in Jobs, DeleteDependant(j) PROVE IInv'
  <2>1. /\ ddList' \subseteq Jobs
        /\ jphase' \in [Jobs -> {"absent", "live", "gone"}]
        /\ evt' \in [Jobs -> Reasons \cup {"none"}]
        /\ UNCHANGED <<jstatus, hpc, hreason, hnew, depList, parent, dd>>
    <3>1. ddList' = ddList \ {j}
          /\ UNCHANGED <<jstatus, hpc, hreason, hnew, depList, parent, dd>>
      BY <1>8 DEF DeleteDependant
    <3>2. CASE jphase' = [jphase EXCEPT ![j] = "gone"]
               /\ evt' = [evt EXCEPT ![j] = "delete"]
      BY <3>1, <3>2 DEF TypeOK, Reasons
    <3>3. CASE UNCHANGED <<jphase, evt>>
      BY <3>1, <3>3 DEF TypeOK
    <3>. QED
      BY <1>8, <3>1, <3>2, <3>3 DEF DeleteDependant
  <2>. QED
    BY <2>1 DEF IInv, TypeOK, UniqueEntries, PatchesUnique
<1>9. CASE DeleteParent
  <2>1. parent' = "deleting"
        /\ UNCHANGED <<jphase, jstatus, evt, hpc, hreason, hnew, depList, dd,
                       ddList>>
    BY <1>9 DEF DeleteParent
  <2>. QED
    BY <2>1 DEF IInv, TypeOK, UniqueEntries, PatchesUnique
<1>10. CASE ListDependants
  <2>1. /\ ddList' \subseteq Jobs /\ dd' = "deleting"
        /\ UNCHANGED <<jphase, jstatus, evt, hpc, hreason, hnew, depList, parent>>
    BY <1>10 DEF ListDependants
  <2>. QED
    BY <2>1 DEF IInv, TypeOK, UniqueEntries, PatchesUnique
<1>11. CASE DeleteAllDone
  BY <1>11 DEF DeleteAllDone, IInv, TypeOK, Reasons, UniqueEntries, PatchesUnique
<1>12. CASE UNCHANGED vars
  BY <1>12 DEF vars, IInv, TypeOK, Reasons, UniqueEntries, PatchesUnique
<1>. QED
  BY <1>1, <1>2, <1>3, <1>4, <1>5, <1>6, <1>7, <1>8, <1>9, <1>10, <1>11,
     <1>12 DEF Next, OperatorStep

(* No Job appears twice in status.dependantJobs, for every set of Jobs:    *)
(* update_status_list replaces the Job's entry or appends one,            *)
(* delete_from_status_list only drops entries, and every patch writes a   *)
(* list computed from a duplicate-free one.                                *)
LEMMA UniqueEntriesHolds == Spec => []UniqueEntries
<1>1. IInv => UniqueEntries
  BY DEF IInv
<1>. QED
  BY <1>1, InitIInv, IInvStep, PTL DEF Spec

\* Every reachable state of the tracker is well typed.
THEOREM TypeCorrect == Spec => []TypeOK
<1>1. IInv => TypeOK
  BY DEF IInv
<1>. QED
  BY <1>1, InitIInv, IInvStep, PTL DEF Spec

-----------------------------------------------------------------------------
(* A parent with a single Job.                                             *)

\* The parent's list holds, and the list a run is about to patch holds,
\* only entries of the parent's own Jobs.
EntriesLabelled == UidsLabelled(depList) /\ \A j \in Jobs : UidsLabelled(hnew[j])

\* A stray Job's run never gets past the stray check.
StrayIdle == \A j \in Stray : hpc[j] = "idle"

\* Every step keeps the lists free of other Jobs and the stray Jobs' runs
\* idle, whatever the number of Jobs.
LEMMA LabelledStep ==
    IInv /\ EntriesLabelled /\ StrayIdle /\ [Next]_vars
        => EntriesLabelled' /\ StrayIdle'
<1> SUFFICES ASSUME TypeOK, EntriesLabelled, StrayIdle, [Next]_vars
             PROVE  EntriesLabelled' /\ StrayIdle'
  BY DEF IInv
<1>0. ASSUME UNCHANGED <<hpc, hnew, depList>> PROVE EntriesLabelled' /\ StrayIdle'
  BY <1>0 DEF EntriesLabelled, StrayIdle, UidsLabelled
<1>1. ASSUME NEW j \in Jobs, HandleEvent(j) PROVE EntriesLabelled' /\ StrayIdle'
  <2>1. j \in Labelled /\ j \notin Stray /\ jstatus[j] \in JobStatuses
        /\ depList \in Seq(Entries) /\ UidsLabelled(depList)
    BY <1>1 DEF HandleEvent, Labelled, TypeOK, EntriesLabelled
  <2>2. UidsLabelled(BuildDependantJobs(depList, j, evt[j], jstatus[j]))
    BY <2>1, BuildLabelled
  <2>3. UNCHANGED depList
    BY <1>1 DEF HandleEvent
  <2>4. CASE /\ hnew' = [hnew EXCEPT ![j] =
                          BuildDependantJobs(depList, j, evt[j], jstatus[j])]
             /\ hpc' = [hpc EXCEPT ![j] = "patch"]
    BY <2>1, <2>2, <2>3, <2>4 DEF EntriesLabelled, StrayIdle, TypeOK
  <2>5. CASE /\ hnew' = hnew
             /\ hpc' = [hpc EXCEPT ![j] = IF evt[j] # "delete" THEN "deleteOrphan"
                                                             ELSE "idle"]
    BY <2>1, <2>3, <2>5 DEF EntriesLabelled, StrayIdle, TypeOK
  <2>. QED
    BY <1>1, <2>4, <2>5 DEF HandleEvent
<1>2. ASSUME NEW j \in Jobs, PatchParent(j) PROVE EntriesLabelled' /\ StrayIdle'
  BY <1>2 DEF PatchParent, EntriesLabelled, StrayIdle, TypeOK
<1>3. ASSUME NEW j \in Jobs, DeleteOrphan(j) PROVE EntriesLabelled' /\ StrayIdle'
  <2>1. hpc' = [hpc EXCEPT ![j] = "idle"] /\ UNCHANGED <<hnew, depList>>
    BY <1>3 DEF DeleteOrphan, Retry
  <2>. QED
    BY <2>1 DEF EntriesLabelled, StrayIdle, TypeOK
<1>. QED
  BY <1>0, <1>1, <1>2, <1>3
     DEF Next, OperatorStep, CreateJob, JobProgress, DeleteJob, StrayDelete,
         DeleteDependant, DeleteParent, ListDependants, DeleteAllDone, vars

\* The parent has at most one Job: only one handler ever writes its list.
SingleJob == \A a, b \in Labelled : a = b

\* What status.dependantJobs should say of Job j: its entry while it lives.
Expected(j) == IF jphase[j] = "live" THEN {DependantEntry(j, jstatus[j])} ELSE {}

\* While the parent lives, Job j's pending event matches its phase, its
\* run never deletes it as an orphan, and once its last event has been
\* read, the list it is about to patch, or else the parent's list, holds
\* exactly its expected entry.
TracksJob(j) ==
    /\ jphase[j] = "absent" => evt[j] = "none" /\ hpc[j] = "idle"
    /\ evt[j] # "none" => /\ jphase[j] # "absent"
                          /\ (evt[j] = "delete" <=> jphase[j] = "gone")
    /\ hpc[j] # "deleteOrphan"
    /\ evt[j] = "none" /\ hpc[j] = "idle" => ListedSet(depList) = Expected(j)
    /\ evt[j] = "none" /\ hpc[j] = "patch" => ListedSet(hnew[j]) = Expected(j)

Tracked == parent = "live" => dd = "idle" /\ \A j \in Labelled : TracksJob(j)

\* A step of Job k's handlers or of the Job controller for k leaves every
\* other Job's part of the state alone.
LEMMA OtherJobStep ==
    ASSUME TypeOK, NEW j \in Jobs, NEW k \in Jobs, k # j,
           CreateJob(k) \/ JobProgress(k) \/ DeleteJob(k) \/ StrayDelete(k)
    PROVE  TracksJob(j)' = TracksJob(j)
<1>1. /\ jphase'[j] = jphase[j] /\ jstatus'[j] = jstatus[j] /\ evt'[j] = evt[j]
      /\ hpc'[j] = hpc[j] /\ hnew'[j] = hnew[j] /\ depList' = depList
  BY DEF CreateJob, JobProgress, DeleteJob, StrayDelete, Touch, TypeOK
<1>. QED
  BY <1>1 DEF TracksJob, Expected, ListedSet

\* With one Job, every step keeps the parent's list in step with the Job.
LEMMA TrackedStep ==
    ASSUME SingleJob, IInv, EntriesLabelled, StrayIdle, Tracked, [Next]_vars
    PROVE  Tracked'
<1> SUFFICES ASSUME parent' = "live"
             PROVE  dd' = "idle" /\ \A j \in Labelled : TracksJob(j)'
  BY DEF Tracked
<1>1. parent = "live"
  BY DEF Next, OperatorStep, CreateJob, JobProgress, DeleteJob, HandleEvent,
         PatchParent, DeleteOrphan, StrayDelete, DeleteDependant, DeleteParent,
         ListDependants, DeleteAllDone, vars
<1>2. dd = "idle" /\ \A j \in Labelled : TracksJob(j)
  BY <1>1 DEF Tracked
<1>3. dd' = "idle"
  BY <1>1, <1>2 DEF Next, OperatorStep, CreateJob, JobProgress, DeleteJob,
         HandleEvent, PatchParent, DeleteOrphan, StrayDelete, DeleteDependant,
         DeleteParent, ListDependants, DeleteAllDone, vars
<1> SUFFICES ASSUME NEW j \in Labelled PROVE TracksJob(j)'
  BY <1>3
<1>4. TracksJob(j) /\ TypeOK /\ j \in Jobs /\ j \notin Stray
  BY <1>2 DEF IInv, Labelled
<1>5. \A k \in Jobs : k # j => k \in Stray
  BY DEF SingleJob, Labelled
<1>6. ASSUME NEW k \in Jobs, k # j,
             CreateJob(k) \/ JobProgress(k) \/ DeleteJob(k) \/ StrayDelete(k)
      PROVE  TracksJob(j)'
  BY <1>4, <1>6, OtherJobStep
<1>7. ASSUME NEW k \in Jobs, k # j,
             HandleEvent(k) \/ PatchParent(k) \/ DeleteOrphan(k)
      PROVE  FALSE
  <2>1. k \in Stray /\ hpc[k] = "idle"
    BY <1>5, <1>7 DEF StrayIdle
  <2>. QED
    BY <1>7, <2>1 DEF HandleEvent, PatchParent, DeleteOrphan, Labelled
<1>8. ASSUME NEW k \in Jobs, DeleteDependant(k) PROVE FALSE
  BY <1>2, <1>8 DEF DeleteDependant
<1>9. ASSUME CreateJob(j) PROVE TracksJob(j)'
  <2>1. /\ jphase' = [jphase EXCEPT ![j] = "live"]
        /\ evt' = [evt EXCEPT ![j] = "create"]
        /\ UNCHANGED hpc
    BY <1>9 DEF CreateJob
  <2>. QED
    BY <1>4, <2>1 DEF TracksJob, TypeOK
<1>10. ASSUME JobProgress(j) PROVE TracksJob(j)'
  <2>1. jphase[j] = "live" /\ evt[j] # "delete"
    BY <1>4, <1>10 DEF JobProgress, TracksJob
  <2>2. /\ evt' = [evt EXCEPT ![j] = IF @ = "none" THEN "update" ELSE @]
        /\ UNCHANGED <<jphase, hpc>>
    BY <1>10 DEF JobProgress, Touch
  <2>3. evt'[j] # "none" /\ evt'[j] # "delete"
    BY <2>1, <2>2, <1>4 DEF TypeOK
  <2>. QED
    BY <1>4, <2>1, <2>2, <2>3 DEF TracksJob, TypeOK
<1>11. ASSUME DeleteJob(j) PROVE TracksJob(j)'
  <2>1. /\ jphase' = [jphase EXCEPT ![j] = "gone"]
        /\ evt' = [evt EXCEPT ![j] = "delete"]
        /\ UNCHANGED hpc
    BY <1>11 DEF DeleteJob
  <2>. QED
    BY <1>4, <2>1 DEF TracksJob, TypeOK
<1>12. ASSUME HandleEvent(j) PROVE TracksJob(j)'
  <2> DEFINE r == evt[j]
             b == BuildDependantJobs(depList, j, r, jstatus[j])
  <2>1. /\ hpc[j] = "idle" /\ r # "none"
        /\ evt' = [evt EXCEPT ![j] = "none"]
        /\ hnew' = [hnew EXCEPT ![j] = b]
        /\ hpc' = [hpc EXCEPT ![j] = "patch"]
        /\ UNCHANGED <<jphase, jstatus>>
    BY <1>1, <1>12 DEF HandleEvent, ParentFound
  <2>2. jphase[j] # "absent" /\ (r = "delete" <=> jphase[j] = "gone")
    BY <1>4, <2>1 DEF TracksJob
  <2>3. /\ depList \in Seq(Entries) /\ UniqueUids(depList)
        /\ \A i \in DOMAIN depList : depList[i].uid = j
        /\ jstatus[j] \in JobStatuses
    BY <1>4 DEF IInv, UniqueEntries, UniqueUids, EntriesLabelled, UidsLabelled,
                SingleJob, TypeOK
  <2>4. ListedSet(b) = Expected(j)
    <3>1. CASE r = "delete"
      BY <2>2, <2>3, <3>1, DeleteSingle DEF BuildDependantJobs, Expected
    <3>2. CASE r # "delete"
      <4>1. jphase[j] = "live"
        BY <1>4, <2>2, <3>2 DEF TypeOK
      <4>2. ListedSet(UpdateStatusList(depList, j, jstatus[j]))
              = {DependantEntry(j, jstatus[j])}
        <5>1. /\ depList \in Seq(Entries) /\ UniqueUids(depList)
              /\ j \in Jobs /\ jstatus[j] \in JobStatuses
              /\ \A i \in DOMAIN depList : depList[i].uid = j
          BY <1>4, <2>3
        <5>. QED
          BY <5>1, UpdateSingle
      <4>. QED
        BY <3>2, <4>1, <4>2 DEF BuildDependantJobs, Expected
    <3>. QED
      BY <3>1, <3>2
  <2>. QED
    BY <1>4, <2>1, <2>2, <2>4 DEF TracksJob, Expected, TypeOK
<1>13. ASSUME PatchParent(j) PROVE TracksJob(j)'
  <2>1. /\ hpc[j] = "patch" /\ depList' = hnew[j]
        /\ hpc' = [hpc EXCEPT ![j] = "idle"]
        /\ UNCHANGED <<jphase, jstatus, evt, hnew>>
    BY <1>1, <1>13 DEF PatchParent
  <2>. QED
    BY <1>4, <2>1 DEF TracksJob, Expected, TypeOK
<1>14. ASSUME DeleteOrphan(j) \/ StrayDelete(j) PROVE FALSE
  BY <1>4, <1>14 DEF DeleteOrphan, StrayDelete, TracksJob, IsStrayEvent
<1>15. CASE DeleteParent \/ ListDependants \/ DeleteAllDone
  BY <1>1, <1>2, <1>15 DEF DeleteParent, ListDependants, DeleteAllDone
<1>16. CASE UNCHANGED vars
  BY <1>4, <1>16 DEF vars, TracksJob, Expected, ListedSet
<1>. QED
  BY <1>6, <1>7, <1>8, <1>9, <1>10, <1>11, <1>12, <1>13, <1>14, <1>15, <1>16
     DEF Next, OperatorStep

\* The inductive invariant for a parent with one Job.
SInv == IInv /\ EntriesLabelled /\ StrayIdle /\ Tracked

LEMMA InitSInv == Init => SInv
<1> SUFFICES ASSUME Init PROVE SInv
  OBVIOUS
<1>1. EntriesLabelled /\ StrayIdle
  BY TrackerAssumption DEF Init, EntriesLabelled, UidsLabelled, StrayIdle
<1>2. Tracked
  BY TrackerAssumption DEF Init, Tracked, TracksJob, ListedSet, Expected, Labelled
<1>. QED
  BY <1>1, <1>2, InitIInv DEF SInv

\* Once the parent's only Job has no event waiting and no run in progress,
\* the list holds exactly what the invariant expects of it.
LEMMA SInvAccurate == SingleJob /\ SInv => StatusAccurate
<1> SUFFICES ASSUME SingleJob, SInv, parent = "live", Quiescent
             PROVE  {depList[i] : i \in DOMAIN depList} =
                      {DependantEntry(j, jstatus[j]) :
                         j \in {k \in Labelled : jphase[k] = "live"}}
  BY DEF StatusAccurate
<1>1. UidsLabelled(depList)
  BY DEF SInv, EntriesLabelled
<1>2. CASE Labelled = {}
  BY <1>1, <1>2 DEF UidsLabelled
<1>3. CASE Labelled # {}
  <2>1. PICK j \in Labelled : Labelled = {j}
    BY <1>3 DEF SingleJob
  <2>2. TracksJob(j) /\ evt[j] = "none" /\ hpc[j] = "idle"
    BY <2>1 DEF SInv, Tracked, Quiescent
  <2>3. ListedSet(depList) = Expected(j)
    BY <2>2 DEF TracksJob
  <2>. QED
    BY <2>1, <2>3 DEF ListedSet, Expected
<1>. QED
  BY <1>2, <1>3

(* For a parent with a single Job, status.dependantJobs is accurate        *)
(* (StatusAccurate) whenever that Job's events have all been handled: it   *)
(* holds the entry derive_job_status gives the Job's latest status while   *)
(* the Job lives, and nothing once it is deleted, for every set of stray   *)
(* Jobs, either scope of the parent and every bound on failed pods.  A run *)
(* of track_job_status patches a list computed from the parent it read,    *)
(* and the Job's next event recomputes it from the Job's latest body.      *)
(* With two Jobs the property fails: two handlers' read-modify-writes of   *)
(* the parent lose an update (run tracker_lost_update).                    *)
THEOREM StatusAccurateSingleJob ==
    ASSUME SingleJob PROVE Spec => []StatusAccurate
<1>1. SInv /\ [Next]_vars => SInv'
  BY IInvStep, LabelledStep, TrackedStep DEF SInv
<1>2. SInv => StatusAccurate
  BY SInvAccurate
<1>. QED
  BY <1>1, <1>2, InitSInv, PTL DEF Spec

=============================================================================
