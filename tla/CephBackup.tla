----------------------------- MODULE CephBackup -----------------------------
(***************************************************************************)
(* The Ceph RBD backup and restore helpers of scripts/ceph.py, with the   *)
(* benji command they run.                                                 *)
(*                                                                         *)
(* One RBD image is backed up by successive calls of backup(): it lists   *)
(* the image's benji snapshots (names "b-<UTC time>", in creation order),  *)
(* deletes all but the newest, and either backs up differentially from    *)
(* the newest snapshot (when benji holds a valid version of it) or makes  *)
(* an initial backup.  Each call creates a new snapshot named after the   *)
(* current second.  The virtual machine keeps writing to the image.       *)
(*                                                                         *)
(* Every external command (rbd snap ls/create/rm, rbd diff, benji ls,     *)
(* benji backup, benji restore) may fail.  The signal receivers' votes on *)
(* re-raising an error are fixed for a run (raiseOnError): when no        *)
(* receiver is connected reduce() on the empty result raises, which is    *)
(* the same as a vote to raise.                                            *)
(*                                                                         *)
(* Image contents are functions from blocks to values; a snapshot keeps   *)
(* the contents of its moment; a version records the contents benji       *)
(* assembled and, as a ghost field, the contents of the snapshot it was   *)
(* made from.  benji backup (not part of this repository) is modelled     *)
(* from spec.md section 4.4: hinted blocks are read from the snapshot,    *)
(* the others copied from the base version or, for an initial backup,    *)
(* left sparse.                                                            *)
(***************************************************************************)
EXTENDS Naturals, Sequences

CONSTANTS
    Blocks,      \* block indices of the image
    Vals,        \* block contents
    Zero,        \* the contents of an unwritten (sparse) block
    MaxCalls,    \* bound on the number of backup() and restore() calls
    MaxClock     \* bound on the wall clock, in seconds

ASSUME CephAssumption ==
    /\ Zero \in Vals
    /\ MaxCalls \in Nat
    /\ MaxClock \in Nat

Contents == [Blocks -> Vals]

\* Control points of the script; "idle" is between calls.
Pcs == {"idle", "snapLs", "rmOlder", "benjiLs", "rmLast",
        "initCreate", "initDiff", "initBackup",
        "diffCreate", "diffDiff", "diffRmLast", "diffBackup"}

VARIABLES
    image,        \* current contents of the RBD image
    clock,        \* datetime.utcnow(), in seconds
    snaps,        \* the image's benji snapshots in creation order
    versions,     \* benji's versions of the volume
    raiseOnError, \* aggregate vote of the post_error signal receivers
    pc,           \* control point of the running call
    listed,       \* benjis_snapshots still to be handled by the rm loop
    last,         \* last_snapshot
    snapshot,     \* name of the snapshot created by this call
    hints,        \* blocks listed by rbd diff (the --rbd-hints file)
    base,         \* base version of a differential backup
    sent,         \* signals sent by the running or the last call
    outcome,      \* how the last call ended
    calls         \* number of calls made

vars == <<image, clock, snaps, versions, raiseOnError, pc, listed, last,
          snapshot, hints, base, sent, outcome, calls>>

NoVersion == [snap |-> 0, data |-> [b \in Blocks |-> Zero],
              source |-> [b \in Blocks |-> Zero], status |-> "none"]

Names == 0..MaxClock
SnapNames == {snaps[i].name : i \in DOMAIN snaps}
SnapData(n) == snaps[CHOOSE i \in DOMAIN snaps : snaps[i].name = n].data
\* The snapshots without the one named n (rbd snap rm succeeds only on a
\* snapshot that exists; names are unique).
WithoutSnap(n) ==
    LET i == CHOOSE k \in DOMAIN snaps : snaps[k].name = n
    IN  [j \in 1..(Len(snaps) - 1) |-> IF j < i THEN snaps[j] ELSE snaps[j + 1]]
Newest(s) == s[Len(s)]
NameSeq(s) == [i \in 1..Len(s) |-> s[i].name]

\* Blocks rbd diff --whole-object may list: at least every block that
\* differs between the two images (it may list more).
HintSets(from, to) == {h \in SUBSET Blocks :
                         \A b \in Blocks : from[b] # to[b] => b \in h}

\* Contents benji backup assembles: hinted blocks read from the snapshot,
\* the others taken from the base version.
Assemble(h, snapData, baseData) ==
    [b \in Blocks |-> IF b \in h THEN snapData[b] ELSE baseData[b]]

SparseImage == [b \in Blocks |-> Zero]

\* The end of a call through the except branch of backup() or restore().
RaiseFrom(signal) ==
    /\ sent' = sent \cup {signal}
    /\ outcome' = IF raiseOnError THEN "raised" ELSE "swallowed"
    /\ pc' = "idle"

-----------------------------------------------------------------------------
(* Plausible bugs, used as mutants.                                        *)

\* The benji ls query without the snapshot condition: any valid version.
BenjiLsAnyValid ==
    /\ pc = "benjiLs"
    /\ \/ \E v \in versions :
            /\ v.status = "valid"
            /\ base' = v
            /\ pc' = "diffCreate"
            /\ UNCHANGED <<sent, outcome>>
       \/ /\ ~\E v \in versions : v.status = "valid"
          /\ pc' = "rmLast"
          /\ UNCHANGED <<base, sent, outcome>>
       \/ RaiseFrom("backup_post_error") /\ UNCHANGED base
    /\ UNCHANGED <<image, clock, snaps, versions, raiseOnError, listed, last,
                   snapshot, hints, calls>>

\* The delete loop over benjis_snapshots[1:-1]: the oldest is never deleted.
RmOlderSkipOldest ==
    /\ pc = "rmOlder"
    /\ \/ /\ Len(listed) > 1
          /\ \/ /\ Head(listed) \in SnapNames
                /\ snaps' = IF Len(listed) = Len(snaps)
                              THEN snaps ELSE WithoutSnap(Head(listed))
                /\ listed' = Tail(listed)
                /\ UNCHANGED <<pc, last, sent, outcome>>
             \/ RaiseFrom("backup_post_error") /\ UNCHANGED <<snaps, listed, last>>
       \/ /\ Len(listed) = 1
          /\ last' = Newest(listed)
          /\ pc' = "benjiLs"
          /\ UNCHANGED <<snaps, listed, sent, outcome>>
    /\ UNCHANGED <<image, clock, versions, raiseOnError, snapshot, hints,
                   base, calls>>

-----------------------------------------------------------------------------

Init ==
    /\ image = SparseImage
    /\ clock = 0
    /\ snaps = <<>>
    /\ versions = {}
    /\ raiseOnError \in BOOLEAN
    /\ pc = "idle"
    /\ listed = <<>>
    /\ last = 0
    /\ snapshot = 0
    /\ hints = {}
    /\ base = NoVersion
    /\ sent = {}
    /\ outcome = "none"
    /\ calls = 0

Locals == <<listed, last, snapshot, hints, base>>

\* The virtual machine writes a block.
WriteBlock(b, v) ==
    /\ image' = [image EXCEPT ![b] = v]
    /\ UNCHANGED <<clock, snaps, versions, raiseOnError, pc, Locals, sent,
                   outcome, calls>>

\* A second passes.
Tick ==
    /\ clock < MaxClock
    /\ clock' = clock + 1
    /\ UNCHANGED <<image, snaps, versions, raiseOnError, pc, Locals, sent,
                   outcome, calls>>

\* backup(): send backup_pre.
BackupStart ==
    /\ pc = "idle"
    /\ calls < MaxCalls
    /\ calls' = calls + 1
    /\ sent' = {"backup_pre"}
    /\ outcome' = "none"
    /\ pc' = "snapLs"
    /\ UNCHANGED <<image, clock, snaps, versions, raiseOnError, Locals>>

\* rbd snap ls, keeping the names with benji's prefix.
SnapLs ==
    /\ pc = "snapLs"
    /\ \/ /\ snaps = <<>>
          /\ pc' = "initCreate"
          /\ UNCHANGED <<listed, sent, outcome>>
       \/ /\ snaps # <<>>
          /\ listed' = NameSeq(snaps)
          /\ pc' = "rmOlder"
          /\ UNCHANGED <<sent, outcome>>
       \/ RaiseFrom("backup_post_error") /\ UNCHANGED listed
    /\ UNCHANGED <<image, clock, snaps, versions, raiseOnError, last,
                   snapshot, hints, base, calls>>

\* for snapshot in benjis_snapshots[:-1]: rbd snap rm; then pick the newest.
RmOlder ==
    /\ pc = "rmOlder"
    /\ \/ /\ Len(listed) > 1
          /\ \/ /\ Head(listed) \in SnapNames
                /\ snaps' = WithoutSnap(Head(listed))
                /\ listed' = Tail(listed)
                /\ UNCHANGED <<pc, last, sent, outcome>>
             \/ RaiseFrom("backup_post_error") /\ UNCHANGED <<snaps, listed, last>>
       \/ /\ Len(listed) = 1
          /\ last' = Newest(listed)
          /\ pc' = "benjiLs"
          /\ UNCHANGED <<snaps, listed, sent, outcome>>
    /\ UNCHANGED <<image, clock, versions, raiseOnError, snapshot, hints,
                   base, calls>>

\* benji ls 'volume == ... and snapshot == last and status == "valid"'.
BenjiLs ==
    /\ pc = "benjiLs"
    /\ \/ \E v \in versions :
            /\ v.snap = last /\ v.status = "valid"
            /\ base' = v
            /\ pc' = "diffCreate"
            /\ UNCHANGED <<sent, outcome>>
       \/ /\ ~\E v \in versions : v.snap = last /\ v.status = "valid"
          /\ pc' = "rmLast"
          /\ UNCHANGED <<base, sent, outcome>>
       \/ RaiseFrom("backup_post_error") /\ UNCHANGED base
    /\ UNCHANGED <<image, clock, snaps, versions, raiseOnError, listed, last,
                   snapshot, hints, calls>>

\* The newest snapshot is unknown to benji: delete it, back up in full.
RmLast ==
    /\ pc = "rmLast"
    /\ \/ /\ last \in SnapNames
          /\ snaps' = WithoutSnap(last)
          /\ pc' = "initCreate"
          /\ UNCHANGED <<sent, outcome>>
       \/ RaiseFrom("backup_post_error") /\ UNCHANGED snaps
    /\ UNCHANGED <<image, clock, versions, raiseOnError, Locals, calls>>

(* snapshot_create with the name of the current second: rbd snap create   *)
(* fails if the name is taken, or may fail (its 30 s timeout included,    *)
(* after which the snapshot may exist all the same).  An error the        *)
(* receivers do not re-raise lets the caller go on.                       *)
SnapshotCreate(from, to) ==
    /\ pc = from
    /\ snapshot' = clock
    /\ \/ /\ clock \notin SnapNames
          /\ snaps' = Append(snaps, [name |-> clock, data |-> image])
          /\ sent' = sent \cup {"snapshot_create_pre",
                                "snapshot_create_post_success"}
          /\ pc' = to
          /\ UNCHANGED outcome
       \/ /\ \/ UNCHANGED snaps
             \/ clock \notin SnapNames
                /\ snaps' = Append(snaps, [name |-> clock, data |-> image])
          /\ \/ /\ raiseOnError
                /\ sent' = sent \cup {"snapshot_create_pre",
                                      "snapshot_create_post_error",
                                      "backup_post_error"}
                /\ outcome' = "raised"
                /\ pc' = "idle"
             \/ /\ ~raiseOnError
                /\ sent' = sent \cup {"snapshot_create_pre",
                                      "snapshot_create_post_error"}
                /\ pc' = to
                /\ UNCHANGED outcome
    /\ UNCHANGED <<image, clock, versions, raiseOnError, listed, last, hints,
                   base, calls>>

\* rbd diff --whole-object of the new snapshot (initial backup).
InitDiff ==
    /\ pc = "initDiff"
    /\ \/ /\ snapshot \in SnapNames
          /\ \E h \in HintSets(SparseImage, SnapData(snapshot)) : hints' = h
          /\ pc' = "initBackup"
          /\ UNCHANGED <<sent, outcome>>
       \/ RaiseFrom("backup_post_error") /\ UNCHANGED hints
    /\ UNCHANGED <<image, clock, snaps, versions, raiseOnError, listed, last,
                   snapshot, base, calls>>

\* rbd diff --whole-object --from-snap last, then rbd snap rm last.
DiffDiff ==
    /\ pc = "diffDiff"
    /\ \/ /\ {last, snapshot} \subseteq SnapNames
          /\ \E h \in HintSets(SnapData(last), SnapData(snapshot)) : hints' = h
          /\ pc' = "diffRmLast"
          /\ UNCHANGED <<sent, outcome>>
       \/ RaiseFrom("backup_post_error") /\ UNCHANGED hints
    /\ UNCHANGED <<image, clock, snaps, versions, raiseOnError, listed, last,
                   snapshot, base, calls>>

DiffRmLast ==
    /\ pc = "diffRmLast"
    /\ \/ /\ last \in SnapNames
          /\ snaps' = WithoutSnap(last)
          /\ pc' = "diffBackup"
          /\ UNCHANGED <<sent, outcome>>
       \/ RaiseFrom("backup_post_error") /\ UNCHANGED snaps
    /\ UNCHANGED <<image, clock, versions, raiseOnError, Locals, calls>>

(* benji backup --snapshot snapshot --rbd-hints hints [--base-version]:    *)
(* a valid version on success; on failure possibly an invalid one, whose  *)
(* unwritten blocks are abstracted as one sparse image.  On               *)
(* success backup() returns from inside its try block, so its else branch *)
(* (backup_post_success) does not run.                                     *)
BenjiBackup(from, baseData) ==
    /\ pc = from
    /\ \/ /\ snapshot \in SnapNames
          /\ versions' = versions \cup
               {[snap |-> snapshot,
                 data |-> Assemble(hints, SnapData(snapshot), baseData),
                 source |-> SnapData(snapshot), status |-> "valid"]}
          /\ outcome' = "returned"
          /\ pc' = "idle"
          /\ UNCHANGED sent
       \/ /\ \/ UNCHANGED versions
             \/ versions' = versions \cup
                  {[snap |-> snapshot, data |-> SparseImage,
                    source |-> IF snapshot \in SnapNames
                                 THEN SnapData(snapshot) ELSE SparseImage,
                    status |-> "invalid"]}
          /\ RaiseFrom("backup_post_error")
    /\ UNCHANGED <<image, clock, snaps, raiseOnError, Locals, calls>>

\* restore(): benji restore --sparse --force version pool/image.  The first
\* signal it sends is snapshot_create_pre.
Restore(v) ==
    /\ pc = "idle"
    /\ calls < MaxCalls
    /\ v \in versions /\ v.status = "valid"
    /\ calls' = calls + 1
    /\ \/ /\ image' = v.data
          /\ sent' = {"snapshot_create_pre", "restore_post_success"}
          /\ outcome' = "returned"
          /\ pc' = "idle"
       \/ /\ UNCHANGED image
          /\ sent' = {"snapshot_create_pre", "restore_post_error"}
          /\ outcome' = IF raiseOnError THEN "raised" ELSE "swallowed"
          /\ pc' = "idle"
    /\ UNCHANGED <<clock, snaps, versions, raiseOnError, Locals>>

Next ==
    \/ \E b \in Blocks, v \in Vals : WriteBlock(b, v)
    \/ Tick \/ BackupStart \/ SnapLs \/ RmOlder \/ BenjiLs \/ RmLast
    \/ SnapshotCreate("initCreate", "initDiff")
    \/ SnapshotCreate("diffCreate", "diffDiff")
    \/ InitDiff \/ DiffDiff \/ DiffRmLast
    \/ BenjiBackup("initBackup", SparseImage)
    \/ BenjiBackup("diffBackup", base.data)
    \/ \E v \in versions : Restore(v)

Spec == Init /\ [][Next]_vars

-----------------------------------------------------------------------------
(* Properties.                                                             *)

\* Every variable has a value of its intended kind.
TypeOK ==
    /\ image \in Contents
    /\ clock \in Names
    /\ snaps \in Seq([name : Names, data : Contents])
    /\ raiseOnError \in BOOLEAN
    /\ pc \in Pcs
    /\ listed \in Seq(Names)
    /\ last \in Names /\ snapshot \in Names
    /\ hints \in SUBSET Blocks
    /\ sent \subseteq {"backup_pre", "backup_post_error", "snapshot_create_pre",
                       "snapshot_create_post_success",
                       "snapshot_create_post_error",
                       "restore_post_success", "restore_post_error"}
    /\ outcome \in {"none", "returned", "raised", "swallowed"}
    /\ calls \in 0..MaxCalls

(* Every version benji holds as valid has exactly the contents of the RBD  *)
(* snapshot it names: a differential backup is only ever based on a valid  *)
(* version of the very snapshot the rbd diff starts from, across deleted,  *)
(* failed and repeated calls.                                              *)
VersionsFaithful ==
    \A v \in versions : v.status = "valid" => v.data = v.source

(* With post_error receivers that vote to re-raise, or with none connected *)
(* (reduce() over no votes raises, the default), every valid version holds *)
(* exactly the contents of its snapshot.  Receivers that swallow the error *)
(* of snapshot_create let backup_differential() go on with a name already *)
(* taken, delete the base snapshot and free its name for reuse within the  *)
(* same second (VersionsFaithful fails then).                               *)
VersionsFaithfulWhenRaising ==
    raiseOnError => VersionsFaithful

(* The image never carries more than two of benji's snapshots: the delete *)
(* loop and the removal of last_snapshot keep snapshots from piling up,   *)
(* whichever command fails.                                                *)
SnapshotsBounded ==
    Len(snaps) <= 2

=============================================================================
