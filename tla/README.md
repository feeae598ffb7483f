# TLA+ verification of benji (block-level deduplicating backup)

The repository holds four source files. `spec.md` describes a larger engine:
transform pipeline, storage backends, concurrent block I/O and deduplication.
The code present is the concurrent read path of the I/O layer, the Ceph RBD
backup/restore helper script, the Kubernetes operator's resource helpers and
one storage test configuration. This directory models what is there and marks
what is not.

## 1. Inventory

### Components

| Component | Source | State | Operations |
|---|---|---|---|
| IO read engine | `src/benji/io/base.py` (`IOBase`) | `_read_executor` (a ThreadPoolExecutor with `simultaneousReads` workers), `_read_futures` (list of Futures), `_read_semaphore` (BoundedSemaphore of `simultaneousReads + READ_QUEUE_LENGTH`) | `open_r`, `read(block, sync)`, `read_get_completed(timeout)`, `close`; `open_w`, `write`, `size` are abstract |
| Result drain helper | `benji.utils.future_results_as_completed` (not in the sources given) | none | iterates `as_completed`, removes each future from the list, releases a permit for each future that was not cancelled, yields the result or the exception |
| Ceph backup script | `scripts/ceph.py` | none in-process. Outside state: the RBD image's snapshots `b-<UTC second>`, benji's versions, the signal receivers | `snapshot_create`, `backup_initial`, `backup_differential`, `backup`, `restore` |
| Operator job tracking | `src/benji/k8s_operator/resources.py` | outside state: each parent resource's `status.dependantJobs` list, the Jobs | `track_job_status`, `update_status_list`, `delete_from_status_list`, `derive_job_status`, `build_*`, `delete_all_dependant_jobs` |
| Operator resource construction | same file | none | `JobResource`, `create_pvc`, `create_object_ref`, `get_parent`, `patch_parent` |
| Storage test config | `src/benji/tests/storage/test_b2.py` | none | none |
| Transform pipeline, backends, dedup assembler, catalog | only in `spec.md` | | |

### How the components interact

- **IO engine.** There is one caller thread: benji's backup or restore loop,
  which is outside the sources. It calls `read` and then iterates the
  generator of `read_get_completed`. The worker threads run
  `read_with_acquire`. The two sides share three things: the future list, the
  executor's FIFO work queue and the semaphore. The permit is *acquired by
  the worker* (line 49) and *released by the caller* when it retrieves the
  result.
- **`ceph.py`.** It drives benji through subprocesses (`rbd snap
  ls/create/rm`, `rbd diff`, `benji ls/backup/restore`). It reports to
  observers through blinker signals. On an error, the receivers vote on
  whether the error is re-raised.
- **Operator.** Its handlers react to Job events. Each one reads the parent
  custom resource and patches its dependant-job list back.

### What is hard

- The read engine's permit crosses threads. Cancellation races a worker
  taking the future. A drain can time out or be abandoned. `close()` must
  cancel, then drain, then shut down, in that order: the comment at line 74
  says why.
- In `ceph.py`, every command can fail between the others. The base
  snapshot is removed before the backup that relies on it. Snapshot names
  have a resolution of one second. The create timeout can fire after the
  snapshot was made. Signal receivers can swallow errors.
- The operator uses read-modify-write of a parent status. Handlers for
  different jobs of one parent can run at the same time.

### What makes each component correct

- **IO engine.**
  - No permit is gained or lost.
  - Every submitted read's outcome is collected before `close()` returns.
  - `close()` returns.
  - Memory is bounded by the permits.
- **`ceph.py`.**
  - A valid version has exactly its snapshot's contents. This is the
    differential-backup correctness of spec.md §8.
  - Snapshots don't pile up.
  - Observers hear about every start and every outcome.
- **Operator.**
  - Every job of a parent appears exactly once in its list, with its latest
    status.
  - Stray and orphaned jobs are deleted.

The full hazard list, each at its line, is in `PROJECT.json` under "hazards".

## 2. Plan

Ordered by importance:

1. **`IOReadEngine`** (done) covers the read path of `IOBase`, including the
   worker threads and the result drain. **`IOReadEngine_proofs`** (done)
   proves type correctness and permit conservation.
2. **`CephBackup`** (done) covers `backup`/`restore` over one image, with
   failures at every command and concurrent writes by the VM.
3. **`JobStatusTracker`** (done) covers `track_job_status` with concurrent
   handlers for several Jobs of one parent, orphan and stray deletion, and
   `delete_all_dependant_jobs`.
4. **IO engine extensions.**
   - `DrainReturns` (done): a loop over the generator ends.
   - `IOReadEngineAbstract` (done): the engine's promise. `IOReadEngine`
     refines it; TLC checks the refinement and TLAPS proves it.
   - Left: a re-open run (`open_r` on an open engine, line 35). Reads
     submitted during a drain (line 56) are outside the spec's contract.
   - `CloseDrainsAll` (done): proved from `RInv`, whose `ClosedEmpty` is
     the invariant it needs.
5. **`CephBackup` extensions.**
   - Two concurrent `backup()` calls on one image, as two operator Jobs.
   - `restore --sparse --force` onto a non-zero image.
   - Proofs (done): `VersionsFaithful` turned out false with four calls
     when receivers swallow errors (finding `ceph.py:109`). The proof
     covers `VersionsFaithfulWhenRaising` and `SnapshotsBounded`.
   - **`JobStatusTracker_proofs`** (done): type correctness, and
     `StatusAccurate` for a parent with a single Job.
6. **`DedupAssembler`** (spec-modelled; its code is not in the sources):
   the per-block dedup decision and first-writer-wins claim of spec.md §5.

## 3. Modules and their correspondence to the code

### `IOReadEngine` (src/benji/io/base.py)

Constants: `SimultaneousReads` is `simultaneousReads`, `ReadQueueLength` is
`READ_QUEUE_LENGTH` and `MaxReads` bounds the number of `read()` calls.
Futures are numbered in submission order.

Variables:
- `pc` is the caller thread's position.
- `executor` stands for `_read_executor`: `none`, `live` or `shutdown`.
- `fstate[f]` is the state of each future: `idle`, `queued`, `waiting` (a
  worker is blocked in `acquire`), `running`, `done`, `cancelled` or
  `drained`.
- `permits` is the semaphore counter.
- `pending` holds the futures the caller's current loop still has to visit:
  the `as_completed` snapshot, or the futures `close()` still has to cancel.

Actions:
- **Caller:**
  - `OpenR`;
  - `Read` (never blocks);
  - `ReadGetCompleted` (the generator's first step takes the snapshot);
  - `YieldCompleted` (removes the future and releases its permit unless it
    was cancelled);
  - `DrainExhausted` and `DrainAbandoned` (a timeout, or the caller leaving
    the loop);
  - `Close`, `CancelOne`, `CancelsDone`, `CloseDrainDone` and `Shutdown`
    (`shutdown(wait=True)` returns once no work item remains).
- **Workers:**
  - `StartWork` (FIFO, at most `SimultaneousReads` busy);
  - `Acquire` (any waiting thread may win a released permit, because
    Python's semaphore is not FIFO);
  - `FinishRead` (`_read` returns or raises).

The drain helper `future_results_as_completed` is not in the sources. Its
release rule, "only for futures that were not cancelled", is the only one
consistent with `base.py`: a cancelled future never ran `read_with_acquire`,
so it never acquired, and one release too many raises `ValueError` in a
BoundedSemaphore.

`DrainStep` is the caller's own loop over the generator: a yield or the end
of the loop. It exists only to state the fairness of a caller blocked in
`next()`.

### `IOReadEngineAbstract` and the refinement mapping

The abstract module says what the read path promises, with no threads,
queue or semaphore. `status` is `unopened`, `open`, `closing` or `closed`.
`outcome[r]` is `none`, `pending`, `result`, `cancelled` or `retrieved`.
Its actions:
- `Submit` happens in order, while open.
- `Complete` needs fewer than `ResultBound` results waiting.
- `Cancel` happens only while closing.
- `Retrieve` hands an outcome to the caller.
- `Closed` needs every outcome retrieved.

`IOReadEngine` maps onto it (`Abs == INSTANCE IOReadEngineAbstract WITH
...`):
- `AbsStatus` maps the caller's `pc` to `status`;
- `AbsOutcome` maps each future state to an outcome: queued, waiting and
  running are all `pending`;
- `ResultBound` is `SimultaneousReads + READ_QUEUE_LENGTH`.

`StartWork`, `Acquire`, the drain's bookkeeping steps and a `cancel()` that
comes too late are stuttering steps of the abstract spec.
`ImplementsAbstract == Abs!Spec`.

### `CephBackup` (scripts/ceph.py)

Constants: `Blocks`, `Vals` and `Zero` describe image contents. `MaxCalls`
and `MaxClock` are bounds.

Variables:
- `image` is the current contents, written by the VM at any time
  (`WriteBlock`).
- `clock` is the UTC second, advanced by `Tick`.
- `snaps` are the benji snapshots in creation order, each with its contents.
- `versions` are benji's versions, each with its contents and, as a ghost,
  its snapshot's contents.
- `raiseOnError` is the receivers' aggregate vote, chosen once per run. It
  stands for the votes of both `snapshot_create_post_error` and
  `backup_post_error`; receivers that vote differently per signal are not
  modelled.
- The script's locals are `listed`, `last`, `snapshot`, `hints` and `base`.
- `sent` is the set of signals sent by the current or last call, and
  `outcome` is how that call ended.

Actions: one per step of `backup()`, each able to fail into the `except`
branch (`RaiseFrom`): `BackupStart`, `SnapLs`, `RmOlder` (one loop
iteration), `BenjiLs`, `RmLast`, `SnapshotCreate`, `InitDiff`, `DiffDiff`,
`DiffRmLast` and `BenjiBackup`. `Restore` is a single step.

Snapshot removal (`WithoutSnap`) drops the one entry with the name, by
index. `rbd snap rm` fails on a missing snapshot, so each removal's success
branch requires the name to be present (`RmOlder`, `RmLast`, `DiffRmLast`).
Names are unique because each is a distinct clock second (`SnapshotCreate`
refuses a taken name). So this is the same list that a filter over the
names would give, and unlike `SelectSeq` it can be reasoned about in
TLAPS.

`benji backup` and `rbd diff` are outside this repository:
- `rbd diff` may list any superset of the changed blocks (`HintSets`).
- `benji backup` reads the hinted blocks from the snapshot and copies the
  rest from the base version, or leaves them sparse (`Assemble`, from
  spec.md §4.4).

### `JobStatusTracker` (src/benji/k8s_operator/resources.py)

Constants:
- `Jobs` (model values);
- `Stray`: Jobs that carry the operator's labels but no parent name;
- `ParentNamespaced`;
- `MaxFailed`, a bound on the failed-pod counter.

One parent resource is modelled.

Variables:
- `jphase[j]` and `jstatus[j]` are the Job in the API server: absent, live
  or gone, and its `startTime`, `completionTime` and `failed`.
- `evt[j]` is the event waiting for the Job's handler. Later changes
  coalesce into it.
- `hpc`, `hreason` and `hnew` are the handler run in progress: where it is,
  its reason, and the list it computed.
- `depList` is the parent's `status.dependantJobs`, a sequence of entries
  (Job uid, derived status).
- `parent` is `live`, `deleting` (held by its finalizer) or `gone`.
- `dd` and `ddList` are the state of `delete_all_dependant_jobs`.

The pure helpers are operators:
- `DeriveJobStatus` (`derive_job_status`);
- `DependantEntry` (`build_dependant_job_status`);
- `UpdateStatusList`, the first match replaced, else appended;
- `DeleteFromStatusList`: the list comprehension as the kept entries in
  order. The k-th kept entry is the one with k kept entries up to it
  (`KeptIndices`, `KeptRank`). This form has no recursion, so TLAPS can
  reason about it. `MCJobStatusTracker` asserts (`DeleteIsFilter`, checked
  by TLC on every tracker run) that it equals `SelectSeq` on every list of
  up to three entries;
- `BuildDependantJobs`.

Handler actions:
- `HandleEvent` is `get_parent` plus the computation of the patch. A 404
  sends a non-deletion event to `DeleteOrphan`.
- `PatchParent` is a merge patch: the whole list is replaced. 422 and 404
  are swallowed.
- `DeleteOrphan`: a 404 there is raised and the event is retried (`Retry`).
- `StrayDelete` is the branch of the condition at line 257.

Environment actions: `CreateJob` (`JobResource`), `JobProgress`,
`DeleteJob` and `DeleteParent`.

The parent's deletion handler runs `ListDependants`, `DeleteDependant` (one
iteration of `_delete_dependant_jobs`) and `DeleteAllDone`.

Three behaviours come from the operator framework, which is not in the
sources:
- handlers of one Job run one at a time, and handlers of different Jobs run
  concurrently;
- a handler that raises is retried;
- the parent's deletion handler runs `delete_all_dependant_jobs` before the
  finalizer is removed.

## 4. Runs

| Run | Checks | Shows |
|---|---|---|
| `io_safety` | `TypeOK`, `PermitsConserved`, `CloseDrainsAll`, `ImplementsAbstract` | no permit gained or lost; `close()` leaves no outcome uncollected; the engine refines its abstract promise (16 268 states) |
| `io_close_liveness` | `CloseCompletes`, `DrainReturns` under `FairSpec` | a started `close()` returns; a loop over the generator ends, although snapshot futures wait for permits only the drain releases |
| `io_spec_bound` (violation) | `OutstandingBound` | the spec's N+Q bound on outstanding reads is false for the code |
| `ceph_safety` | `VersionsFaithfulWhenRaising`, `SnapshotsBounded` | with receivers that re-raise, every valid version equals its snapshot; at most two benji snapshots exist at any time (≈3.36 million states) |
| `ceph_name_reuse` (violation) | `VersionsFaithful` | receivers that swallow errors: a valid version differs from its snapshot after a name is reused within one second |
| `tracker_handlers` | `StatusAccurate`, `EventsHandled`, `StrayJobsDeleted` under `FairSpec` | one Job and a stray Job, cluster-scoped parent: the list is exact once events are handled; every event of a labelled Job is handled to the end, orphan deletion and 404 retries included; the stray Job is deleted |
| `tracker_cleanup` | `ParentDeletionCleansUp` under `FairSpec` | namespaced parent with two Jobs: its deletion completes and leaves no Job |
| `tracker_lost_update` (violation) | `StatusAccurate` | two Jobs: one handler's patch overwrites the other's entry |
| `tracker_cluster_parent` (violation) | `ParentDeletionCleansUp` | cluster-scoped parent: a finished Job outlives it |

Every property of a passing run has a mutant in `PROJECT.json`. Each mutant
is a plausible bug of the mapped action, and TLC finds the property violated
when the mutant is substituted:
- releasing the permit of cancelled futures;
- a `> 1` instead of `> 0` in `close()`;
- shutting down without draining;
- an `acquire` that does not wait;
- a `benji ls` without the snapshot condition;
- a delete loop over `[1:-1]`;
- a drain that never releases a permit;
- the delete flag of `build_resource_status_dependant_jobs` lost;
- the 404 branch deleting the Job even for a deletion event;
- the stray check without its second disjunct;
- `_delete_dependant_jobs` stopping at the first 404.

### Bounds and why they suffice

**IO engine: 2 workers, 1 extra permit (3 permits), 5 reads.** Five reads
exceed the permits by two. That is enough for three finished results to hold
every permit while a fourth future waits in `acquire` and a fifth is still
queued. So, at `close()`, the cancel can hit a queued future, and a blocked
worker exists. Each future state meets each caller phase.

**Ceph script, `ceph_safety`: 2 blocks, 2 values, 4 calls, 3 clock
values.** These cover four things:
- an initial backup;
- a differential backup that fails after its base snapshot is removed;
- the fallback that follows, with calls in the same second;
- a snapshot leaked by the mutated delete loop, which needs four calls to
  become a third snapshot.

Three calls are too few for the name reuse behind `ceph_name_reuse`.
`ceph_name_reuse` needs only one block, since it only needs contents that
differ.

**Job tracker.**
- Two labelled Jobs are the fewest for two handlers to interleave on one
  parent.
- One stray Job exercises line 257.
- `MaxFailed = 1` lets a Job show `Failed` and then `Succeeded` after a
  retried pod.
- `tracker_cleanup` uses `MaxFailed = 0`, which keeps it fast. Its
  property does not depend on the failed-pod count.
- In `tracker_cleanup` a Job can still be deleted by its TTL between the
  listing and the loop.

### Fairness

`FairSpec` assumes weak fairness of two things:
- **The worker steps, taken together.** The OS schedules a runnable thread.
- **The caller's steps inside `close()`.** Once the caller has entered
  `close()`, it is running that code.

- **The caller's loop over the generator (`DrainStep`).** A caller blocked
  in `next()` receives the next result once it is there. It may still leave
  the loop (`DrainAbandoned`).

In `JobStatusTracker`, `FairSpec` assumes weak fairness of each Job's
handler steps and of the parent's deletion handler. The framework runs every
handler it has an event for. The Job controller, users and TTL get no
fairness.

The caller is not obliged to call anything, so the runs set
`CHECK_DEADLOCK FALSE`: the program really stops when its caller stops. A
`close()` that gets stuck is caught by `CloseCompletes`, not by deadlock
detection.

## 5. Findings

- **`base.py:49`.** The permit is acquired in the worker, so `read()` never
  blocks and outstanding reads are unbounded. spec.md §4.3 and §8 claim the
  submitter blocks at N+Q. The code bounds only *finished, undrained*
  results: `PermitsConserved`, which is proved.
- **`ceph.py:109`.** `snapshot_create` names a snapshot after the current
  second. If the name is taken, `rbd snap create` fails, and receivers that
  do not re-raise (line 51) let `backup_differential` go on. The chain:
  - line 112 deletes `last_snapshot`, the snapshot of a valid version;
  - a later call in the same second creates a new snapshot under that
    name;
  - `benji ls` (line 169) then returns the old version as the base of
    snapshot contents it never saw.

  This breaks spec.md §8 (differential correctness). With receivers that
  re-raise, or none connected, it cannot happen: that is
  `VersionsFaithfulWhenRaising`, which is proved.
- **`resources.py:271`.** `track_job_status` reads the parent and patches
  back the whole list it computed, with no `resourceVersion`. Two Jobs'
  handlers running at once lose one entry (or resurrect a deleted one). The
  list stays wrong until that Job changes again.
- **`resources.py:307`.** The label selector of `delete_all_dependant_jobs`
  always names `LABEL_PARENT_NAMESPACE={namespace}`. For a cluster-scoped
  parent that is `'None'`, a label its Jobs never get (line 43). So nothing
  is deleted, and a Job that has already finished gets no further event to
  be orphan-deleted by.

Two further defects were found by reading `ceph.py`. No run checks them,
because the model's `sent` only records what the code sends:
- **`ceph.py:192`.** The `return` inside the `try` of `backup()` skips its
  `else` branch, so `backup_post_success` is never sent.
- **`ceph.py:219`.** `restore()` sends `snapshot_create_pre` where
  `restore_pre` is meant.

## 6. Proofs (TLAPS)

`IOReadEngine_proofs` states four theorems. They hold for every value of the
constants, under `ConstantsAssumption`: `SimultaneousReads` ≥ 1, and the
other two constants are naturals.

- **`TypeCorrect`: `Spec => []TypeOK`.**
- **`PermitsConservation`: `Spec => []PermitsConserved`.** The invariant as
  stated is not inductive. The proof uses
  `IInv == TypeOK /\ CallerExecutor /\ NotOpenedIdle /\ PermitsConserved`:
  - `CallerExecutor`: the executor is live exactly between `open_r` and
    `close()`. Without it, `Shutdown` could turn an unopened engine into a
    "not none" state with zero permits.
  - `NotOpenedIdle`: no future exists before `open_r`, so the set of holders
    is empty when `OpenR` sets the counter.

  There is one step per action. Only `Acquire` and `YieldCompleted` change
  the set of holders: by adding or removing one element, with
  `FS_AddElement` and `FS_RemoveElement`. The holders are finite because
  they are a subset of `1..MaxReads` (`StateSetFinite`).

- **`Refinement`: `Spec => ImplementsAbstract`.** The read engine
  implements `IOReadEngineAbstract` for every configuration. It rests on
  `RInv == IInv /\ DrainCovers /\ ClosedEmpty`:
  - `DrainCovers`: while `close()` drains, every listed future is in its
    snapshot;
  - `ClosedEmpty`: at shutdown the list is empty, which is the abstract
    guard of `Closed`.

  The step proof has one case per action. `FinishRead` is the abstract
  `Complete`, and its guard needs a counting argument: the finished results
  are holders other than the running future, so by `PermitsConserved` there
  are fewer than `ReadPermits` of them (`FS_RemoveElement`, `FS_Subset`).
  The instantiated `Cardinality` of the abstract module is shown equal to
  the one of this module.

- **`CloseDrainsAllHolds`: `Spec => []CloseDrainsAll`.** This follows
  from `RInv`: its `ClosedEmpty` conjunct is the property.

`CephBackup_proofs` holds for every set of blocks and values, and every
bound on calls and clock (`CephAssumption`).

- **`SnapshotsBoundedHolds`: `Spec => []SnapshotsBounded`.** It rests on
  `CountBase == TypeInv /\ OrderInv /\ CountInv`:
  - `TypeInv`: the types, including the records of versions and `base`;
  - `OrderInv`: snapshot names strictly increase along the list and are at
    most `clock`, and `listed` is sorted the same way;
  - `CountInv`: how many snapshots each control point can see. For
    example, `rmOlder` has `listed = NameSeq(snaps)`, and `benjiLs` sees
    exactly one snapshot.

  The loop removes the head of `listed`. That is the head of `snaps`, so
  the two stay in step.
- **`VersionsFaithfulWhenRaisingHolds`: `Spec => []VersionsFaithfulWhenRaising`.**
  `IInv` adds `FaithInv` to `CountBase`. Under `raiseOnError`, `FaithInv`
  says:
  - every valid version equals its source;
  - while its snapshot exists, the version's source is that snapshot's
    contents (`ValidSnapsKept`);
  - a valid version whose snapshot is gone names a past second
    (`GoneNamesPast`);
  - in a differential backup, `base` is a valid version of `last`, and
    `last` is older than the new `snapshot`;
  - the hints cover every block in which the snapshot differs from the
    base, or from the sparse image for an initial backup;
  - in `rmLast`, no valid version names `last`.

  `GoneNamesPast` is what makes the argument work. Every removal deletes a
  name that is below `clock`, or one no valid version names: the older
  snapshots in `RmOlder`, `last < snapshot <= clock` in `DiffRmLast`, and
  `LastUnknown` in `RmLast`. So `SnapshotCreate`, which takes the name
  `clock` only when it is free, never gives a valid version's name new
  contents. With these facts, `BenjiBackup` assembles exactly the
  snapshot (`AssembleCovers`).

  The list lemmas are `AppendSnap`, `RemoveSnap`, `RemoveKeeps` and
  `AppendKeeps`. They are about sorted lists of named snapshots, and they
  give what appending or removing does to names and contents.

`JobStatusTracker_proofs` holds for every set of Jobs and every bound on
failed pods.

- **`TypeCorrect`: `Spec => []TypeOK`.** The inductive invariant is
  `TypeOK /\ UniqueEntries /\ PatchesUnique`. `PatchesUnique` says the
  list a run is about to patch is also duplicate-free. It is needed
  because `PatchParent` writes a list computed earlier, from an older read
  of the parent.

  The lemmas are about the helpers:
  - `UpdateUnique`: the first match is the only match in a duplicate-free
    list;
  - `KeptRanks`: the ranks are a bijection from the kept indices onto
    `1..n`. The proof shows they are injective and strictly increasing,
    then uses `FS_Injection`;
  - `DeleteUnique` and `BuildUnique`.

- **`StatusAccurateSingleJob`: for a parent with at most one Job
  (`SingleJob`), `Spec => []StatusAccurate`.** This holds for every set of
  stray Jobs, either scope of the parent and every bound on failed pods.
  With two Jobs the property is false (`tracker_lost_update`), so the
  hypothesis is exactly where the property holds. It matches a parent
  that starts one Job, and the `tracker_handlers` run.

  The inductive invariant is `SInv`. It adds three parts to the one above:
  - `EntriesLabelled`: every entry of the parent's list, and of a list a
    run is about to patch, belongs to a Job of the parent;
  - `StrayIdle`: a stray Job's run never gets past the stray check;
  - `Tracked`: while the parent lives, its deletion handler has not
    started, and `TracksJob(j)` holds for its Job `j`.

  `TracksJob(j)` has these parts:
  - a pending event matches the Job's phase: `"delete"` exactly when the
    Job is gone, and no event before it is created;
  - the run is never in the orphan branch;
  - with no event pending, the list the run is about to patch, or else the
    parent's list if no run is in progress, holds exactly the expected
    entry: the one `derive_job_status` gives while the Job lives, and none
    once it is gone.

  The argument is that a run recomputes its list from the Job's latest
  body. The lists contain no other Job's entry, and no entry twice. So
  `update_status_list` leaves exactly the Job's new entry (`UpdateSingle`),
  and `delete_from_status_list` leaves nothing (`DeleteSingle`, from
  `DeleteKeeps`). A patch computed before a newer event is allowed to be
  stale: that event is still pending and recomputes the list.
  `EntriesLabelled` and `StrayIdle` hold for any number of Jobs
  (`LabelledStep`). TLC checked `SInv` as an invariant on one Job and a
  stray one, for both scopes of the parent, before it was proved.

Only TLC checks the following:
- the liveness properties (`CloseCompletes`, `DrainReturns`, and those of
  `JobStatusTracker`): liveness is beyond TLAPS here;
- that `StatusAccurate` fails with two Jobs (`tracker_lost_update`);
- that `DeleteFromStatusList` equals the `SelectSeq` filter
  (`DeleteIsFilter`). `SelectSeq` is a recursive function definition, and
  its defining equation cannot be derived by the provers here;
- the violations, which are counterexamples found by TLC.

## 7. Not modelled

- **`create_pvc`, `create_object_ref`.** They are formatting and single
  API calls with no state the operator reads back.
- **The namespace filter of `track_job_status` (line 252).** Every modelled
  Job lives in the operator's namespace.
- **The fate of a stray Job's deletion event.** It raises: a 404 on a Job
  that is already gone. What happens next depends on how the handler is
  registered, which is not in the sources.
- **Reads submitted from inside a loop over the generator.** The snapshot
  does not contain them, and spec.md §4.3 promises a finite drain only for
  a closed set.
- **`open_r` on an engine that is already open.**
- **The test configuration.**
- **The spec-only components.** Their code is not in the sources. `benji
  backup` is modelled from the spec where `ceph.py` depends on it.
