-------------------------- MODULE JobStatusTracker --------------------------
(***************************************************************************)
(* The Kubernetes operator's tracking of the Jobs it starts for one parent *)
(* resource (src/benji/k8s_operator/resources.py).                        *)
(*                                                                         *)
(* JobResource creates a Job labelled with its parent.  The Job controller *)
(* moves the Job's status along (startTime, failed pods, completionTime).  *)
(* Each change is an event for the Job; the operator framework runs        *)
(* track_job_status for one Job at a time, but for different Jobs at the   *)
(* same time.  The handler reads the parent (get_parent), computes the new *)
(* status.dependantJobs list from what it read and patches the whole list  *)
(* back (patch_parent, a JSON merge patch: lists are replaced).  When the  *)
(* parent is deleted, its deletion handler runs delete_all_dependant_jobs. *)
(*                                                                         *)
(* A handler that raises is retried by the framework: its event stays      *)
(* pending.  Events of one Job that arrive while none is handled coalesce: *)
(* the framework hands the latest body to the next run.                    *)
(***************************************************************************)
EXTENDS Naturals, Sequences, FiniteSets

CONSTANTS
    Jobs,              \* the Jobs that may exist in the operator's namespace
    Stray,             \* those carrying the operator's labels but no parent name
    ParentNamespaced,  \* whether the parent resource has a metadata.namespace
    MaxFailed          \* bound on the failed-pod counter of a Job

ASSUME TrackerAssumption ==
    /\ Stray \subseteq Jobs
    /\ ParentNamespaced \in BOOLEAN
    /\ MaxFailed \in Nat

\* Jobs created by JobResource for the parent, labelled with its name.
Labelled == Jobs \ Stray

\* The fields of a Job's status that derive_job_status looks at; failed is
\* the number of failed pods.
JobStatuses == [start : BOOLEAN, completion : BOOLEAN, failed : 0..MaxFailed]

DependantStatuses == {"Pending", "Running", "Failed", "Succeeded"}

Reasons == {"create", "update", "delete"}

\* One entry of status.dependantJobs: the Job's object reference (its uid)
\* and the status derived from the Job.
Entries == [uid : Jobs, status : DependantStatuses]

VARIABLES
    jphase,    \* jphase[j]: "absent", "live" or "gone" in the API server
    jstatus,   \* jstatus[j]: the Job's status (kept after deletion: the
               \* body of the deletion event)
    evt,       \* evt[j]: the reason of the event waiting for j's handler
    hpc,       \* hpc[j]: where track_job_status for j is
    hreason,   \* hreason[j]: the reason of the run in progress
    hnew,      \* hnew[j]: the list the run computed from what it read
    depList,   \* the parent's status.dependantJobs
    parent,    \* "live", "deleting" (deletion handler running) or "gone"
    dd,        \* delete_all_dependant_jobs: "idle", "deleting" or "done"
    ddList     \* the Jobs it listed and has still to delete

vars == <<jphase, jstatus, evt, hpc, hreason, hnew, depList, parent, dd,
          ddList>>

-----------------------------------------------------------------------------
(* The pure helpers of resources.py.                                       *)

\* derive_job_status: completionTime wins, then startTime with or without
\* failed pods, else the Job has not started.
DeriveJobStatus(s) ==
    IF s.completion THEN "Succeeded"
    ELSE IF s.start THEN IF s.failed > 0 THEN "Failed" ELSE "Running"
    ELSE "Pending"

\* build_dependant_job_status with create_object_ref: the entry for Job j.
DependantEntry(j, s) == [uid |-> j, status |-> DeriveJobStatus(s)]

\* update_status_list: replace the first entry with j's uid, else append.
UpdateStatusList(lst, j, s) ==
    IF \E i \in DOMAIN lst : lst[i].uid = j
    THEN LET i == CHOOSE i \in DOMAIN lst :
                      lst[i].uid = j /\ \A k \in 1..(i - 1) : lst[k].uid # j
         IN  [lst EXCEPT ![i] = DependantEntry(j, s)]
    ELSE Append(lst, DependantEntry(j, s))

\* The indices of lst whose entry does not have j's uid.
KeptIndices(lst, j) == {i \in DOMAIN lst : lst[i].uid # j}

\* The position in the filtered list of the kept entry at index i: the
\* number of kept entries up to and including it.
KeptRank(lst, j, i) == Cardinality({k \in KeptIndices(lst, j) : k <= i})

\* delete_from_status_list: the list comprehension keeps, in their order,
\* the entries whose uid is not j's; the k-th of them is the kept entry
\* of rank k.
DeleteFromStatusList(lst, j) ==
    [k \in 1..Cardinality(KeptIndices(lst, j)) |->
        lst[CHOOSE i \in KeptIndices(lst, j) : KeptRank(lst, j, i) = k]]

\* Mutant: the delete flag is lost, so a deletion event updates the entry.
BuildDependantJobsNoDelete(lst, j, r, s) == UpdateStatusList(lst, j, s)

\* build_resource_status_dependant_jobs, with delete=(reason == 'delete').
BuildDependantJobs(lst, j, r, s) ==
    IF r = "delete" THEN DeleteFromStatusList(lst, j)
    ELSE UpdateStatusList(lst, j, s)

\* Mutant: the stray check without its second disjunct.
IsStrayEventFirstOnly(j, r) == FALSE

\* The condition of line 257 as Python parses it:
\* (reason != 'delete' and 'labels' not in meta) or
\* LABEL_PARENT_NAME not in meta['labels'].  Every Job seen here carries
\* the operator's labels, so only the second disjunct can hold.
IsStrayEvent(j, r) == j \in Stray

\* get_parent finds the parent until its deletion has completed.
ParentFound == parent \in {"live", "deleting"}

\* The Jobs delete_all_dependant_jobs lists.  Its label selector always
\* names LABEL_PARENT_NAMESPACE; JobResource sets that label only when the
\* parent has a namespace, and for a cluster-scoped parent the selector's
\* value is the string 'None', which no Job carries.
SelectorMatches(j) == j \in Labelled /\ ParentNamespaced

\* A new change of a live Job marks it for the handler; a pending creation
\* stays a creation.
Touch(j) == evt' = [evt EXCEPT ![j] = IF @ = "none" THEN "update" ELSE @]

\* A handler that raised: the framework retries it with the latest event.
Retry(j) ==
    /\ evt' = [evt EXCEPT ![j] = IF @ = "none" THEN hreason[j] ELSE @]
    /\ hpc' = [hpc EXCEPT ![j] = "idle"]

-----------------------------------------------------------------------------
(* The environment: the Job controller, users and TTL deletion.           *)

Init ==
    /\ jphase = [j \in Jobs |-> "absent"]
    /\ jstatus = [j \in Jobs |-> [start |-> FALSE, completion |-> FALSE,
                                  failed |-> 0]]
    /\ evt = [j \in Jobs |-> "none"]
    /\ hpc = [j \in Jobs |-> "idle"]
    /\ hreason = [j \in Jobs |-> "create"]
    /\ hnew = [j \in Jobs |-> <<>>]
    /\ depList = <<>>
    /\ parent = "live"
    /\ dd = "idle"
    /\ ddList = {}

\* JobResource(...) for the live parent; a stray Job is made by someone else.
CreateJob(j) ==
    /\ jphase[j] = "absent"
    /\ j \in Stray \/ parent = "live"
    /\ jphase' = [jphase EXCEPT ![j] = "live"]
    /\ evt' = [evt EXCEPT ![j] = "create"]
    /\ UNCHANGED <<jstatus, hpc, hreason, hnew, depList, parent, dd, ddList>>

\* The Job controller sets startTime, counts a failed pod, or sets
\* completionTime once a pod succeeded.
JobProgress(j) ==
    /\ jphase[j] = "live"
    /\ ~jstatus[j].completion
    /\ \/ /\ ~jstatus[j].start
          /\ jstatus' = [jstatus EXCEPT ![j].start = TRUE]
       \/ /\ jstatus[j].start /\ jstatus[j].failed < MaxFailed
          /\ jstatus' = [jstatus EXCEPT ![j].failed = @ + 1]
       \/ /\ jstatus[j].start
          /\ jstatus' = [jstatus EXCEPT ![j].completion = TRUE]
    /\ Touch(j)
    /\ UNCHANGED <<jphase, hpc, hreason, hnew, depList, parent, dd, ddList>>

\* A user or the Job's TTL removes it.
DeleteJob(j) ==
    /\ jphase[j] = "live"
    /\ jphase' = [jphase EXCEPT ![j] = "gone"]
    /\ evt' = [evt EXCEPT ![j] = "delete"]
    /\ UNCHANGED <<jstatus, hpc, hreason, hnew, depList, parent, dd, ddList>>

\* A user deletes the parent; its finalizer keeps it until its deletion
\* handler is done.
DeleteParent ==
    /\ parent = "live"
    /\ parent' = "deleting"
    /\ UNCHANGED <<jphase, jstatus, evt, hpc, hreason, hnew, depList, dd,
                   ddList>>

-----------------------------------------------------------------------------
(* track_job_status, one Job's run at a time.                              *)

\* Mutant: the 404 branch deletes the Job whatever the reason.
HandleEventAlwaysDeleteOrphan(j) ==
    LET r == evt[j] IN
    /\ hpc[j] = "idle" /\ r # "none"
    /\ ~IsStrayEvent(j, r)
    /\ j \in Labelled
    /\ evt' = [evt EXCEPT ![j] = "none"]
    /\ hreason' = [hreason EXCEPT ![j] = r]
    /\ \/ /\ ParentFound
          /\ hnew' = [hnew EXCEPT ![j] =
                          BuildDependantJobs(depList, j, r, jstatus[j])]
          /\ hpc' = [hpc EXCEPT ![j] = "patch"]
       \/ /\ ~ParentFound
          /\ hnew' = hnew
          /\ hpc' = [hpc EXCEPT ![j] = "deleteOrphan"]
    /\ UNCHANGED <<jphase, jstatus, depList, parent, dd, ddList>>

\* A run for a Job that passes the stray check: get_parent, then the patch
\* is computed from the parent's status as read.  If the parent is not
\* found (404), a Job whose event is not a deletion is deleted next.  A
\* stray Job reaching this point raises KeyError at
\* meta['labels'][LABEL_PARENT_NAME] and its event is retried unchanged.
HandleEvent(j) ==
    LET r == evt[j] IN
    /\ hpc[j] = "idle" /\ r # "none"
    /\ ~IsStrayEvent(j, r)
    /\ j \in Labelled
    /\ evt' = [evt EXCEPT ![j] = "none"]
    /\ hreason' = [hreason EXCEPT ![j] = r]
    /\ \/ /\ ParentFound
          /\ hnew' = [hnew EXCEPT ![j] =
                          BuildDependantJobs(depList, j, r, jstatus[j])]
          /\ hpc' = [hpc EXCEPT ![j] = "patch"]
       \/ /\ ~ParentFound
          /\ hnew' = hnew
          /\ hpc' = [hpc EXCEPT ![j] = IF r # "delete" THEN "deleteOrphan"
                                                      ELSE "idle"]
    /\ UNCHANGED <<jphase, jstatus, depList, parent, dd, ddList>>

\* patch_parent: the merge patch replaces the whole list.  A parent being
\* deleted answers 422 and a gone one 404; both are logged and swallowed.
PatchParent(j) ==
    /\ hpc[j] = "patch"
    /\ depList' = IF parent = "live" THEN hnew[j] ELSE depList
    /\ hpc' = [hpc EXCEPT ![j] = "idle"]
    /\ UNCHANGED <<jphase, jstatus, evt, hreason, hnew, parent, dd, ddList>>

\* delete_namespaced_job for a Job whose parent has gone.  If the Job is
\* already gone the 404 is raised again from the except clause and the run
\* is retried.
DeleteOrphan(j) ==
    /\ hpc[j] = "deleteOrphan"
    /\ \/ /\ jphase[j] = "live"
          /\ jphase' = [jphase EXCEPT ![j] = "gone"]
          /\ evt' = [evt EXCEPT ![j] = "delete"]
          /\ hpc' = [hpc EXCEPT ![j] = "idle"]
       \/ /\ jphase[j] = "gone"
          /\ Retry(j)
          /\ UNCHANGED jphase
    /\ UNCHANGED <<jstatus, hreason, hnew, depList, parent, dd, ddList>>

\* The stray branch: the Job is deleted and the run returns.  Once the Job
\* is gone the call answers 404, the run raises and is retried with no
\* effect, which is a stuttering step.
StrayDelete(j) ==
    /\ hpc[j] = "idle" /\ evt[j] # "none"
    /\ IsStrayEvent(j, evt[j])
    /\ jphase[j] = "live"
    /\ jphase' = [jphase EXCEPT ![j] = "gone"]
    /\ evt' = [evt EXCEPT ![j] = "delete"]
    /\ UNCHANGED <<jstatus, hpc, hreason, hnew, depList, parent, dd, ddList>>

-----------------------------------------------------------------------------
(* delete_all_dependant_jobs, run by the parent's deletion handler.        *)

\* list_namespaced_job with the parent's label selector.
ListDependants ==
    /\ parent = "deleting" /\ dd = "idle"
    /\ ddList' = {j \in Jobs : jphase[j] = "live" /\ SelectorMatches(j)}
    /\ dd' = "deleting"
    /\ UNCHANGED <<jphase, jstatus, evt, hpc, hreason, hnew, depList, parent>>

\* Mutant: a 404 ends the loop instead of moving to the next Job.
DeleteDependantStopOn404(j) ==
    /\ dd = "deleting" /\ j \in ddList
    /\ \/ /\ jphase[j] = "live"
          /\ jphase' = [jphase EXCEPT ![j] = "gone"]
          /\ evt' = [evt EXCEPT ![j] = "delete"]
          /\ ddList' = ddList \ {j}
       \/ /\ jphase[j] = "gone"
          /\ ddList' = {}
          /\ UNCHANGED <<jphase, evt>>
    /\ UNCHANGED <<jstatus, hpc, hreason, hnew, depList, parent, dd>>

\* One iteration of _delete_dependant_jobs; a Job already gone is a 404
\* that is logged and skipped.
DeleteDependant(j) ==
    /\ dd = "deleting" /\ j \in ddList
    /\ ddList' = ddList \ {j}
    /\ \/ /\ jphase[j] = "live"
          /\ jphase' = [jphase EXCEPT ![j] = "gone"]
          /\ evt' = [evt EXCEPT ![j] = "delete"]
       \/ /\ jphase[j] = "gone"
          /\ UNCHANGED <<jphase, evt>>
    /\ UNCHANGED <<jstatus, hpc, hreason, hnew, depList, parent, dd>>

\* The loop is over; the finalizer is removed and the parent goes away.
DeleteAllDone ==
    /\ dd = "deleting" /\ ddList = {}
    /\ dd' = "done"
    /\ parent' = "gone"
    /\ UNCHANGED <<jphase, jstatus, evt, hpc, hreason, hnew, depList, ddList>>

-----------------------------------------------------------------------------

\* The steps the operator takes; the framework runs every Job's handler and
\* the parent's deletion handler until they return.
OperatorStep(j) ==
    \/ HandleEvent(j) \/ PatchParent(j) \/ DeleteOrphan(j) \/ StrayDelete(j)
    \/ DeleteDependant(j)

Next ==
    \/ \E j \in Jobs : \/ CreateJob(j) \/ JobProgress(j) \/ DeleteJob(j)
                       \/ OperatorStep(j)
    \/ DeleteParent \/ ListDependants \/ DeleteAllDone

Spec == Init /\ [][Next]_vars

FairSpec ==
    /\ Spec
    /\ \A j \in Jobs : WF_vars(OperatorStep(j))
    /\ WF_vars(ListDependants) /\ WF_vars(DeleteAllDone)

-----------------------------------------------------------------------------
(* Properties.                                                             *)

TypeOK ==
    /\ jphase \in [Jobs -> {"absent", "live", "gone"}]
    /\ jstatus \in [Jobs -> JobStatuses]
    /\ evt \in [Jobs -> Reasons \cup {"none"}]
    /\ hpc \in [Jobs -> {"idle", "patch", "deleteOrphan"}]
    /\ hreason \in [Jobs -> Reasons]
    /\ hnew \in [Jobs -> Seq(Entries)]
    /\ depList \in Seq(Entries)
    /\ parent \in {"live", "deleting", "gone"}
    /\ dd \in {"idle", "deleting", "done"}
    /\ ddList \subseteq Jobs

\* No event of a labelled Job waits and none is being handled.
Quiescent == \A j \in Labelled : evt[j] = "none" /\ hpc[j] = "idle"

(* Once every event of the parent's Jobs has been handled, the parent's    *)
(* dependantJobs list has exactly one entry per live Job, with the status  *)
(* derive_job_status gives its latest status, and none for a deleted Job   *)
(* (track_job_status, build_resource_status_dependant_jobs).              *)
StatusAccurate ==
    parent = "live" /\ Quiescent =>
        {depList[i] : i \in DOMAIN depList} =
            {DependantEntry(j, jstatus[j]) : j \in {k \in Labelled : jphase[k] = "live"}}

(* Every event of a labelled Job is eventually handled to the end, retries *)
(* included: track_job_status never raises forever on such a Job.          *)
EventsHandled ==
    \A j \in Labelled : evt[j] # "none" ~> (evt[j] = "none" /\ hpc[j] = "idle")

(* A stray Job (one of ours without a parent name) is eventually deleted   *)
(* by track_job_status.                                                    *)
StrayJobsDeleted ==
    \A j \in Stray : jphase[j] = "live" ~> jphase[j] = "gone"

(* Once the parent is being deleted, its deletion completes and none of    *)
(* its Jobs is left behind (delete_all_dependant_jobs, and track_job_status *)
(* deleting the Jobs whose parent has gone).                               *)
ParentDeletionCleansUp ==
    parent = "deleting" ~>
        (parent = "gone" /\ \A j \in Labelled : jphase[j] # "live")

=============================================================================
