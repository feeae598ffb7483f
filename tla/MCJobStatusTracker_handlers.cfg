\* A cluster-scoped parent with one Job and a stray one, so that no two
\* handlers write the parent and a Job can outlive its parent and be deleted
\* as an orphan; every handler of the operator is run until it returns
\* (weak fairness).
CONSTANTS
    j1 = j1
    j2 = j2
    s1 = s1
    Jobs <- MCOneJob
    Stray <- MCStray
    ParentNamespaced = FALSE
    MaxFailed = 1
SPECIFICATION FairSpec
INVARIANT StatusAccurate
PROPERTY EventsHandled StrayJobsDeleted
\* Every Job may be finished and the parent gone: the system may stop.
CHECK_DEADLOCK FALSE
