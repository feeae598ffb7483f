\* A namespaced parent with two Jobs that never fail a pod; every handler of the
\* operator is run until it returns (weak fairness).
CONSTANTS
    j1 = j1
    j2 = j2
    s1 = s1
    Jobs <- MCTwoJobs
    Stray <- MCNoStray
    ParentNamespaced = TRUE
    MaxFailed = 0
SPECIFICATION FairSpec
PROPERTY ParentDeletionCleansUp
\* Every Job may be finished and the parent gone: the system may stop.
CHECK_DEADLOCK FALSE
