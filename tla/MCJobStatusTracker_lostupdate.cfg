\* Two labelled Jobs whose handlers both read-modify-write the parent.
CONSTANTS
    j1 = j1
    j2 = j2
    s1 = s1
    Jobs <- MCTwoJobs
    Stray <- MCNoStray
    ParentNamespaced = TRUE
    MaxFailed = 1
SPECIFICATION Spec
INVARIANT StatusAccurate
CHECK_DEADLOCK FALSE
