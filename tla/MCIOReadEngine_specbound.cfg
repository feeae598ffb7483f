CONSTANTS
    SimultaneousReads <- MCSimultaneousReads
    ReadQueueLength <- MCReadQueueLength
    MaxReads <- MCMaxReads
SPECIFICATION Spec
INVARIANT OutstandingBound
CHECK_DEADLOCK FALSE
