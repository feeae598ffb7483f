CONSTANTS
    SimultaneousReads <- MCSimultaneousReads
    ReadQueueLength <- MCReadQueueLength
    MaxReads <- MCMaxReads
SPECIFICATION FairSpec
PROPERTY CloseCompletes DrainReturns
\* The caller may stop calling at any point (it is not obliged to close).
CHECK_DEADLOCK FALSE
