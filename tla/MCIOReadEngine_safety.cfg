CONSTANTS
    SimultaneousReads <- MCSimultaneousReads
    ReadQueueLength <- MCReadQueueLength
    MaxReads <- MCMaxReads
SPECIFICATION Spec
INVARIANT TypeOK
INVARIANT PermitsConserved
INVARIANT CloseDrainsAll
PROPERTY ImplementsAbstract
\* The caller may stop calling at any point; a stuck close() is caught by
\* CloseCompletes in the liveness run.
CHECK_DEADLOCK FALSE
