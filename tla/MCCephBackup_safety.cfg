CONSTANTS
    Blocks <- MCBlocks
    Vals <- MCVals
    Zero <- MCZero
    MaxCalls <- MCMaxCallsLong
    MaxClock <- MCMaxClock
SPECIFICATION Spec
INVARIANT VersionsFaithfulWhenRaising SnapshotsBounded
\* The script stops after its bounded number of calls.
CHECK_DEADLOCK FALSE
