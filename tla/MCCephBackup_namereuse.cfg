CONSTANTS
    Blocks <- MCOneBlock
    Vals <- MCVals
    Zero <- MCZero
    MaxCalls <- MCMaxCallsLong
    MaxClock <- MCMaxClock
SPECIFICATION Spec
INVARIANT VersionsFaithful
\* The script stops after its bounded number of calls.
CHECK_DEADLOCK FALSE
