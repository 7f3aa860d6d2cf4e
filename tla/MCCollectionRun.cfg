\* Two concurrent runs over the same two endpoints, the second a gated usage
\* report and the first a gated Graph endpoint.
SPECIFICATION FairSpec
CONSTANTS
    r1 = r1
    r2 = r2
    Runs = {r1, r2}
    NoRun = NoRun
    NumEndpoints = 2
    UsageEndpoints = {2}
    GatedEndpoints = {1, 2}
    GraphFailures <- MCGraphFailures
    UsageFailures <- MCUsageFailures
INVARIANTS
    TypeOK
    ReconciledWithRows
    PassMeansCommitted
    CheckpointMeansCommitted
    FailedMeansNothingCommitted
    OneOpenRow
    SkippedLeavesNoTrace
PROPERTIES
    VerdictIsFinal
    LedgerSpec
    RunningIsSettled
\* Every run ends; then nothing is left to do.
CHECK_DEADLOCK FALSE
