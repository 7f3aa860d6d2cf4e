\* Three attempts over at most two pages.
SPECIFICATION FairSpec
CONSTANTS
    Lifetimes = {3, 5}
    RefreshSkew = 2
    TokenTimeout = 1
    MaxPages = 2
    RequestTimeout = 1
    MaxRetries = 2
    BaseDelay = 1
    MaxDelay = 1
    MaxRetryAfter = 2
    RetryAfters <- MCRetryAfters
INVARIANTS
    PassIsComplete
    BudgetIsKept
    WaitIsBounded
    TokenOutlivesRequest
PROPERTIES
    CollectionEnds
\* collect() returns or raises; then nothing is left to do.
CHECK_DEADLOCK FALSE
