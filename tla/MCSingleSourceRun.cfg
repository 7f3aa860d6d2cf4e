\* One run of each driver, side by side.
SPECIFICATION Spec
CONSTANTS
    settings = settings
    audit = audit
    security = security
    Runs = {settings, audit, security}
    Driver <- MCDriver
    SourceFailures <- MCSourceFailures
INVARIANTS
    VerdictMatchesRow
    PassMeansStored
    FinallySettles
PROPERTIES
    LedgerSpec
\* Every run ends; then nothing is left to do.
CHECK_DEADLOCK FALSE
