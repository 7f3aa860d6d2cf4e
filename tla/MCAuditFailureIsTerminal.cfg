\* The audit driver alone.
SPECIFICATION Spec
CONSTANTS
    settings = settings
    audit = audit
    security = security
    Runs = {audit}
    Driver <- MCDriver
    SourceFailures <- MCSourceFailures
INVARIANTS
    AuditFailureIsTerminal
CHECK_DEADLOCK FALSE
