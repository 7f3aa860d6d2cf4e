SPECIFICATION Spec
CONSTANTS
    q1 = q1
    q2 = q2
    r1 = r1
    r2 = r2
    r3 = r3
    u1 = u1
    u2 = u2
    u3 = u3
    t1 = t1
    t2 = t2
    Requests <- MCRequests
    Runs <- MCRuns
    WorkloadOf <- MCWorkloadOf
    Report <- MCReport
    Users <- MCUsers
    Nameless <- MCNameless
    Collected <- MCCollected
    Tenants <- MCTenants
    TTL = 2
    Plans <- MCPlans
INVARIANTS
    FreshOnArrival
    AnswersRestOnOneReport
    CountsAgree
PROPERTIES
    EveryRequestAnswered
CHECK_DEADLOCK FALSE
