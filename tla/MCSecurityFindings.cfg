\* Two overlapping runs of each rule.
SPECIFICATION Spec
CONSTANTS
    r1 = r1
    r2 = r2
    Runs = {r1, r2}
    Policies <- MCPolicies
    MaxPolicies = 2
    PolicyRoom = 1
    MaxAdmins = 6
    Users = {"u1", "u2"}
    MaxRows = 3
    MaxClock = 2
SYMMETRY Symmetry
INVARIANTS
    VerdictIsSound
    CurrentIsLatest
    ReportedIsStored
CHECK_DEADLOCK FALSE
