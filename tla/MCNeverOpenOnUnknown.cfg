\* One run of each rule: is an unknown value ever a gap?
SPECIFICATION Spec
CONSTANTS
    r1 = r1
    r2 = r2
    Runs = {r1}
    Policies <- MCPolicies
    MaxPolicies = 2
    PolicyRoom = 1
    MaxAdmins = 6
    Users = {"u1", "u2"}
    MaxRows = 3
    MaxClock = 2
INVARIANTS
    NeverOpenOnUnknown
CHECK_DEADLOCK FALSE
