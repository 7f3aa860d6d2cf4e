\* Three runs of one endpoint, in each persistence mode.
SPECIFICATION Spec
CONSTANTS
    r1 = r1
    r2 = r2
    r3 = r3
    o1 = o1
    o2 = o2
    Runs = {r1, r2, r3}
    Objects = {o1, o2}
    Contents = {"A", "B", "U"}
    Licenses <- MCLicenses
    Unstated = {"U"}
    KnownSkus = {"s1", "s2"}
    Modes <- AllModes
    MaxChanges = 2
SYMMETRY Symmetry
INVARIANTS
    CurrentIsBacked
    AloneLeavesItsOwn
PROPERTIES
    EvidenceIsAppendOnly
    UsageNeverRegresses
CHECK_DEADLOCK FALSE
