\* Three runs that may overlap, and one piece of content that may be filed and
\* listed at any time: what becomes of it does not depend on any other.
SPECIFICATION Spec
CONSTANTS
    r1 = r1
    r2 = r2
    r3 = r3
    c1 = c1
    Runs = {r1, r2, r3}
    Content = {c1}
    Overlap = 2
    Lookback = 4
    MaxWindow = 4
    MaxRun = 2
    MaxLag = 2
    MaxTime = 14
SYMMETRY MCSymmetry
INVARIANTS
    NoGap
PROPERTIES
    CheckpointNeverRegresses
\* The clock stops at its bound and every run ends.
CHECK_DEADLOCK FALSE
