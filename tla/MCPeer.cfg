SPECIFICATION Spec
CONSTANTS
    b1 = b1
    b2 = b2
    b3 = b3
    PBlock = {b1, b2, b3}
    Parents <- Chain
    Refusable = {b3}
    Submitted = {b2}
    Inbound = {in}
    Outbound = {out}
    MaxOrphans = 1
    MaxParentDeps = 3
    MaxInflight = 2
    MaxBreaks = 1
    MaxFailures = 1
    MaxAccepts = 1
INVARIANT OrphansReleased
PROPERTY BlocksSpread
CHECK_DEADLOCK FALSE
