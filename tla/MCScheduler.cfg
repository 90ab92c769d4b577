CONSTANTS
    p1 = p1
    p2 = p2
    q1 = q1
    Passes <- TwoPasses
    Requests <- OneRequest
    MaxTasks = 2
    Poison = {1}
    BatchSize = 2
    Interval = 2
    MaxTime = 5
    MaxDeaths = 1
SPECIFICATION Spec
SYMMETRY MCSymmetry
INVARIANTS
    TypeOK
    OneCatchUpPerPass
    ClaimIsExclusive
PROPERTIES
    NoRunAfterDelete
