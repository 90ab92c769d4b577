CONSTANTS
    w1 = w1
    w2 = w2
    Workers <- MCWorkers
    MaxRuns = 2
    MaxAttempts = 2
    BatchSize = 2
    MaxCrashes = 1
SPECIFICATION Spec
SYMMETRY MCSymmetry
INVARIANTS
    TypeOK
    RowConstraints
    AttemptsBounded
    AuditBalanced
    ReclaimedOnlyAfterLapse
    TokensFence
PROPERTIES
    TerminalIsFinal
    ImplementsLifecycle
