CONSTANTS
    w1 = w1
    w2 = w2
    Workers <- MCWorkers
    MaxRuns = 1
    MaxAttempts = 2
    BatchSize = 1
    MaxCrashes = 2
SPECIFICATION FairSpec
PROPERTY EveryRunFinishes
