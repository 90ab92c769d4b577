CONSTANTS
    p1 = p1
    p2 = p2
    q1 = q1
    Passes <- OnePass
    Requests <- OneRequest
    MaxTasks = 2
    Poison = {1}
    BatchSize = 2
    Interval = 2
    MaxTime = 4
    MaxDeaths = 1
SPECIFICATION FairSpec
PROPERTIES
    NoStarvation
