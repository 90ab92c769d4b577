CONSTANTS
    Width = 2
    MaxPersistedIssues = 9
    MaxPersistedChanges = 4
    MaxPersistedResults = 3
    MaxPersistedFindings = 3
    s1 = s1
    d1 = d1
    r1 = r1
    v1 = v1
    q1 = q1
    q2 = q2
    NoRun = NoRun
    Runs <- ChainRuns
    Type <- ChainType
    Sources <- ChainSources
    Executors = {e1}
    Reviewers = {u1}
    Files <- DataFiles
    RuleTables <- DataRules
    DatasetConfigs <- DataDatasets
    Thresholds <- DataThresholds
    MaxEdits = 1
    MaxTime = 0
    MaxDecisions = 4
SPECIFICATION Spec
INVARIANTS
    RulesAgree
    RowsAreLegal
    PassMeansFixed
    RowsNotOverstated
CONSTRAINT OneByOne
CHECK_DEADLOCK FALSE
