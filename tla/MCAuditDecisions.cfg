CONSTANTS
    Width = 1
    MaxPersistedIssues = 9
    MaxPersistedChanges = 4
    MaxPersistedResults = 3
    MaxPersistedFindings = 3
    s1 = s1
    d1 = d1
    r1 = r1
    v1 = v1
    q1 = q1
    q2 = q2
    NoRun = NoRun
    Runs <- ChainRuns
    Type <- ChainType
    Sources <- ChainSources
    Executors = {e1, e2}
    Reviewers = {u1, u2}
    Files <- FlowFiles
    RuleTables <- FlowRules
    DatasetConfigs <- FlowDatasets
    Thresholds <- FlowThresholds
    MaxEdits = 1
    MaxTime = 1
    MaxDecisions = 2
SPECIFICATION Spec
INVARIANT OneDecisionPerChange
CHECK_DEADLOCK FALSE
