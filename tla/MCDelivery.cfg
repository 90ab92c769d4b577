SPECIFICATION Spec
CONSTANTS
    s1 = s1
    c1 = c1
    z1 = z1
    m1 = m1
    e1 = e1
    a = a
    b = b
    NoRun = NoRun
    Width = 3
    HeaderType <- Headers
    MaxCleaningChanges = 4
    MaxStandardChanges = 4
    MaxBlockSize = 3
    MaxDecisions = 2
    MaxExclusions = 1
    KEYS <- Words
    Runs <- ChainRuns
    Type <- ChainType
    Source <- ChainSource
    Workers = {a, b}
    Inputs <- SourceFiles
    MappingChoices <- MappingEdits
    LookupChoices <- Entries
    RuleSetChoices <- RuleSetEdits
    InitialConfigs <- Configs
    MaxAttempts <- Executions
    MaxReviews = 4
    MaxEdits = 1
ACTION_CONSTRAINT OneIsDisturbed
SYMMETRY Interchangeable
INVARIANTS
    RowsAreLegal
    GroupsAreComponents
    ExportIsExact
    ChangesReplay
    ExportIsApproved
CHECK_DEADLOCK FALSE
