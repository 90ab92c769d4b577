SPECIFICATION Spec
CONSTANTS
    c1 = c1
    c2 = c2
    e1 = e1
    Artifacts = {c1, c2, e1}
    RunType <- RunTypes
    DecidedAt <- Ages
    Faulty = {c1}
    Workers = {u, v}
    BatchSize = 2
    MaxGlitches = 1
INVARIANTS
    TypeOK
    TalliesMatchEvents
    OncePerPass
PROPERTY
    NoneStarved
