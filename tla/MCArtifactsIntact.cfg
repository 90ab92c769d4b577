CONSTANTS
    e1 = e1
    e2 = e2
    u1 = u1
    u2 = u2
    d1 = d1
    c1 = c1
    g1 = g1
    v1 = v1
    v2 = v2
    Executors <- TwoExecutors
    Reviewers <- TwoReviewers
    Downloads <- OneDownload
    Consumers <- OneConsumer
    Purgers <- OnePurger
    Contents <- TwoContents
    Modes = {TRUE, FALSE}
    MaxAttempts = 2
SPECIFICATION Spec
INVARIANT
    DecidedFileIsIntact
