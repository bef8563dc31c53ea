\* Two workers discover allowlists and persist them; one of them refreshes a model.
CONSTANTS
    Workers = {w1, w2}
    Models = {m1}
    Fps = {fp1}
    Lists = {l1, l2}
    NoEntry = NoEntry
    NoList = NoList
    NoJob = NoJob
    Slots = {s1, s2}
    PollInterval = 2
    Retention = 2
    FetchTime = 0
    MaxTime = 2
SYMMETRY MCSymmetry
CONSTRAINT MCRoles
SPECIFICATION Spec
INVARIANT AllowlistPairHeals
PROPERTY AllowlistSurvives
CHECK_DEADLOCK FALSE
