\* The comment of _persist on whose allowlist is kept.
CONSTANTS
    Workers = {w1, w2}
    Models = {}
    Fps = {fp1}
    Lists = {l1, l2}
    NoEntry = NoEntry
    NoList = NoList
    NoJob = NoJob
    Slots = {s1}
    PollInterval = 1
    Retention = 1
    FetchTime = 0
    MaxTime = 3
SYMMETRY MCSymmetry
SPECIFICATION Spec

PROPERTY AllowlistMovesForward
CHECK_DEADLOCK FALSE
