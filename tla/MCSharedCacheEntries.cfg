\* Two workers refresh and persist one model under rules that differ, agree or
\* change across restarts; two writes can be pending.
CONSTANTS
    Workers = {w1, w2}
    Models = {m1}
    Fps = {fp1, fp2}
    Lists = {}
    NoEntry = NoEntry
    NoList = NoList
    NoJob = NoJob
    Slots = {s1, s2}
    PollInterval = 1
    Retention = 1
    FetchTime = 0
    MaxTime = 3
SYMMETRY MCSymmetry
CONSTRAINT MCFewPending
SPECIFICATION Spec
INVARIANTS OwnRule MergeIsAtomic NothingForgotten
PROPERTY FileMovesForward
CHECK_DEADLOCK FALSE
