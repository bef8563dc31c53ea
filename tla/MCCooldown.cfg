\* Two threads record, mark and read, out of order by up to a tick.
CONSTANTS
    Keys = {k1, k2}
    Threads = {t1, t2}
    UsedOps = {"record", "record_input_cap", "record_broken", "is_input_capped", "is_broken"}
    Window = 2
    Threshold = 2
    InputCapTtl = 2
    BrokenTtl <- MCBrokenTtl
    Lag = 1
    MaxTime = 7
    MaxHits = 4
SYMMETRY MCSymmetry
CONSTRAINT MCApart
SPECIFICATION Spec
INVARIANTS HotOnlyWhenDue HotWhenDue StoredKeysAreRecent SkipHonoured SkipBounded
CHECK_DEADLOCK FALSE
