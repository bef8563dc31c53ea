\* Two failing requests, two providers and a third in lists, both failure hooks and the routing.
CONSTANTS
    Requests = {r1, r2}
    Router = Router
    Slugs = {a, b, c}
    Other = c
    Hash = Hash
    NoList = NoList
    Lists = {l1, l2}
    UsedFailures <- MCFailureSet
    RuleOf <- MCRuleOf
    Window = 1
    Threshold = 2
    InputCapTtl = 1
    BrokenTtl <- MCBrokenTtl
    Lag = 0
    MaxTime = 2
    MaxHits = 4
    Injections <- MCInjections
    Settings <- MCSettings
SPECIFICATION Spec
SYMMETRY MCSymmetry
VIEW MCView
CONSTRAINTS OneBefore Alike
ACTION_CONSTRAINT ReadsThatReap
INVARIANTS HotIsEarned MarksAreEarned FailuresTell NoSilentDefaults
PROPERTIES ServedAlike MemoryKeepsItsPromise
CHECK_DEADLOCK FALSE
