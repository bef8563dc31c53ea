\* Two requests under a region rule, two slugs, three polls, a damping of two, under the event
\* loop's fairness.
CONSTANTS
    Requests = {r1, r2}
    a = a
    b = b
    Slugs = {a, b}
    Stored <- MCStored
    NoSlug = NoSlug
    NoEntry = NoEntry
    NoTask = NoTask
    Slots = {w1}
    Regional = TRUE
    PromotionPolls = 2
    PollInterval = 1
    ColdStartTimeout = 1
    MaxTime = 2
SPECIFICATION FairSpec
INVARIANTS IInv SingleFlight ShutdownSaves WinnerIsSafe
PROPERTIES Damped PollsAreSpaced EveryTaskEnds
CHECK_DEADLOCK FALSE
