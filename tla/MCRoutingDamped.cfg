\* Wildcard mode with a winner that promotion damping holds back.
CONSTANTS
    acme = acme
    bolt = bolt
    Tolerance = 0
    Slugs = {1, 2, 3}
    OrgOf <- MCOrgOf
    Regions = {"SG", "US"}
    Blank = "-"
    Excluded = {"SG"}
    AllowUnknown = FALSE
    Banned = {}
    MaxPrice = 500
    NoList = NoList
    NoSlug = NoSlug
    Polls <- MCPolls
    Lists <- MCLists
    Deployments <- MCDeployments
    Fallback <- MCFallback
    Modes = {TRUE}
    Strict = FALSE
    Policies = {"no_route", "unpinned", "trust_fallback"}
    Damped = TRUE
    NoEntry = NoEntry
    NoDecision = NoDecision
SPECIFICATION Spec
INVARIANT CachedWinnerFirst
CHECK_DEADLOCK FALSE
