\* Both modes with a banned endpoint, under a strict region policy and each
\* policy on unverified regions.
CONSTANTS
    acme = acme
    bolt = bolt
    Tolerance = 0
    Slugs = {1, 2, 3}
    OrgOf <- MCOrgOf
    Regions = {"SG", "US"}
    Blank = "-"
    Excluded = {"SG"}
    AllowUnknown = FALSE
    Banned <- MCBanned
    MaxPrice = 500
    NoList = NoList
    NoSlug = NoSlug
    Polls <- MCPolls
    Lists <- MCLists
    Deployments <- MCDeployments
    Fallback <- MCFallback
    Modes = {TRUE, FALSE}
    Strict = TRUE
    Policies = {"no_route", "unpinned", "trust_fallback"}
    Damped = TRUE
    NoEntry = NoEntry
    NoDecision = NoDecision
SPECIFICATION Spec
INVARIANT RoutedIsUsable RegionHonoured RefusalsAreEarned SkippedIsLastResort NeverWidened PinnedIsWellChosen
CHECK_DEADLOCK FALSE
