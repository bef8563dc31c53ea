\* Three rows of two organisations that may repeat a slug, cost too much, fail
\* another filter, be banned or off the allowlist, in every kind of geography.
CONSTANTS
    acme = acme
    bolt = bolt
    Slugs = {1, 2, 3}
    OrgOf <- MCOrgOf
    Regions <- MCRegions
    Blank = "-"
    Excluded = {"SG"}
    AllowUnknown = FALSE
    Banned <- MCBanned
    MaxPrice = 150
    Tolerance = 0
    NoList = NoList
    NoSlug = NoSlug
    Prices = {100, 200}
    Speeds = {1, 2}
    Geographies <- MCGeographies
    Lists <- MCLists
    MaxRows = 3
SPECIFICATION Spec
INVARIANT OnlyVerified VerdictsPartition FastestAdmitted
CHECK_DEADLOCK FALSE
