\* Three slugs, two tolerances; unusable prices and speeds, duplicate rows.
CONSTANTS
    Slugs = {1, 2, 3}
    Prices = {0, 100, 101, 150, 200}
    Speeds = {0, 1, 2, 3}
    Tolerances = {0, 60}
    MaxPoints = 4
SPECIFICATION Spec
INVARIANT NoZeroDenominator Undominated NoBetterBuy BestValue EachOnce OrderIsRanking
PROPERTY KeepsTheBest
CHECK_DEADLOCK FALSE
