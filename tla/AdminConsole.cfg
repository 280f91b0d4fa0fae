CONSTANTS
    t1 = t1
    t2 = t2
    Tabs = {t1, t2}
    Fetches <- MCFetches
    Clicks = {1}
    Limit = 2
    MaxRows = 3
    MaxFaults = 1
SPECIFICATION FairSpec
INVARIANTS
    TypeOK
    UnsavedStaysLocal
PROPERTY ScreensConverge
