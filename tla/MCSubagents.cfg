SPECIFICATION FairSpec
CONSTANTS
    Subs = {s1}
    Threads = {t1, t2}
    Cleaners = {c1, c2}
    NoThread = NoThread
    NoSub = NoSub
    Faults = {"crash", "drain", "fence"}
INVARIANTS JobMirrors WorktreesAccounted
PROPERTIES RemovalSparesRuns CancelWins CancelEndsRun
CHECK_DEADLOCK FALSE
