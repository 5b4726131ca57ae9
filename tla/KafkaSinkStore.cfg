\* Two threads, three requests, two restarts.
SPECIFICATION Spec
CONSTANTS
    Threads = {t1, t2}
    Ids = {1, 2, 4, 5, 6}
    Numbers = {1, 2}
    DerivedId <- MCDerived
    Seeds <- MCSeeds
    Patches <- MCPatches
    None = None
    Junk = Junk
    MaxRequests = 3
    MaxRestarts = 2
SYMMETRY Symmetry
INVARIANTS TypeOK CacheOnFile TopicMirrorsStore
PROPERTY ImplementsStore
CHECK_DEADLOCK FALSE
